---------------------- MODULE SiteManagerReliableProofs ----------------------
(***************************************************************************)
(* Proofs about SiteManager on an API server that never fails, for any     *)
(* components, settings and number of requests.                            *)
(***************************************************************************)
EXTENDS SiteManagerProofs

USE DEF Requests, clusterVars

------------------------------------------------------------------------------
(* The inductive invariant. *)

\* Without failing calls every scaler is started and delivers, and the caller
\* leaves the first loop only when all of them have.
Reliable(r) ==
    /\ \A c \in Components : scaler[r][c] \notin {"sendErr", "failed"}
    /\ main[r] # "storeScale" /\ bg[r] # "gaveUp"
    /\ main[r] \in {"idle", "recvScale"} => err[r] = "nil"
    /\ bg[r] = "joinScalers" \/ ScaleChClosed(r) => \A c \in Components : scaler[r][c] # "off"
    /\ r < current => main[r] = "returned"

\* What the latest request has delivered is what the cluster was told last.
Applied ==
    current > 0 => \A c \in Components :
        scaler[current][c] \in {"sendNil", "delivered"} => replicas[c] = Target(current, c)

RInv == IInv /\ (\A r \in Requests : Reliable(r)) /\ Applied

------------------------------------------------------------------------------
(* Facts that follow from it. *)

\* No call fails when none may.
LEMMA NothingFails ==
    ASSUME TypeOK, MaxFailures = 0
    PROVE  ~Fail
  BY DEF TypeOK, Fail

\* Until the scalers are joined the caller receives from them.
LEMMA Listening ==
    ASSUME RInv, NEW r \in Requests, bg[r] # "off", ~ScaleChClosed(r)
    PROVE  main[r] = "recvScale" /\ err[r] = "nil"
  BY DEF RInv, IInv, RequestInv, Lifecycle, StoppedListening, Reliable

\* Only the latest request has scalers that run.
LEMMA OnlyLatestRuns ==
    ASSUME RInv, NEW r \in Requests, NEW c \in Components, Running(scaler[r][c])
    PROVE  r = current
  <1>1. bg[r] # "off" /\ ~ScaleChClosed(r)
    BY DEF RInv, IInv, RequestInv, Joined, Running
  <1>2. main[r] = "recvScale"
    BY <1>1, Listening
  <1>3. ~(r < current) /\ ~(r > current)
    BY <1>2 DEF RInv, IInv, RequestInv, Lifecycle, Reliable
  <1>4. r \in Nat /\ current \in Nat
    BY DEF RInv, IInv, TypeOK
  <1>. QED
    BY <1>3, <1>4

------------------------------------------------------------------------------
(* Every step keeps it. *)

\* Before the first request.
LEMMA RInit == Init => RInv
  <1>. SUFFICES ASSUME Init PROVE RInv
    OBVIOUS
  <1>1. \A r \in Requests : Reliable(r)
    BY DEF Init, Reliable, ScaleChClosed
  <1>2. Applied
    BY DEF Init, Applied
  <1>. QED
    BY <1>1, <1>2, InvInit DEF RInv

\* The facts about a request survive a step of another one.
LEMMA ReliableFrame ==
    ASSUME NEW q \in Requests, Reliable(q), Same(q), current' = current
    PROVE  Reliable(q)'
  BY DEF Reliable, Same, ScaleChClosed

\* Replicas and scalers in the hands of nobody.
LEMMA AppliedFrame ==
    ASSUME Applied, UNCHANGED <<current, mode, replicas>>,
           current > 0 => \A c \in Components :
               scaler'[current][c] \in {"sendNil", "delivered"}
                   => scaler[current][c] \in {"sendNil", "delivered"}
    PROVE  Applied'
  BY DEF Applied, Target

\* The caller.
LEMMA MainReliable ==
    ASSUME RInv, TypeOK', MaxFailures = 0, NEW r \in Requests, Main(r)
    PROVE  Reliable(r)' /\ Applied' /\ current' = current
  <1>. TypeOK /\ Reliable(r) /\ RequestInv(r) /\ Applied
    BY DEF RInv, IInv
  <1>1. ASSUME NEW c \in Components, ReceiveScale(r, c)
        PROVE  Reliable(r)' /\ Applied' /\ current' = current
    <2>1. /\ main[r] = "recvScale" /\ scaler[r][c] = "sendNil"
          /\ scaler' = [scaler EXCEPT ![r][c] = "delivered"]
          /\ UNCHANGED <<replicas, current, mode, bg, err>>
      BY <1>1 DEF ReceiveScale, Reliable, SendStates, Received
    <2>2. main' = main
      BY <1>1, <2>1 DEF ReceiveScale, TypeOK
    <2>3. \A q \in Requests, d \in Components :
            scaler'[q][d] = IF q = r /\ d = c THEN "delivered" ELSE scaler[q][d]
      BY <2>1 DEF TypeOK
    <2>4. Reliable(r)'
      BY <2>1, <2>2, <2>3 DEF Reliable, ScaleChClosed
    <2>5. current > 0 => current \in Requests
      BY DEF TypeOK
    <2>6. Applied'
      BY <2>1, <2>3, <2>5, AppliedFrame
    <2>. QED
      BY <2>1, <2>4, <2>6
  <1>2. CASE ~\E c \in Components : ReceiveScale(r, c)
    <2>1. /\ UNCHANGED <<clusterVars, current, mode, scaler>>
          /\ \/ main[r] \in {"recvWait", "storeWait", "checkWait", "checkScale"}
                /\ main'[r] \in {"recvWait", "storeWait", "checkWait", "returned"}
                /\ bg'[r] = bg[r]
             \/ main[r] = "recvScale" /\ main'[r] = "checkScale" /\ bg'[r] = bg[r]
             \/ /\ main[r] = "recvWait" /\ main'[r] = "storeWait" /\ ScaleChClosed(r)
                /\ bg'[r] \in {"deleteWorkers", "sendWorkersErr", "closed"}
      <3>1. CASE ReceiveWorkersErr(r)
        BY <3>1 DEF ReceiveWorkersErr, TypeOK, ScaleChClosed
      <3>2. CASE \E c \in Components : ReceiveWait(r, c)
        BY <3>2 DEF ReceiveWait, TypeOK
      <3>3. CASE ScaleLoopEnds(r) \/ StoreScaleErr(r) \/ CheckScaleErr(r)
        BY <3>3 DEF ScaleLoopEnds, StoreScaleErr, CheckScaleErr, TypeOK, Reliable
      <3>4. CASE WaitLoopEnds(r) \/ StoreWaitErr(r) \/ Answer(r)
        BY <3>4 DEF WaitLoopEnds, StoreWaitErr, Answer, TypeOK
      <3>. QED
        BY <1>2, <3>1, <3>2, <3>3, <3>4 DEF Main
    <2>2. r < current => main'[r] = "returned"
      BY <2>1 DEF Reliable
    <2>3. Reliable(r)'
      BY <2>1, <2>2 DEF Reliable, ScaleChClosed
    <2>4. Applied'
      BY <2>1, AppliedFrame
    <2>. QED
      BY <2>1, <2>3, <2>4
  <1>. QED
    BY <1>1, <1>2

\* The background goroutine.
LEMMA BackgroundReliable ==
    ASSUME RInv, TypeOK', MaxFailures = 0, NEW r \in Requests, Background(r)
    PROVE  Reliable(r)' /\ Applied' /\ current' = current
  <1>. TypeOK /\ Reliable(r) /\ RequestInv(r) /\ Applied
    BY DEF RInv, IInv
  <1>0. ~Fail
    BY NothingFails
  <1>1. /\ UNCHANGED <<replicas, current, mode, main>>
        /\ bg[r] # "off"
    BY DEF Background, ListDeployments, ListStatefulSets, ScaleStatefulSets, JoinScalers,
           ListStatefulSetsAgain, WaitForStatefulSets, JoinWaiters, ListWorkers, DeleteWorker,
           WorkersDeleted, AssignListErr
  <1>2. ASSUME NEW C \in {Deployments, StatefulSets},
               scaler' = [scaler EXCEPT ![r] = Started(@, C, "get")]
        PROVE  /\ \A c \in Components :
                    scaler'[r][c] = IF c \in C THEN "get" ELSE scaler[r][c]
               /\ Applied'
    <2>1. \A q \in Requests, c \in Components :
            scaler'[q][c] = IF q = r /\ c \in C THEN "get" ELSE scaler[q][c]
      BY <1>2 DEF Started, TypeOK
    <2>2. current > 0 => current \in Requests
      BY DEF TypeOK
    <2>. QED
      BY <1>1, <2>1, <2>2, AppliedFrame
  <1>3. CASE ListDeployments(r)
    <2>1. /\ scaler' = [scaler EXCEPT ![r] = Started(@, Deployments, "get")]
          /\ bg'[r] = "listStatefulSets" /\ UNCHANGED err
      BY <1>0, <1>3 DEF ListDeployments, TypeOK
    <2>2. Applied' /\ \A c \in Components : scaler'[r][c] \in {"get", scaler[r][c]}
      BY <1>2, <2>1
    <2>. QED
      BY <1>1, <2>1, <2>2 DEF Reliable, ScaleChClosed
  <1>4. CASE ListStatefulSets(r) \/ ListStatefulSetsAgain(r)
    <2>1. /\ UNCHANGED scaler /\ err'[r] = "nil"
          /\ \/ bg[r] = "listStatefulSets" /\ bg'[r] = "readErr"
             \/ bg[r] = "listAgain" /\ bg'[r] = "readErrAgain"
      BY <1>0, <1>4 DEF ListStatefulSets, ListStatefulSetsAgain, AssignListErr, TypeOK
    <2>2. Applied'
      BY <1>1, <2>1, AppliedFrame
    <2>. QED
      BY <1>1, <2>1, <2>2 DEF Reliable, ScaleChClosed
  <1>5. CASE ScaleStatefulSets(r)
    <2>1. bg[r] = "readErr" /\ bg'[r] = "joinScalers" /\ UNCHANGED err
      BY <1>5 DEF ScaleStatefulSets, TypeOK
    <2>2. err[r] = "nil"
      BY <2>1, Listening DEF ScaleChClosed
    <2>3. scaler' = [scaler EXCEPT ![r] = Started(@, StatefulSets, "get")]
      BY <1>5, <2>2 DEF ScaleStatefulSets
    <2>4. /\ \A c \in Components :
               scaler'[r][c] = IF c \in StatefulSets THEN "get" ELSE scaler[r][c]
          /\ Applied'
      BY <1>2, <2>3
    <2>5. \A c \in Deployments : scaler[r][c] # "off"
      BY <2>1 DEF RequestInv, Joined, Components
    <2>6. \A c \in Components : scaler'[r][c] # "off"
      BY <2>4, <2>5 DEF Components
    <2>. QED
      BY <1>1, <2>1, <2>4, <2>6 DEF Reliable, ScaleChClosed
  <1>6. CASE \/ JoinScalers(r) \/ WaitForStatefulSets(r) \/ JoinWaiters(r) \/ ListWorkers(r)
             \/ WorkersDeleted(r) \/ \E p \in WorkerPods : DeleteWorker(r, p)
    <2>1. /\ UNCHANGED <<scaler, err>>
          /\ bg[r] = "joinScalers" \/ ScaleChClosed(r)
          /\ bg'[r] # "gaveUp"
      <3>1. CASE JoinScalers(r) \/ WaitForStatefulSets(r) \/ JoinWaiters(r)
        BY <3>1 DEF JoinScalers, WaitForStatefulSets, JoinWaiters, TypeOK, ScaleChClosed
      <3>2. CASE ListWorkers(r) \/ WorkersDeleted(r)
        BY <3>2 DEF ListWorkers, WorkersDeleted, TypeOK, ScaleChClosed
      <3>3. ASSUME NEW p \in WorkerPods, DeleteWorker(r, p)
            PROVE  /\ UNCHANGED <<scaler, err>>
                   /\ bg[r] = "joinScalers" \/ ScaleChClosed(r)
                   /\ bg'[r] # "gaveUp"
        BY <3>3 DEF DeleteWorker, TypeOK, ScaleChClosed
      <3>. QED
        BY <1>6, <3>1, <3>2, <3>3
    <2>2. Applied'
      BY <1>1, <2>1, AppliedFrame
    <2>. QED
      BY <1>1, <2>1, <2>2 DEF Reliable
  <1>. QED
    BY <1>1, <1>3, <1>4, <1>5, <1>6 DEF Background

\* The goroutines per component.
LEMMA ComponentReliable ==
    ASSUME RInv, TypeOK', MaxFailures = 0, NEW r \in Requests, NEW c \in Components,
           GetObject(r, c) \/ UpdateReplicas(r, c) \/ Poll(r, c)
    PROVE  Reliable(r)' /\ Applied' /\ current' = current
  <1>. TypeOK /\ Reliable(r) /\ RequestInv(r) /\ Applied
    BY DEF RInv, IInv
  <1>0. ~Fail
    BY NothingFails
  <1>1. UNCHANGED <<current, mode, main, bg, err>>
    BY DEF GetObject, UpdateReplicas, Poll
  <1>2. current > 0 => current \in Requests
    BY DEF TypeOK
  <1>3. CASE GetObject(r, c)
    <2>1. scaler' = [scaler EXCEPT ![r][c] = "update"] /\ UNCHANGED replicas
      BY <1>0, <1>3 DEF GetObject, SetScaler
    <2>2. \A q \in Requests, d \in Components :
            scaler'[q][d] = IF q = r /\ d = c THEN "update" ELSE scaler[q][d]
      BY <2>1 DEF TypeOK
    <2>3. Applied'
      BY <1>1, <1>2, <2>1, <2>2, AppliedFrame
    <2>. QED
      BY <1>1, <2>2, <2>3 DEF Reliable, ScaleChClosed
  <1>4. CASE UpdateReplicas(r, c)
    <2>1. /\ scaler' = [scaler EXCEPT ![r][c] = "sendNil"]
          /\ replicas' = [replicas EXCEPT ![c] = Target(r, c)]
          /\ scaler[r][c] = "update"
      BY <1>0, <1>4 DEF UpdateReplicas, SetScaler
    <2>2. \A q \in Requests, d \in Components :
            scaler'[q][d] = IF q = r /\ d = c THEN "sendNil" ELSE scaler[q][d]
      BY <2>1 DEF TypeOK
    <2>3. r = current
      BY <2>1, OnlyLatestRuns DEF Running, EndStates
    <2>4. \A d \in Components : replicas'[d] = IF d = c THEN Target(r, c) ELSE replicas[d]
      BY <2>1 DEF TypeOK, ClusterTypeOK
    <2>5. \A d \in Components : Target(current, d)' = Target(current, d)
      BY <1>1 DEF Target
    <2>6. Applied'
      BY <1>1, <2>2, <2>3, <2>4, <2>5 DEF Applied
    <2>. QED
      BY <1>1, <2>2, <2>6 DEF Reliable, ScaleChClosed
  <1>5. CASE Poll(r, c)
    <2>1. UNCHANGED <<replicas, scaler>>
      BY <1>5 DEF Poll
    <2>2. Applied'
      BY <1>1, <2>1, AppliedFrame
    <2>. QED
      BY <1>1, <2>1, <2>2 DEF Reliable, ScaleChClosed
  <1>. QED
    BY <1>3, <1>4, <1>5

\* A new request comes when the one before it has been answered; none of its
\* scalers runs yet.
LEMMA RequestReliable ==
    ASSUME RInv, TypeOK', NEW m \in Modes, Request(m)
    PROVE  (\A q \in Requests : Reliable(q)') /\ Applied'
  <1>. TypeOK
    BY DEF RInv, IInv
  <1>0. current \in Nat /\ current + 1 \in Requests /\ current' = current + 1
    BY SiteManagerAssumption DEF TypeOK, Request
  <1>. PICK r \in Requests : r = current + 1
    BY <1>0
  <1>1. r = current + 1 /\ current' = r /\ current \in Nat
    BY <1>0
  <1>2. main[r] = "idle" /\ bg[r] = "off" /\ \A c \in Components : scaler[r][c] = "off"
    BY <1>1 DEF RInv, IInv, RequestInv, Lifecycle, Joined
  <1>3. /\ UNCHANGED <<replicas, scaler>>
        /\ current > 0 => main[current] = "returned"
        /\ main'[r] \in {"recvScale", "returned"}
        /\ bg'[r] \in {"listDeployments", bg[r]}
        /\ main'[r] = "recvScale" => err' = err
        /\ \A q \in Requests \ {r} : main'[q] = main[q] /\ bg'[q] = bg[q] /\ err'[q] = err[q]
    BY <1>1 DEF Request, TypeOK
  <1>4. Reliable(r)'
    BY <1>1, <1>2, <1>3 DEF RInv, Reliable, ScaleChClosed
  <1>5. ASSUME NEW q \in Requests \ {r} PROVE Reliable(q)'
    <2>1. q < r => main[q] = "returned"
      <3>1. q < r => q < current \/ q = current
        BY <1>1
      <3>. QED
        BY <1>3, <3>1 DEF RInv, Reliable
    <2>. QED
      BY <1>1, <1>3, <2>1 DEF RInv, Reliable, ScaleChClosed
  <1>6. Applied'
    BY <1>1, <1>2, <1>3 DEF Applied
  <1>. QED
    BY <1>4, <1>5, <1>6

\* Every step keeps the invariant, if no call may fail.
LEMMA RStep == ASSUME MaxFailures = 0 PROVE RInv /\ [Next]_vars => RInv'
  <1>. SUFFICES ASSUME RInv, [Next]_vars PROVE RInv'
    OBVIOUS
  <1>1. IInv /\ IInv' /\ TypeOK'
    BY InvStep DEF RInv, IInv
  <1>2. ASSUME NEW r \in Requests, Reliable(r)', Applied', current' = current,
               \A q \in Requests \ {r} : Same(q)
        PROVE  RInv'
    BY <1>1, <1>2, ReliableFrame DEF RInv
  <1>3. ASSUME NEW r \in Requests, Main(r) PROVE RInv'
    <2>1. \A q \in Requests \ {r} : Same(q)
      BY <1>1, <1>3, InvReceiveScale, InvReceiveWait, InvReceiveWorkersErr,
         InvScaleLoopEnds, InvStoreScaleErr, InvCheckScaleErr, InvWaitLoopEnds,
         InvStoreWaitErr, InvAnswer DEF Main
    <2>. QED
      BY <1>1, <1>2, <1>3, <2>1, MainReliable
  <1>4. ASSUME NEW r \in Requests, Background(r) PROVE RInv'
    <2>1. \A q \in Requests \ {r} : Same(q)
      BY <1>1, <1>4, InvListDeployments, InvListStatefulSets, InvScaleStatefulSets,
         InvJoinScalers, InvListStatefulSetsAgain, InvWaitForStatefulSets,
         InvJoinWaiters, InvListWorkers, InvDeleteWorker, InvWorkersDeleted DEF Background
    <2>. QED
      BY <1>1, <1>2, <1>4, <2>1, BackgroundReliable
  <1>5. ASSUME NEW r \in Requests, NEW c \in Components,
               GetObject(r, c) \/ UpdateReplicas(r, c) \/ Poll(r, c)
        PROVE  RInv'
    <2>1. \A q \in Requests \ {r} : Same(q)
      BY <1>1, <1>5, InvGetObject, InvUpdateReplicas, InvPoll
    <2>. QED
      BY <1>1, <1>2, <1>5, <2>1, ComponentReliable
  <1>6. ASSUME NEW m \in Modes, Request(m) PROVE RInv'
    BY <1>1, <1>6, RequestReliable DEF RInv
  <1>7. CASE (ClusterNext /\ UNCHANGED managerVars) \/ UNCHANGED vars
    <2>1. UNCHANGED managerVars /\ UNCHANGED replicas
      BY <1>7 DEF vars, ClusterNext, PodBecomesReady, PodLost, WorkerPodStarts, WorkerPodEnds
    <2>2. UNCHANGED <<current, mode, main, bg, scaler, err>>
      BY <2>1 DEF managerVars
    <2>3. Applied'
      BY <2>1, <2>2, AppliedFrame DEF RInv
    <2>4. \A r \in Requests : Reliable(r)'
      BY <2>2 DEF RInv, Reliable, ScaleChClosed
    <2>. QED
      BY <1>1, <2>3, <2>4 DEF RInv
  <1>. QED
    BY <1>3, <1>4, <1>5, <1>6, <1>7 DEF Next

------------------------------------------------------------------------------
(* The theorems. *)

(***************************************************************************)
(* With an API server that never fails, done means that every component    *)
(* has the replicas of the latest request, whatever goroutines earlier     *)
(* requests left behind.                                                   *)
(***************************************************************************)
THEOREM DoneIsScaled == ASSUME MaxFailures = 0 PROVE Spec => []DoneMeansScaled
  <1>1. RInv => DoneMeansScaled
    <2>. SUFFICES ASSUME RInv, current > 0, result[current] = "done", NEW c \in Components
                  PROVE  replicas[c] = Target(current, c)
      BY DEF DoneMeansScaled
    <2>1. current \in Requests
      BY DEF RInv, IInv, TypeOK
    <2>2. bg[current] # "off" /\ main[current] = "returned"
      BY <2>1 DEF RInv, IInv, RequestInv, Lifecycle
    <2>3. ScaleChClosed(current)
      BY <2>1, <2>2, Listening
    <2>4. /\ ~Running(scaler[current][c])
          /\ scaler[current][c] \notin {"off", "failed"}
      BY <2>1, <2>3 DEF RInv, IInv, RequestInv, Joined, Reliable
    <2>5. scaler[current][c] = "delivered"
      BY <2>4 DEF Running, EndStates
    <2>. QED
      BY <2>5 DEF RInv, Applied
  <1>. QED
    BY <1>1, RInit, RStep, PTL DEF Spec

(***************************************************************************)
(* With an API server that never fails, a step changes replicas only for   *)
(* the latest request: no scaler of an answered one is still running.      *)
(***************************************************************************)
THEOREM LatestScales == ASSUME MaxFailures = 0 PROVE Spec => OnlyLatestScales
  <1>1. RInv /\ [Next]_vars
          => [replicas' # replicas =>
                \A c \in Components : replicas'[c] \in {replicas[c], Target(current, c)}]_vars
    <2>. SUFFICES ASSUME RInv, [Next]_vars, replicas' # replicas
                  PROVE  \A c \in Components :
                            replicas'[c] \in {replicas[c], Target(current, c)}
      OBVIOUS
    <2>1. PICK r \in Requests, c \in Components : UpdateReplicas(r, c)
      BY DEF vars, Next, Request, Main, ReceiveScale, ReceiveWait, ReceiveWorkersErr,
             ScaleLoopEnds, StoreScaleErr, CheckScaleErr, WaitLoopEnds, StoreWaitErr, Answer,
             Background, ListDeployments, ListStatefulSets, ScaleStatefulSets, JoinScalers,
             ListStatefulSetsAgain, WaitForStatefulSets, JoinWaiters, ListWorkers,
             DeleteWorker, WorkersDeleted, AssignListErr, GetObject, Poll, ClusterNext,
             PodBecomesReady, PodLost, WorkerPodStarts, WorkerPodEnds
    <2>2. scaler[r][c] = "update" /\ replicas' \in {replicas, [replicas EXCEPT ![c] = Target(r, c)]}
      BY <2>1 DEF UpdateReplicas
    <2>3. r = current
      BY <2>2, OnlyLatestRuns DEF Running, EndStates
    <2>. QED
      BY <2>2, <2>3 DEF RInv, IInv, TypeOK, ClusterTypeOK
  <1>. QED
    BY <1>1, RInit, RStep, PTL DEF Spec, OnlyLatestScales

(***************************************************************************)
(* With an API server that never fails no request hangs: as long as the    *)
(* caller of ChangeMode waits, it or one of its goroutines can go on.      *)
(***************************************************************************)
THEOREM NeverHangs ==
    ASSUME MaxFailures = 0
    PROVE  Spec => [](\A r \in Requests : Waiting(r) => CanGoOn(r))
  <1>1. RInv => \A r \in Requests : Waiting(r) => CanGoOn(r)
    <2>. SUFFICES ASSUME RInv, NEW r \in Requests, Waiting(r) PROVE CanGoOn(r)
      OBVIOUS
    <2>1. ~GaveUp(r)
      BY DEF RInv, Reliable, GaveUp
    <2>2. ~Misled(r)
      BY Listening DEF Misled, ScaleChClosed
    <2>. QED
      BY <2>1, <2>2, GoesOn DEF RInv
  <1>. QED
    BY <1>1, RInit, RStep, PTL DEF Spec
==============================================================================
