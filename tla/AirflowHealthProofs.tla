-------------------------- MODULE AirflowHealthProofs --------------------------
(***************************************************************************)
(* Proofs about AirflowHealth, for any components, replica settings,       *)
(* executor pods and failing calls.                                        *)
(***************************************************************************)
EXTENDS AirflowHealth, FiniteSetTheorems, TLAPS

------------------------------------------------------------------------------
(* The inductive invariant. *)

Asked == step # "idle"
LoopIsOver == step \in {"flower", "statsd", "answered"}

\* What product says about the required components the loop has visited; what
\* was seen is among what the documentation speaks of.
Product ==
    /\ \A c \in todo : seen[c] = NotSeen
    /\ \A c \in Labels : seen[c] # NotSeen => c \in Checked
    /\ product # Up => \E c \in Required : seen[c] = product
    /\ product = Up => \A c \in Required : seen[c] \in {Up, NotSeen}
    /\ Asked /\ product = Up => \A c \in Required \ (todo \cup {Worker}) : seen[c] = Up

\* How product and status go together.
Status ==
    /\ step = "loop" => product \in {Up, Unknown} /\ status = "down"
    /\ LoopIsOver =>
        /\ product = Up => todo = {} /\ status \in {"up", "degraded"}
        /\ product = Degraded => status = "degraded"
        /\ product \in {Down, Unknown} => status = "down"

\* What status says about the optional components.
Optionals ==
    /\ step \in {"loop", "flower"} => seen["flower"] = NotSeen /\ seen["statsd"] = NotSeen
    /\ step = "statsd" => seen["statsd"] = NotSeen
    /\ LoopIsOver /\ product = Up =>
        (status = "up" <=> \A c \in Optional : seen[c] \in {Up, NotSeen})

\* As long as nothing changes or fails, what was seen is what there is, and only
\* what has no Deployment was skipped.
Views == [c \in Labels |-> GetComponentStatus(ReadyPods(c), ReplicaMap[c])]
Quiet ==
    Asked /\ stable =>
        /\ \A c \in Labels : seen[c] # NotSeen => seen[c] = Views[c]
        /\ Worker \in (Required \cap Deployments) \ todo => seen[Worker] # NotSeen
        /\ step \in {"statsd", "answered"} /\ "flower" \in Deployments
             => seen["flower"] # NotSeen
        /\ step = "answered" /\ "statsd" \in Deployments => seen["statsd"] # NotSeen

IInv == TypeOK /\ Product /\ Status /\ Optionals /\ Quiet

------------------------------------------------------------------------------
(* Facts about the parts. *)

\* The verdicts are four different numbers, and none of them stands for a
\* component that was not looked at.
LEMMA VerdictsDiffer ==
    /\ Up # Down /\ Up # Degraded /\ Up # Unknown
    /\ Down # Degraded /\ Down # Unknown /\ Degraded # Unknown
    /\ NotSeen \notin Verdicts /\ Up \in Verdicts
  BY DEF Up, Down, Degraded, Unknown, NotSeen, Verdicts

\* flower and statsd are configured and not required.
LEMMA OptionalLabels ==
    /\ "flower" \in Labels \ Required /\ "statsd" \in Labels \ Required
    /\ Optional = {"flower", "statsd"}
    /\ Required \subseteq Labels /\ Optional \cap Required = {}
  BY HealthAssumption DEF Optional, Required, Labels

\* As long as the cluster does not change, every component looks the same.
LEMMA ViewsStay == UNCHANGED clusterVars => Views' = Views /\ (ClusterTypeOK => ClusterTypeOK')
  BY DEF Views, ReadyPods, OwnPods, clusterVars, ClusterTypeOK

\* The cluster keeps its types.
LEMMA ClusterTypes ==
    ASSUME ClusterTypeOK, ClusterNext
    PROVE  ClusterTypeOK'
  <1>. replicas \in [Components -> 0..MaxPods] /\ ready \in [Components -> 0..MaxPods]
       /\ MaxPods \in Nat
    BY ClusterAssumption DEF ClusterTypeOK
  <1>1. ASSUME NEW c \in Components, PodBecomesReady(c) \/ PodLost(c)
        PROVE  ClusterTypeOK'
    <2>1. /\ replicas[c] \in 0..MaxPods /\ ready[c] \in 0..MaxPods
          /\ UNCHANGED <<replicas, workers>>
      BY <1>1 DEF PodBecomesReady, PodLost
    <2>2. CASE PodBecomesReady(c)
      <3>1. ready[c] + 1 \in 0..MaxPods
        BY <2>1, <2>2 DEF PodBecomesReady
      <3>. QED
        BY <2>1, <2>2, <3>1 DEF PodBecomesReady, ClusterTypeOK
    <2>3. CASE PodLost(c)
      <3>1. ready[c] - 1 \in 0..MaxPods
        BY <2>1, <2>3 DEF PodLost
      <3>. QED
        BY <2>1, <2>3, <3>1 DEF PodLost, ClusterTypeOK
    <2>. QED
      BY <1>1, <2>2, <2>3
  <1>2. ASSUME NEW p \in WorkerPods, WorkerPodStarts(p) \/ WorkerPodEnds(p)
        PROVE  ClusterTypeOK'
    BY <1>2 DEF WorkerPodStarts, WorkerPodEnds, ClusterTypeOK
  <1>. QED
    BY <1>1, <1>2 DEF ClusterNext

\* A verdict is right, or a failure was counted.
LEMMA VerdictCases ==
    ASSUME TypeOK, NEW c \in Labels, NEW v \in Verdicts, Verdict(c, v)
    PROVE  /\ failures' \in 0..MaxFailures /\ stable' \in BOOLEAN
           /\ stable' => stable /\ v = Views[c]
  <1>1. failures \in 0..MaxFailures /\ stable \in BOOLEAN
    BY DEF TypeOK
  <1>2. CASE v = GetComponentStatus(ReadyPods(c), ReplicaMap[c]) /\ UNCHANGED <<failures, stable>>
    BY <1>1, <1>2 DEF Views
  <1>3. CASE failures < MaxFailures /\ failures' = failures + 1 /\ stable' = FALSE
    <2>1. failures' \in 0..MaxFailures
      BY <1>1, <1>3, HealthAssumption
    <2>. QED
      BY <1>3, <2>1
  <1>. QED
    BY <1>2, <1>3 DEF Verdict

\* A component is skipped for having no Deployment, or a failure was counted.
LEMMA SkippedCases ==
    ASSUME TypeOK, NEW c, FoundUndeployed(c)
    PROVE  /\ failures' \in 0..MaxFailures /\ stable' \in BOOLEAN
           /\ stable' => stable /\ c \notin Deployments
  <1>1. failures \in 0..MaxFailures /\ stable \in BOOLEAN
    BY DEF TypeOK
  <1>2. CASE c \notin Deployments /\ UNCHANGED <<failures, stable>>
    BY <1>1, <1>2
  <1>3. CASE failures < MaxFailures /\ failures' = failures + 1 /\ stable' = FALSE
    <2>1. failures' \in 0..MaxFailures
      BY <1>1, <1>3, HealthAssumption
    <2>. QED
      BY <1>3, <2>1
  <1>. QED
    BY <1>2, <1>3 DEF FoundUndeployed

------------------------------------------------------------------------------
(* Initial states and steps. *)

\* Before the first request.
LEMMA InitInv == Init => IInv
  <1>. SUFFICES ASSUME Init PROVE IInv
    OBVIOUS
  <1>. USE DEF Init
  <1>1. TypeOK
    BY ClusterAssumption, HealthAssumption, VerdictsDiffer DEF TypeOK, ClusterTypeOK
  <1>2. Product /\ Status /\ Optionals /\ Quiet
    BY OptionalLabels, VerdictsDiffer DEF Product, Status, Optionals, Quiet, Asked, LoopIsOver
  <1>. QED
    BY <1>1, <1>2 DEF IInv

\* A request starts the loop with nothing seen.
LEMMA RequestInv ==
    ASSUME IInv, HealthRequest
    PROVE  IInv'
  <1>. USE DEF HealthRequest
  <1>1. TypeOK'
    BY ViewsStay, VerdictsDiffer DEF IInv, TypeOK
  <1>2. /\ step' = "loop" /\ product' = Up /\ status' = "down" /\ todo' = Required
        /\ \A c \in Labels : seen'[c] = NotSeen
    OBVIOUS
  <1>3. Product' /\ Status' /\ Optionals' /\ Quiet'
    BY <1>2, OptionalLabels, VerdictsDiffer
    DEF Product, Status, Optionals, Quiet, Asked, LoopIsOver
  <1>. QED
    BY <1>1, <1>3 DEF IInv

\* The worker label is skipped.
LEMMA SkipWorkerInv ==
    ASSUME IInv, SkipWorker
    PROVE  IInv'
  <1>1. /\ step = "loop" /\ step' = "loop" /\ Worker \in todo /\ todo' = todo \ {Worker}
        /\ UNCHANGED <<clusterVars, product, status, seen>>
        /\ FoundUndeployed(Worker)
    BY DEF SkipWorker
  <1>2. /\ failures' \in 0..MaxFailures /\ stable' \in BOOLEAN
        /\ stable' => stable /\ Worker \notin Deployments
    BY <1>1, SkippedCases DEF IInv
  <1>3. TypeOK' /\ Views' = Views
    BY <1>1, <1>2, ViewsStay DEF IInv, TypeOK
  <1>4. Product' /\ Status' /\ Optionals'
    BY <1>1 DEF IInv, Product, Status, Optionals, Asked, LoopIsOver
  <1>5. Quiet'
    BY <1>1, <1>2, <1>3 DEF IInv, Quiet, Asked
  <1>. QED
    BY <1>3, <1>4, <1>5 DEF IInv

\* The loop has visited everything.
LEMMA LoopEndsInv ==
    ASSUME IInv, LoopEnds
    PROVE  IInv'
  <1>1. /\ step = "loop" /\ step' = "flower" /\ todo = {}
        /\ status' = IF product = Up THEN "up" ELSE status
        /\ UNCHANGED <<clusterVars, todo, product, failures, seen, stable>>
    BY DEF LoopEnds
  <1>2. TypeOK' /\ Views' = Views
    BY <1>1, ViewsStay DEF IInv, TypeOK
  <1>3. Product' /\ Quiet'
    BY <1>1, <1>2 DEF IInv, Product, Quiet, Asked
  <1>4. Status'
    BY <1>1, VerdictsDiffer DEF IInv, Status, LoopIsOver
  <1>5. Optionals'
    BY <1>1, OptionalLabels DEF IInv, Optionals, LoopIsOver
  <1>. QED
    BY <1>2, <1>3, <1>4, <1>5 DEF IInv

\* The loop visits a component, and stops at the first one that is down or
\* degraded.
LEMMA CheckComponentInv ==
    ASSUME IInv, NEW c \in Required, CheckComponent(c)
    PROVE  IInv'
  <1>1. PICK v \in Verdicts :
          /\ Verdict(c, v)
          /\ seen' = [seen EXCEPT ![c] = v]
          /\ product' = Times(product, v)
          /\ status' = CASE v = Down     -> "down"
                         [] v = Degraded -> "degraded"
                         [] OTHER        -> status
    BY DEF CheckComponent
  <1>2. /\ step = "loop" /\ c \in todo /\ todo' = todo \ {c}
        /\ c = Worker => Worker \in Deployments
        /\ step' = IF product' \in {Down, Degraded} THEN "flower" ELSE "loop"
        /\ UNCHANGED clusterVars
    BY DEF CheckComponent
  <1>3. /\ failures' \in 0..MaxFailures /\ stable' \in BOOLEAN
        /\ stable' => stable /\ v = Views[c]
    BY <1>1, OptionalLabels, VerdictCases DEF IInv
  <1>4. /\ seen' \in [Labels -> Verdicts \cup {NotSeen}]
        /\ seen'[c] = v /\ \A d \in Labels \ {c} : seen'[d] = seen[d]
    BY <1>1, OptionalLabels DEF IInv, TypeOK
  <1>5. product \in {Up, Unknown} /\ status = "down"
    BY <1>2 DEF IInv, Status
  <1>6. /\ product' \in Verdicts
        /\ v \in {Down, Degraded} => product' = v
        /\ v = Up => product' = product
        /\ v = Unknown => product' = Unknown
    BY <1>1, <1>5, VerdictsDiffer DEF Times, Verdicts
  <1>7. status' = IF v = Degraded THEN "degraded" ELSE "down"
    BY <1>1, <1>5, VerdictsDiffer
  <1>8. TypeOK' /\ Views' = Views
    BY <1>2, <1>3, <1>4, <1>6, <1>7, ViewsStay DEF IInv, TypeOK
  <1>9. v \in {Up, Down, Degraded, Unknown}
    BY DEF Verdicts
  <1>10. Product'
    <2>1. /\ \A d \in todo' : seen'[d] = NotSeen
          /\ \A d \in Labels : seen'[d] # NotSeen => d \in Checked
      BY <1>2, <1>4, OptionalLabels DEF IInv, Product, TypeOK, Checked
    <2>2. product' # Up => \E d \in Required : seen'[d] = product'
      <3>1. CASE v = Up
        <4>. SUFFICES ASSUME product # Up PROVE \E d \in Required : seen'[d] = product
          BY <1>6, <3>1
        <4>1. PICK d \in Required : seen[d] = product
          BY DEF IInv, Product
        <4>2. seen[c] = NotSeen /\ product # NotSeen
          BY <1>2, <1>5, VerdictsDiffer DEF IInv, Product, Verdicts
        <4>. QED
          BY <1>4, <4>1, <4>2, OptionalLabels
      <3>2. CASE v # Up
        BY <1>4, <1>6, <1>9, <3>2
      <3>. QED
        BY <3>1, <3>2
    <2>3. product' = Up => product = Up /\ v = Up
      BY <1>5, <1>6, <1>9, VerdictsDiffer
    <2>4. product' = Up => \A d \in Required : seen'[d] \in {Up, NotSeen}
      BY <1>4, <2>3, OptionalLabels DEF IInv, Product
    <2>5. Asked' /\ product' = Up => \A d \in Required \ (todo' \cup {Worker}) : seen'[d] = Up
      BY <1>2, <1>4, <2>3, OptionalLabels DEF IInv, Product, Asked
    <2>. QED
      BY <2>1, <2>2, <2>4, <2>5 DEF Product
  <1>11. Status'
    BY <1>2, <1>5, <1>6, <1>7, <1>9, VerdictsDiffer DEF Status, LoopIsOver
  <1>12. Optionals'
    <2>1. seen'["flower"] = NotSeen /\ seen'["statsd"] = NotSeen
      BY <1>2, <1>4, OptionalLabels DEF IInv, Optionals
    <2>2. LoopIsOver' => product' # Up
      BY <1>2, VerdictsDiffer DEF LoopIsOver
    <2>. QED
      BY <1>2, <2>1, <2>2 DEF Optionals
  <1>13. Quiet'
    <2>1. step' \in {"loop", "flower"} /\ v # NotSeen
      BY <1>2, VerdictsDiffer
    <2>. SUFFICES ASSUME stable'
                  PROVE  /\ \A d \in Labels : seen'[d] # NotSeen => seen'[d] = Views'[d]
                         /\ Worker \in (Required \cap Deployments) \ todo'
                              => seen'[Worker] # NotSeen
      BY <2>1 DEF Quiet
    <2>2. stable /\ Asked /\ v = Views[c]
      BY <1>2, <1>3 DEF Asked
    <2>3. \A d \in Labels : seen'[d] # NotSeen => seen'[d] = Views'[d]
      BY <1>4, <1>8, <2>2 DEF IInv, Quiet
    <2>4. Worker \in (Required \cap Deployments) \ todo' => seen'[Worker] # NotSeen
      BY <1>2, <1>4, <2>1, <2>2, OptionalLabels DEF IInv, Quiet
    <2>. QED
      BY <2>3, <2>4
  <1>. QED
    BY <1>8, <1>10, <1>11, <1>12, <1>13 DEF IInv

\* An optional component is skipped or looked at; only one that is not up
\* turns up into degraded.
LEMMA OptionalInv ==
    ASSUME IInv, NEW c \in Optional, SkipOptional(c) \/ CheckOptional(c)
    PROVE  IInv'
  <1>1. c \in {"flower", "statsd"} /\ c \in Labels \ Required
    BY OptionalLabels
  <1>2. /\ step = c /\ step' = Following(c)
        /\ UNCHANGED <<clusterVars, todo, product>>
    BY DEF SkipOptional, CheckOptional
  <1>3. /\ c = "flower" => step' = "statsd"
        /\ c = "statsd" => step' = "answered"
        /\ LoopIsOver /\ LoopIsOver' /\ Asked /\ Asked'
    BY <1>1, <1>2 DEF Following, LoopIsOver, Asked
  <1>4. seen[c] = NotSeen /\ (c = "flower" => seen["statsd"] = NotSeen)
    BY <1>1, <1>2 DEF IInv, Optionals
  <1>5. CASE SkipOptional(c)
    <2>1. FoundUndeployed(c) /\ UNCHANGED <<status, seen>>
      BY <1>5 DEF SkipOptional
    <2>2. /\ failures' \in 0..MaxFailures /\ stable' \in BOOLEAN
          /\ stable' => stable /\ c \notin Deployments
      BY <2>1, SkippedCases DEF IInv
    <2>3. step' \in {"statsd", "answered"}
      BY <1>1, <1>3
    <2>4. TypeOK' /\ Views' = Views
      BY <1>2, <2>1, <2>2, <2>3, ViewsStay DEF IInv, TypeOK
    <2>5. Product'
      BY <1>2, <1>3, <2>1 DEF IInv, Product
    <2>6. Status'
      BY <1>2, <1>3, <2>1, <2>3 DEF IInv, Status
    <2>7. Optionals'
      BY <1>1, <1>2, <1>3, <1>4, <2>1 DEF IInv, Optionals
    <2>8. Quiet'
      BY <1>1, <1>2, <1>3, <2>1, <2>2, <2>4 DEF IInv, Quiet
    <2>. QED
      BY <2>4, <2>5, <2>6, <2>7, <2>8 DEF IInv
  <1>6. CASE CheckOptional(c)
    <2>1. PICK v \in Verdicts :
            /\ Verdict(c, v)
            /\ seen' = [seen EXCEPT ![c] = v]
            /\ status' = IF product = Up /\ v # Up THEN "degraded" ELSE status
      BY <1>6 DEF CheckOptional
    <2>2. /\ failures' \in 0..MaxFailures /\ stable' \in BOOLEAN
          /\ stable' => stable /\ v = Views[c]
      BY <1>1, <2>1, VerdictCases DEF IInv
    <2>3. /\ seen' \in [Labels -> Verdicts \cup {NotSeen}]
          /\ seen'[c] = v /\ \A d \in Labels \ {c} : seen'[d] = seen[d]
      BY <1>1, <2>1 DEF IInv, TypeOK
    <2>4. /\ step' \in {"statsd", "answered"} /\ v # NotSeen
          /\ status' \in {"up", "down", "degraded"}
      BY <1>1, <1>3, <2>1, VerdictsDiffer DEF IInv, TypeOK
    <2>5. TypeOK' /\ Views' = Views
      BY <1>2, <2>2, <2>3, <2>4, ViewsStay DEF IInv, TypeOK
    <2>6. \A d \in Required : seen'[d] = seen[d]
      BY <1>1, <2>3, OptionalLabels
    <2>7. Product'
      <3>1. c \in Checked
        BY <1>1, <1>6 DEF CheckOptional, Checked
      <3>2. \A d \in Labels : seen'[d] # NotSeen => d \in Checked
        BY <2>3, <3>1 DEF IInv, Product
      <3>. QED
        BY <1>2, <1>3, <2>6, <3>2 DEF IInv, Product, TypeOK
    <2>8. Status'
      <3>1. product = Up => todo' = {} /\ status' \in {"up", "degraded"}
        BY <1>2, <1>3, <2>1 DEF IInv, Status
      <3>2. product # Up => status' = status
        BY <2>1
      <3>. QED
        BY <1>2, <1>3, <2>4, <3>1, <3>2, VerdictsDiffer DEF IInv, Status
    <2>9. Optionals'
      <3>1. c = "flower" => seen'["statsd"] = NotSeen
        BY <1>1, <1>4, <2>3, OptionalLabels
      <3>2. ASSUME product = Up
            PROVE  status' = "up" <=> \A d \in Optional : seen'[d] \in {Up, NotSeen}
        <4>1. status = "up" <=> \A d \in Optional : seen[d] \in {Up, NotSeen}
          BY <1>3, <3>2 DEF IInv, Optionals
        <4>2. \A d \in Optional \ {c} : seen'[d] = seen[d]
          BY <2>3, OptionalLabels
        <4>3. CASE v = Up
          BY <1>4, <2>1, <2>3, <4>1, <4>2, <4>3
        <4>4. CASE v # Up
          BY <2>1, <2>3, <2>4, <3>2, <4>4
        <4>. QED
          BY <4>3, <4>4
      <3>. QED
        BY <1>1, <1>2, <1>3, <2>4, <3>1, <3>2 DEF Optionals
    <2>10. Quiet'
      <3>. SUFFICES ASSUME stable'
                    PROVE  /\ \A d \in Labels : seen'[d] # NotSeen => seen'[d] = Views'[d]
                           /\ Worker \in (Required \cap Deployments) \ todo'
                                => seen'[Worker] # NotSeen
                           /\ seen["flower"] # NotSeen \/ c = "flower" \/ "flower" \notin Deployments
                           /\ step' = "answered" /\ "statsd" \in Deployments
                                => seen'["statsd"] # NotSeen
        BY <1>1, <2>3, <2>4, OptionalLabels DEF Quiet
      <3>1. stable /\ v = Views[c]
        BY <2>2
      <3>2. \A d \in Labels : seen'[d] # NotSeen => seen'[d] = Views'[d]
        BY <1>3, <2>3, <2>5, <3>1 DEF IInv, Quiet
      <3>3. Worker \in (Required \cap Deployments) \ todo' => seen'[Worker] # NotSeen
        BY <1>2, <1>3, <2>6, <3>1 DEF IInv, Quiet
      <3>4. seen["flower"] # NotSeen \/ c = "flower" \/ "flower" \notin Deployments
        BY <1>1, <1>2, <1>3, <3>1 DEF IInv, Quiet
      <3>5. step' = "answered" => c = "statsd"
        BY <1>1, <1>3
      <3>. QED
        BY <2>3, <2>4, <3>2, <3>3, <3>4, <3>5
    <2>. QED
      BY <2>5, <2>7, <2>8, <2>9, <2>10 DEF IInv
  <1>. QED
    BY <1>5, <1>6

\* The cluster changes between two reads.
LEMMA ClusterMovesInv ==
    ASSUME IInv, ClusterMoves
    PROVE  IInv'
  <1>1. /\ ClusterNext /\ stable' = FALSE
        /\ UNCHANGED <<step, todo, product, status, failures, seen>>
    BY DEF ClusterMoves
  <1>2. TypeOK'
    BY <1>1, ClusterTypes DEF IInv, TypeOK
  <1>3. Product' /\ Status' /\ Optionals' /\ Quiet'
    BY <1>1 DEF IInv, Product, Status, Optionals, Quiet, Asked, LoopIsOver
  <1>. QED
    BY <1>2, <1>3 DEF IInv

\* Every step keeps the invariant.
LEMMA StepInv == IInv /\ [Next]_vars => IInv'
  <1>. SUFFICES ASSUME IInv, [Next]_vars PROVE IInv'
    OBVIOUS
  <1>1. CASE UNCHANGED vars
    <2>1. UNCHANGED <<clusterVars, step, todo, product, status, failures, seen, stable>>
      BY <1>1 DEF vars, handlerVars
    <2>2. TypeOK' /\ Views' = Views
      BY <2>1, ViewsStay DEF IInv, TypeOK
    <2>. QED
      BY <2>1, <2>2 DEF IInv, Product, Status, Optionals, Quiet, Asked, LoopIsOver
  <1>. QED
    BY <1>1, RequestInv, SkipWorkerInv, LoopEndsInv, CheckComponentInv, OptionalInv,
       ClusterMovesInv DEF Next

------------------------------------------------------------------------------
(* The theorems. *)

\* The inductive invariant holds in every reachable state: what product and
\* status say about the components the handler has looked at.
THEOREM Invariance == Spec => []IInv
  <1>. QED
    BY InitInv, StepInv, PTL DEF Spec

\* The handler and the cluster never leave their types; the loop only ever
\* multiplies up or unknown.
THEOREM TypeInvariance == Spec => []TypeOK
  <1>1. IInv => TypeOK
    BY DEF IInv
  <1>. QED
    BY <1>1, Invariance, PTL

\* Whatever fails or changes in between, up means that every component the
\* handler looked at was up, and it looked at the required ones.
THEOREM UpEarned == Spec => []UpIsEarned
  <1>1. IInv => UpIsEarned
    <2>. SUFFICES ASSUME IInv, step = "answered", status = "up"
                  PROVE  /\ \A c \in Labels : seen[c] \in {Up, NotSeen}
                         /\ \A c \in Required \ {Worker} : seen[c] = Up
      BY DEF UpIsEarned
    <2>1. LoopIsOver /\ Asked
      BY DEF LoopIsOver, Asked
    <2>2. product = Up /\ todo = {}
      BY <2>1, VerdictsDiffer DEF IInv, Status, TypeOK, Verdicts
    <2>3. \A c \in Required : seen[c] \in {Up, NotSeen}
      BY <2>2 DEF IInv, Product
    <2>4. \A c \in Optional : seen[c] \in {Up, NotSeen}
      BY <2>1, <2>2 DEF IInv, Optionals
    <2>5. Labels = Required \cup Optional
      BY HealthAssumption DEF Required
    <2>. QED
      BY <2>1, <2>2, <2>3, <2>4, <2>5 DEF IInv, Product
  <1>. QED
    BY <1>1, Invariance, PTL

\* A required component the handler looked at is the reason for down.
THEOREM DownIsCaused == Spec => []DownHasRequiredCause
  <1>1. IInv => DownHasRequiredCause
    <2>. SUFFICES ASSUME IInv, step = "answered", status = "down"
                  PROVE  \E c \in Required : seen[c] \in {Down, Unknown}
      BY DEF DownHasRequiredCause
    <2>1. LoopIsOver
      BY DEF LoopIsOver
    <2>2. product \in {Down, Unknown}
      BY <2>1, VerdictsDiffer DEF IInv, Status, TypeOK, Verdicts
    <2>. QED
      BY <2>2, VerdictsDiffer DEF IInv, Product
  <1>. QED
    BY <1>1, Invariance, PTL

\* With the named exceptions the answer is the documented health, for any set of
\* components and any order of the map.
THEOREM PlainAnswers == Spec => []AnswersAsDocumentedIfPlain
  <1>1. IInv => AnswersAsDocumentedIfPlain
    <2>. SUFFICES ASSUME IInv, step = "answered", stable, workers = {},
                         \A c \in Checked : ~Has(c, Unknown),
                         \A c, d \in Checked \cap Required : ~(Has(c, Down) /\ Has(d, Degraded))
                  PROVE  status = DocumentedHealth
      BY DEF AnswersAsDocumentedIfPlain
    <2>1. LoopIsOver /\ Asked
      BY DEF LoopIsOver, Asked
    <2>2. Checked \subseteq Labels
      BY OptionalLabels DEF Checked
    <2>3. \A c \in Labels, v \in Verdicts : Has(c, v) <=> Views[c] = v
      <3>1. Cardinality(workers) = 0
        BY FS_EmptySet
      <3>2. \A c \in Labels : OwnPods(c) \in Nat
        BY ClusterAssumption DEF IInv, TypeOK, ClusterTypeOK, OwnPods
      <3>3. \A c \in Labels : ReadyPods(c) = OwnPods(c)
        BY <3>1, <3>2 DEF ReadyPods
      <3>. QED
        BY <3>3 DEF Has, Views
    <2>4. \A c \in Labels : seen[c] # NotSeen => \A v \in Verdicts : Has(c, v) <=> seen[c] = v
      BY <2>1, <2>3 DEF IInv, Quiet
    <2>5. \A c \in Labels : seen[c] # NotSeen => c \in Checked
      BY DEF IInv, Product
    <2>6. /\ Up \in Verdicts /\ Down \in Verdicts /\ Degraded \in Verdicts /\ Unknown \in Verdicts
          /\ Verdicts = {Up, Down, Degraded, Unknown}
      BY DEF Verdicts
    <2>7. product # Up => \E c \in Checked \cap Required : Has(c, product)
      <3>. SUFFICES ASSUME product # Up PROVE \E c \in Checked \cap Required : Has(c, product)
        OBVIOUS
      <3>1. PICK c \in Required : seen[c] = product
        BY DEF IInv, Product
      <3>2. product \in Verdicts /\ product # NotSeen
        BY VerdictsDiffer DEF IInv, TypeOK
      <3>. QED
        BY <2>4, <2>5, <3>1, <3>2, OptionalLabels
    <2>8. CASE product = Unknown
      BY <2>7, <2>8, VerdictsDiffer
    <2>9. CASE product = Down
      <3>1. status = "down"
        BY <2>1, <2>9 DEF IInv, Status
      <3>. QED
        BY <2>7, <2>9, <3>1, VerdictsDiffer DEF DocumentedHealth
    <2>10. CASE product = Degraded
      <3>1. status = "degraded"
        BY <2>1, <2>10 DEF IInv, Status
      <3>2. PICK c \in Checked \cap Required : Has(c, Degraded)
        BY <2>7, <2>10, VerdictsDiffer
      <3>3. ~\E d \in Checked \cap Required : Has(d, Down)
        BY <3>2
      <3>. QED
        BY <3>1, <3>2, <3>3 DEF DocumentedHealth
    <2>11. CASE product = Up
      <3>1. todo = {} /\ status \in {"up", "degraded"}
        BY <2>1, <2>11 DEF IInv, Status
      <3>2. \A c \in Checked \cap Required : seen[c] = Up
        <4>1. \A c \in Required : seen[c] \in {Up, NotSeen}
          BY <2>11 DEF IInv, Product
        <4>2. \A c \in Required \ {Worker} : seen[c] = Up
          BY <2>1, <2>11, <3>1 DEF IInv, Product
        <4>3. Worker \in Checked \cap Required => seen[Worker] # NotSeen
          BY <2>1, <3>1 DEF IInv, Quiet, Checked
        <4>. QED
          BY <4>1, <4>2, <4>3
      <3>3. \A c \in Checked \cap Required : ~Has(c, Down) /\ ~Has(c, Degraded)
        BY <2>2, <2>4, <2>6, <3>2, VerdictsDiffer
      <3>4. \A c \in Checked \ Required : c \in Optional /\ seen[c] # NotSeen
        BY <2>1, <2>2, OptionalLabels, HealthAssumption DEF IInv, Quiet, Checked, Required
      <3>5. \A c \in Optional : seen[c] # NotSeen => Has(c, seen[c]) /\ seen[c] \in Verdicts
        BY <2>4, OptionalLabels DEF IInv, TypeOK
      <3>6. status = "up" <=> \A c \in Optional : seen[c] \in {Up, NotSeen}
        BY <2>1, <2>11 DEF IInv, Optionals
      <3>7. CASE status = "up"
        <4>1. \A c \in Checked : ~Has(c, Down) /\ ~Has(c, Degraded)
          BY <2>2, <2>4, <2>6, <3>3, <3>4, <3>6, <3>7, VerdictsDiffer
        <4>. QED
          BY <3>7, <4>1 DEF DocumentedHealth
      <3>8. CASE status = "degraded"
        <4>1. PICK c \in Optional : seen[c] \notin {Up, NotSeen}
          BY <3>6, <3>8
        <4>2. c \in Checked
          BY <4>1, OptionalLabels DEF IInv, Product
        <4>3. Has(c, Down) \/ Has(c, Degraded)
          BY <2>6, <3>5, <4>1, <4>2
        <4>. QED
          BY <3>3, <3>8, <4>2, <4>3 DEF DocumentedHealth
      <3>. QED
        BY <3>1, <3>7, <3>8
    <2>. QED
      BY <2>6, <2>8, <2>9, <2>10, <2>11 DEF IInv, TypeOK
  <1>. QED
    BY <1>1, Invariance, PTL

==============================================================================
