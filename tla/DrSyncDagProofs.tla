---------------------------- MODULE DrSyncDagProofs ----------------------------
(***************************************************************************)
(* Proofs about DrSyncDag, for any folders, runs and failures.             *)
(***************************************************************************)
EXTENDS DrSyncDag, SequenceTheorems, FiniteSetTheorems, TLAPS

------------------------------------------------------------------------------
(* The inductive invariant. *)

\* The tasks of a folder's chain of upstream tasks.
Chain(f) == {PreTask, StopHive, DoKinit} \cup ({"verify", "initialize", "update"} \X {f})

\* What the trigger rules and the branches make of the states of the tasks.
Graph ==
    /\ \A t \in Tasks : state[t] = "skipped" => t \in {"initialize", "update"} \X Folders
    /\ \A f \in Folders : state[<<"verify", f>>] \in {"none", "running"} =>
        state[<<"initialize", f>>] = "none" /\ state[<<"update", f>>] = "none"
    /\ \A f \in Folders : \A t \in Chain(f) \cup {<<"post_update", f>>} :
        state[t] = "upstream_failed" => \E u \in Chain(f) : state[u] = "failed"
    /\ state[CopyHive] \in {"running", "success"} => state[StopHive] = "success"
    /\ state[StartHive] \in {"running", "success"} =>
        /\ state[CopyHive] = "success"
        /\ \A f \in Folders : state[<<"post_update", f>>] = "success"

\* How the tasks of Hive go with what they asked of Ambari.
Requests ==
    /\ state[StopHive] = "none" => request[StopHive] = "none"
    /\ request[StartHive] # "none" =>
        /\ state[CopyHive] = "success" /\ state[StopHive] = "success"
        /\ state[StartHive] \in {"running", "success", "failed"}
    /\ \A t \in HiveTasks : runs > 0 /\ state[t] = "success" => request[t] = "COMPLETED"

\* What is in Ambari's queue: at most one request of this run, the last one.
Queued ==
    /\ \A i \in 1..Len(queue) : queue[i].run <= runs
    /\ request[StopHive] = "none" => \A i \in 1..Len(queue) : queue[i].run < runs
    /\ request[StopHive] = "pending" =>
        /\ Len(queue) > 0
        /\ queue[Len(queue)] = [target |-> "INSTALLED", run |-> runs]
        /\ \A i \in 1..(Len(queue) - 1) : queue[i].run < runs
    /\ request[StopHive] \in {"COMPLETED", "FAILED"} /\ request[StartHive] # "pending" =>
        Len(queue) = 0
    /\ request[StartHive] = "pending" =>
        Len(queue) = 1 /\ queue[1] = [target |-> "STARTED", run |-> runs]

\* The service follows the request that completed last.
Service ==
    /\ request[StartHive] = "COMPLETED" => hive = "STARTED"
    /\ request[StopHive] = "COMPLETED" /\ state[CopyHive] \in {"none", "running"} =>
        hive = "INSTALLED"

\* Before the first run both sites are as they were installed.
BeforeFirst ==
    runs = 0 =>
        /\ \A t \in Tasks : state[t] = "success"
        /\ Len(queue) = 0 /\ hive = "STARTED"
        /\ \A t \in HiveTasks : request[t] = "none"
        /\ \A t \in CopyTasks : database[t].kind = "full"

\* What the copy tasks leave.
Copies ==
    /\ state[CopyHive] = "success" =>
        database[CopyHive].kind \in {"full", "part"} /\ database[CopyHive].version = runs
    /\ AirflowCopyAllOrNothing

IInv == TypeOK /\ Graph /\ Requests /\ Queued /\ Service /\ BeforeFirst /\ Copies

------------------------------------------------------------------------------
(* The tasks and their wiring. *)

\* The names of the single tasks are different.
LEMMA Distinct ==
    /\ PreTask # StopHive /\ PreTask # DoKinit /\ PreTask # CopyHive /\ PreTask # CopyAirflow
    /\ PreTask # StartHive /\ StopHive # DoKinit /\ StopHive # CopyHive /\ StopHive # CopyAirflow
    /\ StopHive # StartHive /\ DoKinit # CopyHive /\ DoKinit # CopyAirflow /\ DoKinit # StartHive
    /\ CopyHive # CopyAirflow /\ CopyHive # StartHive /\ CopyAirflow # StartHive
BY DEF Once, PreTask, StopHive, DoKinit, CopyHive, CopyAirflow, StartHive

\* A single task is not a task of a folder, and the tasks of folders are told
\* apart by name and folder.
LEMMA Apart ==
    ASSUME NEW name, NEW f
    PROVE  /\ <<name, f>> \notin {PreTask, StopHive, DoKinit, CopyHive, CopyAirflow, StartHive}
           /\ \A other, g : <<name, f>> = <<other, g>> <=> name = other /\ f = g
<1>1. Len(<<name, f>>) = 2
    OBVIOUS
<1>2. \A n \in {PreTask, StopHive, DoKinit, CopyHive, CopyAirflow, StartHive} : Len(n) = 1
    BY DEF Once, PreTask, StopHive, DoKinit, CopyHive, CopyAirflow, StartHive
<1> QED
    BY <1>1, <1>2

\* All of them are tasks.
LEMMA AreTasks ==
    /\ {PreTask, StopHive, DoKinit, CopyHive, CopyAirflow, StartHive} \subseteq Tasks
    /\ HiveTasks \subseteq Tasks /\ CopyTasks \subseteq Tasks
    /\ \A f \in Folders :
        /\ {<<"verify", f>>, <<"initialize", f>>, <<"update", f>>, <<"post_update", f>>} \subseteq Tasks
        /\ Chain(f) \subseteq Tasks
BY DEF Tasks, HiveTasks, CopyTasks, Chain

\* The pairs of the wiring one by one.
LEMMA Edges ==
    ASSUME NEW u, NEW t
    PROVE  <<u, t>> \in Wiring <=>
        \/ u = PreTask /\ t = StopHive
        \/ u = StopHive /\ t = DoKinit
        \/ u = StopHive /\ t = CopyHive
        \/ u = CopyHive /\ t = StartHive
        \/ \E f \in Folders :
            \/ u = DoKinit /\ t = <<"verify", f>>
            \/ u = <<"verify", f>> /\ t \in {<<"initialize", f>>, <<"update", f>>}
            \/ u \in {<<"initialize", f>>, <<"update", f>>} /\ t = <<"post_update", f>>
            \/ u = <<"post_update", f>> /\ t = StartHive
BY DEF Wiring, FolderWiring, HiveWiring

\* Upstream is the wiring read backwards.
LEMMA UpstreamEdge ==
    ASSUME NEW u, NEW t
    PROVE u \in Upstream(t) <=> <<u, t>> \in Wiring
<1>1. \A e \in Wiring : e = <<e[1], e[2]>>
    BY DEF Wiring, FolderWiring, HiveWiring
<1> QED
    BY <1>1 DEF Upstream

\* The upstream tasks the invariant is about.
LEMMA UpstreamFacts ==
    /\ StopHive \in Upstream(CopyHive)
    /\ CopyHive \in Upstream(StartHive)
    /\ \A f \in Folders :
        /\ <<"post_update", f>> \in Upstream(StartHive)
        /\ <<"verify", f>> \in Upstream(<<"initialize", f>>)
        /\ <<"verify", f>> \in Upstream(<<"update", f>>)
BY Edges, UpstreamEdge

\* What is upstream of a folder's tasks is upstream of this folder alone.
LEMMA UpstreamOfFolder ==
    ASSUME NEW f \in Folders, NEW t \in Chain(f) \cup {<<"post_update", f>>}
    PROVE  /\ Upstream(t) \subseteq Chain(f)
           /\ t \in {<<"initialize", f>>, <<"update", f>>} => Upstream(t) = {<<"verify", f>>}
<1> SUFFICES ASSUME NEW u, <<u, t>> \in Wiring
             PROVE  /\ u \in Chain(f)
                    /\ t \in {<<"initialize", f>>, <<"update", f>>} => u = <<"verify", f>>
    BY UpstreamEdge, UpstreamFacts
<1>1. t \in {PreTask, StopHive, DoKinit, <<"verify", f>>, <<"initialize", f>>, <<"update", f>>,
             <<"post_update", f>>}
    BY DEF Chain
<1>2. {PreTask, StopHive, DoKinit, <<"verify", f>>, <<"initialize", f>>, <<"update", f>>} = Chain(f)
    BY DEF Chain
<1>3. CASE t \in {PreTask, StopHive, DoKinit}
    BY <1>2, <1>3, Distinct, Apart, Edges
<1>4. CASE t = <<"verify", f>>
    BY <1>2, <1>4, Apart, Edges
<1>5. CASE t \in {<<"initialize", f>>, <<"update", f>>}
    BY <1>2, <1>5, Apart, Edges
<1>6. CASE t = <<"post_update", f>>
    BY <1>2, <1>6, Apart, Edges
<1> QED
    BY <1>1, <1>3, <1>4, <1>5, <1>6

------------------------------------------------------------------------------
(* Steps of a single task. *)

\* What the scheduler and the end of a task do to the state of one task.
Moves(t, x) ==
    /\ state' = [state EXCEPT ![t] = x]
    /\ \/ state[t] = "none" /\ x = "running" /\ CanRun(t)
       \/ /\ state[t] = "none" /\ x = "upstream_failed"
          /\ \E u \in Upstream(t) : state[u] \in {"failed", "upstream_failed"}
       \/ state[t] = "running" /\ x \in {"success", "failed"}

\* No such step disturbs the relations between the states of the tasks.
LEMMA GraphMove ==
    ASSUME TypeOK, Graph, NEW t \in Tasks, NEW x, Moves(t, x)
    PROVE  Graph'
<1>1. state \in [Tasks -> Final \cup {"none", "running"}]
    BY DEF TypeOK
<1>2. /\ state'[t] = x /\ x \notin {"none", "skipped"}
      /\ state[t] \in {"none", "running"}
      /\ \A u \in Tasks : u # t => state'[u] = state[u]
    BY <1>1 DEF Moves
<1>3. \A u \in Tasks : state'[u] = "skipped" => u \in {"initialize", "update"} \X Folders
    BY <1>2 DEF Graph
<1>4. ASSUME NEW f \in Folders, state'[<<"verify", f>>] \in {"none", "running"},
             NEW name \in {"initialize", "update"}
      PROVE  state'[<<name, f>>] = "none"
  <2>1. /\ <<name, f>> \in Tasks /\ <<"verify", f>> \in Tasks
        /\ <<name, f>> # <<"verify", f>> /\ <<name, f>> \notin MinOneSuccess
        /\ <<"verify", f>> \in Upstream(<<name, f>>)
      BY AreTasks, Apart, UpstreamFacts DEF MinOneSuccess
  <2>2. state[<<name, f>>] = "none" /\ state[<<"verify", f>>] \in {"none", "running"}
      BY <1>2, <1>4, <2>1 DEF Graph
  <2>3. Upstream(<<name, f>>) = {<<"verify", f>>}
      BY UpstreamOfFolder DEF Chain
  <2>4. t # <<name, f>>
      BY <2>1, <2>2, <2>3 DEF Moves, CanRun
  <2> QED
      BY <1>2, <2>1, <2>2, <2>4
<1>5. ASSUME NEW f \in Folders, NEW u \in Chain(f) \cup {<<"post_update", f>>},
             state'[u] = "upstream_failed"
      PROVE  \E v \in Chain(f) : state'[v] = "failed"
  <2>1. u \in Tasks /\ Chain(f) \subseteq Tasks
      BY AreTasks
  <2>2. SUFFICES \E v \in Chain(f) : state[v] = "failed"
      BY <1>2, <2>1
  <2>3. CASE u # t
      BY <1>2, <1>5, <2>1, <2>3 DEF Graph
  <2>4. CASE u = t
    <3>1. PICK w \in Upstream(u) : state[w] \in {"failed", "upstream_failed"}
        BY <1>2, <1>5, <2>4 DEF Moves
    <3>2. w \in Chain(f)
        BY <3>1, UpstreamOfFolder
    <3> QED
        BY <3>1, <3>2 DEF Graph
  <2> QED
      BY <2>3, <2>4
<1>6. state'[CopyHive] \in {"running", "success"} => state'[StopHive] = "success"
  <2>1. /\ CopyHive \in Tasks /\ StopHive \in Tasks /\ StopHive \in Upstream(CopyHive)
        /\ CopyHive \notin MinOneSuccess
      BY AreTasks, UpstreamFacts, Distinct, Apart DEF MinOneSuccess
  <2>2. CASE t = CopyHive
      BY <1>2, <2>1, <2>2, Distinct DEF Moves, CanRun, Graph
  <2>3. CASE t # CopyHive
      BY <1>2, <2>1, <2>3 DEF Graph
  <2> QED
      BY <2>2, <2>3
<1>7. state'[StartHive] \in {"running", "success"} =>
        /\ state'[CopyHive] = "success"
        /\ \A f \in Folders : state'[<<"post_update", f>>] = "success"
  <2>1. /\ StartHive \in Tasks /\ CopyHive \in Tasks /\ CopyHive # StartHive
        /\ StartHive \in MinOneSuccess /\ CopyHive \in Upstream(StartHive)
        /\ \A f \in Folders : /\ <<"post_update", f>> \in Tasks \cap Upstream(StartHive)
                              /\ <<"post_update", f>> # StartHive
      BY AreTasks, UpstreamFacts, Distinct, Apart DEF MinOneSuccess
  <2>2. /\ state[CopyHive] # "skipped"
        /\ \A f \in Folders : state[<<"post_update", f>>] # "skipped"
      BY <2>1, Apart DEF Graph
  <2>3. CASE t = StartHive
      BY <1>2, <2>1, <2>2, <2>3 DEF Moves, CanRun, Graph
  <2>4. CASE t # StartHive
      BY <1>2, <2>1, <2>4 DEF Graph
  <2> QED
      BY <2>3, <2>4
<1> QED
    BY <1>3, <1>4, <1>5, <1>6, <1>7 DEF Graph

\* A task that has not ended belongs to a run.
LEMMA InARun ==
    ASSUME IInv, NEW t \in Tasks, state[t] \in {"none", "running"}
    PROVE  runs \in Nat /\ runs > 0
BY DagAssumption DEF IInv, BeforeFirst, TypeOK

\* What such a step does to the rest, if it leaves Hive and Ambari alone.
LEMMA Move ==
    ASSUME IInv, NEW t \in Tasks, NEW x, Moves(t, x),
           UNCHANGED <<runs, hive, queue, request>>,
           t \in HiveTasks /\ x = "success" => request[t] = "COMPLETED"
    PROVE  Graph' /\ Requests' /\ Queued' /\ Service' /\ BeforeFirst'
<1>1. state \in [Tasks -> Final \cup {"none", "running"}]
    BY DEF IInv, TypeOK
<1>2. /\ state'[t] = x /\ x \notin {"none", "skipped"}
      /\ state[t] \in {"none", "running"}
      /\ state[t] = "running" => x \in {"success", "failed"}
      /\ x = "success" => state[t] = "running"
      /\ \A u \in Tasks : u # t => state'[u] = state[u]
    BY <1>1 DEF Moves
<1>3. {StopHive, StartHive, CopyHive} \subseteq Tasks
    BY AreTasks
<1>4. Graph'
    BY GraphMove DEF IInv
<1>5. Requests'
    BY <1>2, <1>3 DEF IInv, Requests, HiveTasks
<1>6. Queued'
    BY DEF IInv, Queued
<1>7. Service'
    BY <1>2, <1>3 DEF IInv, Service
<1>8. BeforeFirst'
    BY InARun DEF BeforeFirst, Moves
<1> QED
    BY <1>4, <1>5, <1>6, <1>7, <1>8

\* ... and leaves what was copied alone, unless it is the success of a copy.
LEMMA MoveCopies ==
    ASSUME IInv, NEW t \in Tasks, NEW x, Moves(t, x),
           UNCHANGED <<runs, database>>,
           x = "success" => t \notin CopyTasks
    PROVE  Copies'
BY AreTasks DEF IInv, Copies, AirflowCopyAllOrNothing, Moves, CopyTasks, TypeOK

------------------------------------------------------------------------------
(* One lemma per action. *)

\* The initial state satisfies the invariant.
LEMMA InvInit == Init => IInv
<1> SUFFICES ASSUME Init PROVE IInv
    OBVIOUS
<1>1. /\ CopyHive \in Tasks /\ StopHive \in Tasks /\ StartHive \in Tasks
      /\ CopyTasks \subseteq Tasks /\ HiveTasks \subseteq Tasks
      /\ \A f \in Folders :
          /\ <<"post_update", f>> \in Tasks /\ <<"verify", f>> \in Tasks
          /\ Chain(f) \subseteq Tasks
    BY AreTasks
<1>2. TypeOK
    BY DagAssumption DEF Init, TypeOK, Contents, Final
<1>3. Graph
    BY <1>1 DEF Init, Graph
<1>4. Requests /\ Queued /\ Service /\ BeforeFirst
    BY <1>1 DEF Init, Requests, Queued, Service, BeforeFirst, HiveTasks, CopyTasks
<1>5. Copies
    BY <1>1 DEF Init, Copies, AirflowCopyAllOrNothing, CopyTasks
<1> QED
    BY <1>2, <1>3, <1>4, <1>5 DEF IInv

\* What is in the queue, element by element.
LEMMA QueueType ==
    ASSUME TypeOK
    PROVE  /\ Len(queue) \in Nat
           /\ \A i \in 1..Len(queue) :
               queue[i].target \in {"STARTED", "INSTALLED"} /\ queue[i].run \in 1..MaxRuns
<1>1. queue \in Seq([target : {"STARTED", "INSTALLED"}, run : 1..MaxRuns])
    BY DEF TypeOK
<1>2. ASSUME NEW i \in 1..Len(queue)
      PROVE  queue[i] \in [target : {"STARTED", "INSTALLED"}, run : 1..MaxRuns]
    BY <1>1, ElementOfSeq
<1> QED
    BY <1>1, <1>2, LenProperties

\* A new run forgets the tasks and the requests of the one before, whose requests
\* may still be queued.
LEMMA InvStartRun ==
    ASSUME IInv, StartRun
    PROVE  IInv'
<1> USE DEF StartRun, IInv
<1>1. runs \in Nat /\ runs' \in 1..MaxRuns /\ runs' = runs + 1
    BY DagAssumption DEF TypeOK
<1>2. \A t \in Tasks : state'[t] = "none"
    OBVIOUS
<1>3. \A t \in HiveTasks : request'[t] = "none"
    OBVIOUS
<1>4. TypeOK'
    BY <1>1 DEF TypeOK, Final
<1>5. Graph'
    BY <1>2, AreTasks DEF Graph
<1>6. Requests'
    BY <1>2, <1>3, AreTasks DEF Requests, HiveTasks
<1>7. \A i \in 1..Len(queue) : queue[i].run \in Nat
    BY QueueType, DagAssumption
<1>8. Queued'
    BY <1>1, <1>3, <1>7 DEF Queued, HiveTasks
<1>9. Service' /\ BeforeFirst'
    BY <1>1, <1>3 DEF Service, BeforeFirst, HiveTasks
<1>10. Copies'
    BY <1>2, AreTasks DEF Copies, AirflowCopyAllOrNothing, CopyTasks
<1> QED
    BY <1>4, <1>5, <1>6, <1>8, <1>9, <1>10

\* The scheduler starts a task or gives it up.
LEMMA InvScheduler ==
    ASSUME IInv, NEW t \in Tasks, StartTask(t) \/ UpstreamFailed(t)
    PROVE  IInv'
<1>1. PICK x \in {"running", "upstream_failed"} : Moves(t, x)
    BY DEF StartTask, UpstreamFailed, Moves
<1>2. UNCHANGED <<runs, failures, hive, queue, request, statement, database>>
    BY DEF StartTask, UpstreamFailed
<1>3. TypeOK'
    BY <1>1, <1>2 DEF IInv, TypeOK, Moves, Final
<1> QED
    BY <1>1, <1>2, <1>3, Move, MoveCopies DEF IInv

\* A task fails.
LEMMA InvTaskFails ==
    ASSUME IInv, NEW t \in Tasks, TaskFails(t)
    PROVE  IInv'
<1>1. Moves(t, "failed")
    BY DEF TaskFails, Ends, Moves
<1>2. UNCHANGED <<runs, hive, queue, request, statement, database>>
    BY DEF TaskFails
<1>3. TypeOK'
    BY <1>1, <1>2, DagAssumption DEF IInv, TypeOK, Moves, Final, TaskFails, Failure
<1> QED
    BY <1>1, <1>2, <1>3, Move, MoveCopies DEF IInv

\* A task without effect on Hive or a database succeeds.
LEMMA InvTaskSucceeds ==
    ASSUME IInv, NEW t \in Tasks, TaskSucceeds(t)
    PROVE  IInv'
<1>1. Moves(t, "success") /\ t \notin HiveTasks \cup CopyTasks
    BY DEF TaskSucceeds, Ends, Moves
<1>2. UNCHANGED <<runs, failures, hive, queue, request, statement, database>>
    BY DEF TaskSucceeds
<1>3. TypeOK'
    BY <1>1, <1>2 DEF IInv, TypeOK, Moves, Final
<1> QED
    BY <1>1, <1>2, <1>3, Move, MoveCopies DEF IInv

\* A task of Hive ends: Ambari has completed its request, or the poll gives up.
LEMMA InvPoll ==
    ASSUME IInv, NEW t \in HiveTasks, RequestCompleted(t) \/ PollTimeout(t)
    PROVE  IInv'
<1>1. t \in Tasks /\ t \notin CopyTasks
    BY AreTasks, Distinct DEF HiveTasks, CopyTasks
<1>2. PICK x \in {"success", "failed"} : Moves(t, x) /\ (x = "success" => request[t] = "COMPLETED")
    BY DEF RequestCompleted, PollTimeout, Ends, Moves
<1>3. UNCHANGED <<runs, failures, hive, queue, request, statement, database>>
    BY DEF RequestCompleted, PollTimeout
<1>4. TypeOK'
    BY <1>1, <1>2, <1>3 DEF IInv, TypeOK, Moves, Final
<1>5. Graph' /\ Requests' /\ Queued' /\ Service' /\ BeforeFirst'
    BY <1>1, <1>2, <1>3, Move
<1>6. Copies'
    BY <1>1, <1>2, <1>3, MoveCopies
<1> QED
    BY <1>4, <1>5, <1>6 DEF IInv

\* A branch skips one of two tasks that have not been looked at.
LEMMA InvBranch ==
    ASSUME IInv, NEW f \in Folders, Branch(f)
    PROVE  IInv'
<1> DEFINE verify == <<"verify", f>>
<1>1. PICK name \in {"initialize", "update"} :
        state' = [state EXCEPT ![verify] = "success", ![<<name, f>>] = "skipped"]
    BY DEF Branch
<1> DEFINE skipped == <<name, f>>
<1>2. UNCHANGED <<runs, failures, hive, queue, request, statement, database>>
    BY DEF Branch
<1>3. /\ verify \in Tasks /\ skipped \in Tasks /\ verify # skipped
      /\ {PreTask, StopHive, DoKinit, CopyHive, CopyAirflow, StartHive} \subseteq Tasks \ {verify, skipped}
      /\ \A g \in Folders : <<"post_update", g>> \in Tasks \ {verify, skipped}
  <2>1. verify \in Tasks /\ skipped \in Tasks /\ \A g \in Folders : <<"post_update", g>> \in Tasks
      BY AreTasks
  <2>2. verify # skipped /\ \A g \in Folders : <<"post_update", g>> \notin {verify, skipped}
      BY Apart
  <2>3. {PreTask, StopHive, DoKinit, CopyHive, CopyAirflow, StartHive} \cap {verify, skipped} = {}
      BY Apart
  <2> QED
      BY <2>1, <2>2, <2>3, AreTasks
<1>4. state[verify] = "running" /\ state[skipped] = "none"
    BY DEF Branch, IInv, Graph
<1>5. /\ state \in [Tasks -> Final \cup {"none", "running"}]
      /\ state'[verify] = "success" /\ state'[skipped] = "skipped"
      /\ \A t \in Tasks \ {verify, skipped} : state'[t] = state[t]
    BY <1>1, <1>3 DEF IInv, TypeOK
<1>6. TypeOK'
    BY <1>1, <1>2, <1>5 DEF IInv, TypeOK, Final
<1>7. Graph'
  <2>1. \A t \in Tasks : state'[t] = "skipped" => t \in {"initialize", "update"} \X Folders
      BY <1>5 DEF IInv, Graph
  <2>2. ASSUME NEW g \in Folders, state'[<<"verify", g>>] \in {"none", "running"}
        PROVE  state'[<<"initialize", g>>] = "none" /\ state'[<<"update", g>>] = "none"
    <3>1. g # f
        BY <1>5, <2>2
    <3>2. {<<"verify", g>>, <<"initialize", g>>, <<"update", g>>} \cap {verify, skipped} = {}
        BY <3>1
    <3>3. {<<"verify", g>>, <<"initialize", g>>, <<"update", g>>} \subseteq Tasks \ {verify, skipped}
        BY <3>2, AreTasks
    <3> QED
        BY <1>5, <2>2, <3>3 DEF IInv, Graph
  <2>3. ASSUME NEW g \in Folders, NEW t \in Chain(g) \cup {<<"post_update", g>>},
               state'[t] = "upstream_failed"
        PROVE  \E u \in Chain(g) : state'[u] = "failed"
    <3>1. t \in Tasks \ {verify, skipped} /\ Chain(g) \subseteq Tasks
        BY <1>5, <2>3, AreTasks
    <3>2. PICK u \in Chain(g) : state[u] = "failed"
        BY <1>5, <2>3, <3>1 DEF IInv, Graph
    <3> QED
        BY <1>4, <1>5, <3>1, <3>2
  <2>4. /\ state'[CopyHive] \in {"running", "success"} => state'[StopHive] = "success"
        /\ state'[StartHive] \in {"running", "success"} =>
            /\ state'[CopyHive] = "success"
            /\ \A g \in Folders : state'[<<"post_update", g>>] = "success"
      BY <1>3, <1>5 DEF IInv, Graph
  <2> QED
      BY <2>1, <2>2, <2>3, <2>4 DEF Graph
<1>8. Requests' /\ Queued' /\ Service'
    BY <1>2, <1>3, <1>5 DEF IInv, Requests, Queued, Service, HiveTasks
<1>9. BeforeFirst'
    BY <1>2, <1>3, <1>4, InARun DEF BeforeFirst
<1>10. Copies'
    BY <1>2, <1>3, <1>5 DEF IInv, Copies, AirflowCopyAllOrNothing, CopyTasks
<1> QED
    BY <1>6, <1>7, <1>8, <1>9, <1>10 DEF IInv

\* The request for a state of the service is queued behind those of earlier
\* runs, or there is nothing to ask for.
LEMMA InvPut ==
    ASSUME IInv, NEW t \in HiveTasks, PutServiceState(t)
    PROVE  IInv'
<1>1. t \in Tasks /\ t \notin CopyTasks /\ state[t] = "running" /\ request[t] = "none"
    BY AreTasks, Distinct DEF HiveTasks, CopyTasks, PutServiceState
<1>2. UNCHANGED <<runs, failures, hive, statement, database>>
    BY DEF PutServiceState
<1>3. CASE Ends(t, "failed") /\ UNCHANGED <<queue, request>>
  <2>1. Moves(t, "failed")
      BY <1>3 DEF Ends, Moves
  <2>2. TypeOK'
      BY <1>1, <1>2, <1>3, <2>1 DEF IInv, TypeOK, Moves, Final
  <2>3. Graph' /\ Requests' /\ Queued' /\ Service' /\ BeforeFirst'
      BY <1>1, <1>2, <1>3, <2>1, Move
  <2>4. Copies'
      BY <1>1, <1>2, <2>1, MoveCopies
  <2> QED
      BY <2>2, <2>3, <2>4 DEF IInv
<1>4. CASE /\ queue' = Append(queue, [target |-> Target(t), run |-> runs])
           /\ request' = [request EXCEPT ![t] = "pending"]
           /\ UNCHANGED state
  <2>1. runs \in 1..MaxRuns
      BY <1>1, InARun DEF IInv, TypeOK
  <2>2. /\ [target |-> Target(t), run |-> runs] \in [target : {"STARTED", "INSTALLED"}, run : 1..MaxRuns]
        /\ queue \in Seq([target : {"STARTED", "INSTALLED"}, run : 1..MaxRuns])
      BY <2>1 DEF Target, IInv, TypeOK
  <2>3. /\ Len(queue') = Len(queue) + 1 /\ Len(queue) \in Nat
        /\ queue'[Len(queue')] = [target |-> Target(t), run |-> runs]
        /\ \A i \in 1..Len(queue) : queue'[i] = queue[i]
        /\ queue' \in Seq([target : {"STARTED", "INSTALLED"}, run : 1..MaxRuns])
      BY <1>4, <2>2, AppendProperties, LenProperties
  <2>4. /\ request \in [HiveTasks -> {"none", "pending", "COMPLETED", "FAILED"}]
        /\ StopHive \in HiveTasks /\ StartHive \in HiveTasks /\ StopHive # StartHive
      BY Distinct DEF IInv, TypeOK, HiveTasks
  <2>5. TypeOK'
      BY <1>2, <1>4, <2>3, <2>4 DEF IInv, TypeOK
  <2>6. Graph' /\ Copies'
      BY <1>2, <1>4 DEF IInv, Graph, Copies, AirflowCopyAllOrNothing
  <2>7. BeforeFirst'
      BY <1>1, <1>2, InARun DEF BeforeFirst
  <2>8. CASE t = StopHive
    <3>1. /\ request'[StopHive] = "pending" /\ request'[StartHive] = request[StartHive]
          /\ Target(t) = "INSTALLED"
        BY <1>4, <2>4, <2>8 DEF Target
    <3>2. request[StartHive] = "none"
        BY <1>1, <2>8 DEF IInv, Requests
    <3>3. Requests'
        BY <1>1, <1>2, <1>4, <2>8, <3>1, <3>2 DEF IInv, Requests, HiveTasks
    <3>4. \A i \in 1..Len(queue) : queue[i].run < runs
        BY <1>1, <2>8 DEF IInv, Queued
    <3>5. \A i \in 1..Len(queue) : queue[i].run \in 1..MaxRuns
        BY QueueType DEF IInv
    <3>6. queue'[Len(queue')].run = runs /\ Len(queue') > 0 /\ Len(queue') - 1 = Len(queue)
        BY <2>3
    <3>7. \A i \in 1..(Len(queue') - 1) : queue'[i].run < runs
        BY <2>3, <3>6, <3>4
    <3>8. \A i \in 1..Len(queue') : queue'[i].run <= runs
      <4> SUFFICES ASSUME NEW i \in 1..Len(queue') PROVE queue'[i].run <= runs
          OBVIOUS
      <4>1. CASE i = Len(queue')
          BY <2>1, <3>6, <4>1
      <4>2. CASE i # Len(queue')
          BY <2>1, <2>3, <3>5, <3>4, <4>2
      <4> QED
          BY <4>1, <4>2
    <3>9. Queued'
        BY <1>2, <2>3, <3>1, <3>2, <3>6, <3>7, <3>8 DEF Queued
    <3> QED
        BY <1>2, <2>5, <2>6, <2>7, <3>1, <3>2, <3>3, <3>9 DEF IInv, Service
  <2>9. CASE t = StartHive
    <3>1. /\ request'[StartHive] = "pending" /\ request'[StopHive] = request[StopHive]
          /\ Target(t) = "STARTED"
        BY <1>4, <2>4, <2>9 DEF Target
    <3>2. state[CopyHive] = "success" /\ state[StopHive] = "success" /\ request[StopHive] = "COMPLETED"
        BY <1>1, <2>1, <2>4, <2>9 DEF IInv, Graph, Requests
    <3>3. Len(queue) = 0
        BY <1>1, <2>9, <3>2 DEF IInv, Queued
    <3>4. Requests'
        BY <1>1, <1>2, <1>4, <2>9, <3>1, <3>2 DEF IInv, Requests, HiveTasks
    <3>5. Queued'
        BY <1>2, <2>1, <2>3, <3>1, <3>2, <3>3 DEF Queued
    <3> QED
        BY <1>2, <1>4, <2>5, <2>6, <2>7, <3>1, <3>2, <3>4, <3>5 DEF IInv, Service
  <2> QED
      BY <2>8, <2>9 DEF HiveTasks
<1> QED
    BY <1>3, <1>4 DEF PutServiceState

\* Ambari works off the request at the head: one of an earlier run, of which
\* nobody hears, or the only one of this run, which is the last.
LEMMA InvAmbari ==
    ASSUME IInv, AmbariCompletes \/ AmbariFails
    PROVE  IInv'
<1> DEFINE elements == [target : {"STARTED", "INSTALLED"}, run : 1..MaxRuns]
<1>1. queue \in Seq(elements) /\ queue # <<>>
    BY DEF IInv, TypeOK, AmbariCompletes, AmbariFails
<1>2. PICK status \in {"COMPLETED", "FAILED"} :
        Done(status) /\ (hive' = IF status = "COMPLETED" THEN Head(queue).target ELSE hive)
    BY DEF AmbariCompletes, AmbariFails
<1>3. /\ Len(queue) \in Nat /\ Len(queue) > 0 /\ Head(queue) = queue[1]
      /\ Tail(queue) \in Seq(elements) /\ Len(Tail(queue)) = Len(queue) - 1
      /\ \A i \in 1..(Len(queue) - 1) : Tail(queue)[i] = queue[i + 1]
    BY <1>1, HeadTailProperties, EmptySeq, LenProperties
<1>4. /\ queue' = Tail(queue)
      /\ UNCHANGED <<state, runs, statement, database>>
    BY <1>2 DEF Done
<1>5. /\ request \in [HiveTasks -> {"none", "pending", "COMPLETED", "FAILED"}]
      /\ StopHive \in HiveTasks /\ StartHive \in HiveTasks /\ StopHive # StartHive
    BY Distinct DEF IInv, TypeOK, HiveTasks
<1>6. \A i \in 1..Len(queue) :
        queue[i].target \in {"STARTED", "INSTALLED"} /\ queue[i].run \in 1..MaxRuns
    BY QueueType DEF IInv
<1>7. TypeOK'
  <2>1. request' \in [HiveTasks -> {"none", "pending", "COMPLETED", "FAILED"}]
      BY <1>2, <1>5 DEF Done
  <2>2. failures' \in 0..MaxFailures
      BY DagAssumption DEF IInv, TypeOK, AmbariCompletes, AmbariFails, Failure
  <2>3. hive' \in {"STARTED", "INSTALLED"}
      BY <1>2, <1>3, <1>6 DEF IInv, TypeOK
  <2> QED
      BY <1>3, <1>4, <2>1, <2>2, <2>3 DEF IInv, TypeOK
<1>8. Graph' /\ Copies'
    BY <1>4 DEF IInv, Graph, Copies, AirflowCopyAllOrNothing
<1>9. BeforeFirst'
    BY <1>3, <1>4 DEF IInv, BeforeFirst
<1>10. CASE queue[1].run # runs
  <2>1. UNCHANGED request
      BY <1>2, <1>3, <1>10 DEF Done
  <2>2. request[StartHive] # "pending" /\ request[StopHive] \in {"none", "pending"}
      BY <1>3, <1>5, <1>10 DEF IInv, Queued
  <2>3. request[StartHive] = "none"
      BY <1>5, <2>2, <1>3, <1>9, <1>4 DEF IInv, Requests, BeforeFirst, TypeOK
  <2>4. Requests' /\ Service'
      BY <1>4, <2>1, <2>2, <2>3 DEF IInv, Requests, Service
  <2>5. Queued'
    <3>1. request[StopHive] = "pending" => Len(queue) > 1
        BY <1>3, <1>10 DEF IInv, Queued
    <3> QED
        BY <1>3, <1>4, <2>1, <2>2, <2>3, <3>1 DEF IInv, Queued
  <2> QED
      BY <1>7, <1>8, <1>9, <2>4, <2>5 DEF IInv
<1>11. CASE queue[1].run = runs /\ request[StartHive] = "pending"
  <2>1. Len(queue) = 1 /\ queue[1].target = "STARTED"
      BY <1>11 DEF IInv, Queued
  <2>2. request'[StartHive] = status /\ request'[StopHive] = request[StopHive]
      BY <1>2, <1>3, <1>5, <1>11, <2>1 DEF Done
  <2>3. Requests' /\ Service'
      BY <1>2, <1>3, <1>4, <1>11, <2>1, <2>2 DEF IInv, Requests, Service, HiveTasks
  <2>4. Queued'
      BY <1>3, <1>4, <1>11, <2>1, <2>2 DEF IInv, Queued
  <2> QED
      BY <1>7, <1>8, <1>9, <2>3, <2>4 DEF IInv
<1>12. CASE queue[1].run = runs /\ request[StartHive] # "pending"
  <2>1. request[StopHive] = "pending"
      BY <1>3, <1>5, <1>6, <1>12 DEF IInv, Queued
  <2>2. Len(queue) = 1 /\ queue[1].target = "INSTALLED"
      BY <1>3, <1>6, <1>12, <2>1 DEF IInv, Queued
  <2>3. request'[StopHive] = status /\ request'[StartHive] = request[StartHive]
      BY <1>2, <1>3, <1>5, <1>12, <2>2 DEF Done
  <2>4. request[StartHive] = "none"
      BY <1>3, <1>4, <1>5, <1>9, <2>1, <1>12 DEF IInv, Requests, BeforeFirst, TypeOK
  <2>5. Requests' /\ Service'
      BY <1>2, <1>3, <1>4, <2>1, <2>2, <2>3, <2>4 DEF IInv, Requests, Service, HiveTasks
  <2>6. Queued'
      BY <1>3, <1>4, <2>2, <2>3, <2>4 DEF IInv, Queued
  <2> QED
      BY <1>7, <1>8, <1>9, <2>5, <2>6 DEF IInv
<1> QED
    BY <1>10, <1>11, <1>12

\* A database is dropped or created by a task that runs, or created by the operator
\* where there is none.
LEMMA InvReplace ==
    ASSUME IInv, NEW t \in CopyTasks, state[t] = "running" \/ database[t] = Missing,
           \/ UNCHANGED database /\ state[t] = "running"
           \/ \E c \in {Missing, Empty} : database' = [database EXCEPT ![t] = c],
           statement' \in [CopyTasks -> {"begin", "drop", "create", "owner", "restore"}],
           UNCHANGED <<state, runs, failures, hive, queue, request>>
    PROVE  IInv'
<1>1. t \in Tasks /\ CopyHive \in CopyTasks /\ CopyAirflow \in CopyTasks /\ CopyHive # CopyAirflow
    BY AreTasks, Distinct DEF CopyTasks
<1>2. database \in [CopyTasks -> Contents] /\ Missing \in Contents /\ Empty \in Contents
    BY DEF IInv, TypeOK, Contents
<1>3. TypeOK'
    BY <1>2 DEF IInv, TypeOK
<1>4. Graph' /\ Requests' /\ Queued' /\ Service'
    BY DEF IInv, Graph, Requests, Queued, Service
<1>5. runs # 0
    BY <1>1, InARun DEF IInv, BeforeFirst, Missing
<1>6. BeforeFirst'
    BY <1>5 DEF BeforeFirst
<1>7. Copies'
  <2>1. CASE UNCHANGED database
      BY <2>1 DEF IInv, Copies, AirflowCopyAllOrNothing
  <2>2. ASSUME NEW c \in {Missing, Empty}, database' = [database EXCEPT ![t] = c]
        PROVE  Copies'
    <3>1. database'[t].kind \notin {"full", "part"} /\ \A u \in CopyTasks : u # t => database'[u] = database[u]
        BY <1>2, <2>2 DEF Missing, Empty
    <3>2. state[t] # "success"
        BY <1>5, <1>1, DagAssumption DEF IInv, TypeOK, Copies, AirflowCopyAllOrNothing, CopyTasks, Missing
    <3> QED
        BY <1>1, <3>1, <3>2 DEF IInv, Copies, AirflowCopyAllOrNothing, CopyTasks
  <2> QED
      BY <2>1, <2>2
<1> QED
    BY <1>3, <1>4, <1>6, <1>7 DEF IInv

\* A copy ends with success and what it restored, or fails because there is
\* nothing to drop.
LEMMA InvCopyEnds ==
    ASSUME IInv, NEW t \in CopyTasks, NEW x \in {"success", "failed"}, Ends(t, x),
           IF x = "success"
           THEN \E kind \in {"full", "part"} :
                    Restored(t, kind) /\ (t = CopyAirflow => kind = "full")
           ELSE UNCHANGED database,
           statement' \in [CopyTasks -> {"begin", "drop", "create", "owner", "restore"}],
           UNCHANGED <<runs, failures, hive, queue, request>>
    PROVE  IInv'
<1>1. /\ t \in Tasks /\ t \notin HiveTasks /\ CopyHive # CopyAirflow
      /\ {CopyHive, CopyAirflow} = CopyTasks /\ CopyTasks \subseteq Tasks
    BY AreTasks, Distinct DEF HiveTasks, CopyTasks
<1>2. Moves(t, x)
    BY DEF Moves, Ends
<1>3. /\ state \in [Tasks -> Final \cup {"none", "running"}]
      /\ state'[t] = x /\ \A u \in Tasks : u # t => state'[u] = state[u]
    BY <1>1, <1>2 DEF IInv, TypeOK, Moves
<1>4. Graph' /\ Requests' /\ Queued' /\ Service' /\ BeforeFirst'
    BY <1>1, <1>2, Move
<1>5. CASE x = "failed"
  <2>1. TypeOK'
      BY <1>2, <1>5 DEF IInv, TypeOK, Moves, Final
  <2>2. Copies'
      BY <1>1, <1>2, <1>5, MoveCopies
  <2> QED
      BY <1>4, <2>1, <2>2 DEF IInv
<1>6. CASE x = "success"
  <2>1. PICK kind \in {"full", "part"} :
          /\ database' = [database EXCEPT ![t] = [kind |-> kind, version |-> runs]]
          /\ t = CopyAirflow => kind = "full"
      BY <1>6 DEF Restored
  <2>2. /\ database \in [CopyTasks -> Contents]
        /\ [kind |-> kind, version |-> runs] \in Contents
      BY DEF IInv, TypeOK, Contents
  <2>3. TypeOK'
      BY <1>2, <1>6, <2>1, <2>2 DEF IInv, TypeOK, Moves, Final
  <2>4. /\ database'[t] = [kind |-> kind, version |-> runs]
        /\ \A u \in CopyTasks : u # t => database'[u] = database[u]
      BY <2>1, <2>2
  <2>5. Copies'
      BY <1>1, <1>3, <2>1, <2>4 DEF IInv, Copies, AirflowCopyAllOrNothing
  <2> QED
      BY <1>4, <2>3, <2>5 DEF IInv
<1> QED
    BY <1>5, <1>6

\* The statements common to both copies.
LEMMA InvDropCreate ==
    ASSUME IInv, NEW t \in CopyTasks, NEW name \in {"begin", "drop", "owner", "restore"},
           Drop(t, name) \/ CreateEmpty(t, name)
    PROVE  IInv'
<1>1. CASE CreateEmpty(t, name)
    BY <1>1, InvReplace DEF CreateEmpty, Executes, IInv, TypeOK
<1>2. CASE Executes(t, name, "create") /\ database' = [database EXCEPT ![t] = Missing] /\ UNCHANGED state
    BY <1>2, InvReplace DEF Executes, IInv, TypeOK
<1>3. CASE Ends(t, "failed") /\ UNCHANGED <<runs, failures, hive, queue, request, statement, database>>
    BY <1>3, InvCopyEnds DEF IInv, TypeOK
<1> QED
    BY <1>1, <1>2, <1>3 DEF Drop

\* The script of copy_pg_hive_database.
LEMMA InvCopyHive ==
    ASSUME IInv, CopyHiveStep
    PROVE  IInv'
<1>1. CopyHive \in CopyTasks /\ CopyHive # CopyAirflow
    BY Distinct DEF CopyTasks
<1>2. CASE Executes(CopyHive, "begin", "drop") /\ UNCHANGED <<state, database>>
    BY <1>1, <1>2, InvReplace DEF Executes, IInv, TypeOK
<1>3. CASE Drop(CopyHive, "drop") \/ CreateEmpty(CopyHive, "restore")
    BY <1>1, <1>3, InvDropCreate
<1>4. CASE /\ Executes(CopyHive, "restore", "restore")
           /\ \E kind \in {"full", "part"} : Restored(CopyHive, kind)
           /\ Ends(CopyHive, "success")
    BY <1>1, <1>4, InvCopyEnds DEF Executes, IInv, TypeOK
<1> QED
    BY <1>2, <1>3, <1>4 DEF CopyHiveStep

\* The script of copy_pg_airflow_database.
LEMMA InvCopyAirflow ==
    ASSUME IInv, CopyAirflowStep
    PROVE  IInv'
<1>1. CopyAirflow \in CopyTasks
    BY DEF CopyTasks
<1>2. CASE Drop(CopyAirflow, "begin") \/ CreateEmpty(CopyAirflow, "owner")
    BY <1>1, <1>2, InvDropCreate
<1>3. CASE Executes(CopyAirflow, "owner", "restore") /\ UNCHANGED <<state, database>>
    BY <1>1, <1>3, InvReplace DEF Executes, IInv, TypeOK
<1>4. CASE RestoreAirflow
    BY <1>1, <1>4, InvCopyEnds DEF RestoreAirflow, Executes, IInv, TypeOK
<1> QED
    BY <1>2, <1>3, <1>4 DEF CopyAirflowStep

\* The operator starts Hive between two runs.
LEMMA InvOperatorStartsHive ==
    ASSUME IInv, OperatorStartsHive
    PROVE  IInv'
<1>1. hive' = "STARTED" /\ UNCHANGED <<state, runs, failures, queue, request, statement, database>>
    BY DEF OperatorStartsHive
<1>2. state[CopyHive] \notin {"none", "running"}
    BY AreTasks DEF OperatorStartsHive, Ended, Final
<1>3. TypeOK'
    BY <1>1 DEF IInv, TypeOK
<1>4. Graph' /\ Requests' /\ Queued' /\ BeforeFirst' /\ Copies'
    BY <1>1 DEF IInv, Graph, Requests, Queued, BeforeFirst, Copies, AirflowCopyAllOrNothing
<1>5. Service'
    BY <1>1, <1>2 DEF IInv, Service
<1> QED
    BY <1>3, <1>4, <1>5 DEF IInv

------------------------------------------------------------------------------
(* The theorems. *)

\* Every step preserves the invariant.
LEMMA InvStep == IInv /\ [Next]_vars => IInv'
<1> SUFFICES ASSUME IInv, [Next]_vars PROVE IInv'
    OBVIOUS
<1>1. CASE StartRun
    BY <1>1, InvStartRun
<1>2. CASE Scheduler
    BY <1>2, InvScheduler DEF Scheduler
<1>3. CASE Work
  <2>1. ASSUME NEW t \in Tasks, TaskSucceeds(t) PROVE IInv'
      BY <2>1, InvTaskSucceeds
  <2>2. ASSUME NEW f \in Folders, Branch(f) PROVE IInv'
      BY <2>2, InvBranch
  <2>3. ASSUME NEW t \in HiveTasks, PutServiceState(t) \/ RequestCompleted(t) PROVE IInv'
      BY <2>3, InvPut, InvPoll
  <2> QED
      BY <1>3, <2>1, <2>2, <2>3, InvCopyHive, InvCopyAirflow DEF Work
<1>4. CASE Timeouts
    BY <1>4, InvPoll DEF Timeouts
<1>5. CASE \E t \in Tasks : TaskFails(t)
    BY <1>5, InvTaskFails
<1>6. CASE AmbariCompletes \/ AmbariFails
    BY <1>6, InvAmbari
<1>7. CASE OperatorStartsHive
    BY <1>7, InvOperatorStartsHive
<1>8. ASSUME NEW t \in CopyTasks, OperatorCreatesDatabase(t) PROVE IInv'
    BY <1>8, InvReplace DEF OperatorCreatesDatabase, IInv, TypeOK
<1>9. CASE UNCHANGED vars
  <2>1. UNCHANGED <<state, runs, failures, hive, queue, request, statement, database>>
      BY <1>9 DEF vars
  <2> QED
      BY <2>1 DEF IInv, TypeOK, Graph, Requests, Queued, Service, BeforeFirst, Copies,
                  AirflowCopyAllOrNothing
<1> QED
    BY <1>1, <1>2, <1>3, <1>4, <1>5, <1>6, <1>7, <1>8, <1>9 DEF Next

(***************************************************************************)
(* The inductive invariant holds in every reachable state.                 *)
(***************************************************************************)
THEOREM Invariance == Spec => []IInv
BY InvInit, InvStep, PTL DEF Spec

(***************************************************************************)
(* Every variable keeps its type.                                          *)
(***************************************************************************)
THEOREM TypeInvariance == Spec => []TypeOK
<1>1. IInv => TypeOK
    BY DEF IInv
<1> QED
    BY <1>1, Invariance, PTL

(***************************************************************************)
(* Hive is stopped, and no request is queued that could start it, while    *)
(* its database is replaced.                                               *)
(***************************************************************************)
THEOREM HiveIsStopped == Spec => []HiveStoppedWhileReplaced
<1>1. IInv => HiveStoppedWhileReplaced
  <2> SUFFICES ASSUME IInv, state[CopyHive] = "running"
               PROVE  hive = "INSTALLED" /\ queue = <<>>
      BY DEF HiveStoppedWhileReplaced
  <2>1. runs > 0 /\ state[StopHive] = "success"
      BY AreTasks, InARun DEF IInv, Graph
  <2>2. request[StopHive] = "COMPLETED" /\ request[StartHive] # "pending"
      BY <2>1 DEF IInv, Requests, HiveTasks
  <2>3. Len(queue) = 0 /\ queue \in Seq([target : {"STARTED", "INSTALLED"}, run : 1..MaxRuns])
      BY <2>2 DEF IInv, Queued, TypeOK
  <2> QED
      BY <2>2, <2>3, EmptySeq DEF IInv, Service
<1> QED
    BY <1>1, Invariance, PTL

(***************************************************************************)
(* start_hive runs only on the copy its own run has made.                  *)
(***************************************************************************)
THEOREM HiveStartsOnCopy == Spec => []HiveStartsOnThisCopy
<1>1. IInv => HiveStartsOnThisCopy
    BY DEF IInv, Graph, Copies, HiveStartsOnThisCopy
<1> QED
    BY <1>1, Invariance, PTL

(***************************************************************************)
(* A run without a failed task leaves Hive started and both databases      *)
(* there.                                                                  *)
(***************************************************************************)
THEOREM NothingLeftDown == Spec => []NothingLeftDownSilently
<1>1. IInv => NothingLeftDownSilently
  <2> SUFFICES ASSUME IInv, \A t \in Tasks : state[t] \in {"success", "skipped"}
               PROVE  hive = "STARTED" /\ \A t \in CopyTasks : database[t].kind \in {"full", "part"}
      BY DEF NothingLeftDownSilently
  <2>1. state[StartHive] = "success" /\ state[CopyHive] = "success" /\ state[CopyAirflow] = "success"
      BY AreTasks, Apart DEF IInv, Graph
  <2>2. CASE runs = 0
      BY <2>2 DEF IInv, BeforeFirst
  <2>3. CASE runs > 0
    <3>1. request[StartHive] = "COMPLETED"
        BY <2>1, <2>3 DEF IInv, Requests, HiveTasks
    <3> QED
        BY <2>1, <2>3, <3>1 DEF IInv, Service, Copies, AirflowCopyAllOrNothing, CopyTasks
  <2> QED
      BY <2>2, <2>3, DagAssumption DEF IInv, TypeOK
<1> QED
    BY <1>1, Invariance, PTL

(***************************************************************************)
(* The Airflow database is restored as a whole or not at all.              *)
(***************************************************************************)
THEOREM AirflowCopy == Spec => []AirflowCopyAllOrNothing
<1>1. IInv => AirflowCopyAllOrNothing
    BY DEF IInv, Copies
<1> QED
    BY <1>1, Invariance, PTL

(***************************************************************************)
(* A folder is given up only for a failure in its own chain of tasks.      *)
(***************************************************************************)
THEOREM FolderIndependence == Spec => []FoldersIndependent
<1>1. IInv => FoldersIndependent
    BY DEF IInv, Graph, Chain, FoldersIndependent
<1> QED
    BY <1>1, Invariance, PTL

------------------------------------------------------------------------------
(* How a run gets on: what RunEnds rests on, without fairness.  A run is   *)
(* never stuck, and what it still has to do shrinks with every step.       *)

\* The branch of a folder skips one of its two tasks, never both, and a script
\* only comes to its own statements.
Branches ==
    /\ \A f \in Folders : ~(state[<<"initialize", f>>] = "skipped" /\ state[<<"update", f>>] = "skipped")
    /\ statement[CopyHive] # "owner" /\ statement[CopyAirflow] # "drop"

\* The guards of Scheduler, Work and Timeouts.
Schedulable(t) ==
    state[t] = "none" /\ (CanRun(t) \/ \E u \in Upstream(t) : state[u] \in {"failed", "upstream_failed"})
Workable(t) ==
    /\ state[t] = "running"
    /\ t \in HiveTasks => request[t] \in {"none", "pending", "COMPLETED", "FAILED"}
    /\ t = CopyHive => statement[t] \in {"begin", "drop", "create", "restore"}
    /\ t = CopyAirflow => statement[t] \in {"begin", "create", "owner", "restore"}
CanGoOn == \E t \in Tasks : Schedulable(t) \/ Workable(t)

\* What a run still has to do: starts and ends of tasks, requests, statements.
StatementsLeft(s) ==
    CASE s = "begin" -> {"drop", "create", "owner", "restore"}
      [] s = "drop" -> {"create", "owner", "restore"}
      [] s = "create" -> {"owner", "restore"}
      [] s = "owner" -> {"restore"}
      [] OTHER -> {}
ToDo ==
    {"start", "end", "put", "drop", "create", "owner", "restore"} \X Tasks
Left ==
    {x \in ToDo :
        \/ x[1] = "start" /\ state[x[2]] = "none"
        \/ x[1] = "end" /\ state[x[2]] \notin Final
        \/ x[1] = "put" /\ x[2] \in HiveTasks /\ request[x[2]] = "none"
        \/ x[2] \in CopyTasks /\ x[1] \in StatementsLeft(statement[x[2]])}

\* The steps of Airflow and its tasks.
Progress == Scheduler \/ Work \/ Timeouts

\* Before the first run nothing was skipped.
LEMMA BranchesInit == Init => Branches
<1> SUFFICES ASSUME Init PROVE Branches
    OBVIOUS
<1>1. \A f \in Folders : state[<<"initialize", f>>] = "success"
    BY AreTasks DEF Init
<1>2. \A t \in CopyTasks : statement[t] = "begin"
    BY DEF Init
<1> QED
    BY <1>1, <1>2 DEF Branches, CopyTasks

\* Only a branch skips, and it comes before both of the tasks.
LEMMA BranchesStep == IInv /\ Branches /\ [Next]_vars => Branches'
<1> SUFFICES ASSUME IInv, Branches, [Next]_vars PROVE Branches'
    OBVIOUS
<1>1. ASSUME state' = [t \in Tasks |-> "none"] \/ UNCHANGED state
             \/ \E t \in Tasks, x \in {"running", "upstream_failed", "success", "failed"} :
                    state' = [state EXCEPT ![t] = x],
             NEW f \in Folders, NEW name \in {"initialize", "update"},
             state'[<<name, f>>] = "skipped"
      PROVE  state[<<name, f>>] = "skipped"
    BY <1>1, AreTasks DEF IInv, TypeOK
<1>2. ASSUME NEW f \in Folders, Branch(f), NEW g \in Folders,
             state'[<<"initialize", g>>] = "skipped", state'[<<"update", g>>] = "skipped"
      PROVE  FALSE
  <2>1. PICK name \in {"initialize", "update"} :
            state' = [state EXCEPT ![<<"verify", f>>] = "success", ![<<name, f>>] = "skipped"]
      BY <1>2 DEF Branch
  <2>2. /\ {<<"verify", f>>, <<"initialize", f>>, <<"update", f>>,
            <<"initialize", g>>, <<"update", g>>} \subseteq Tasks
        /\ DOMAIN state = Tasks
      BY AreTasks DEF IInv, TypeOK
  <2>3. state[<<"initialize", f>>] = "none" /\ state[<<"update", f>>] = "none"
      BY <1>2 DEF Branch, IInv, Graph
  <2>4. CASE g = f
      BY <1>2, <2>1, <2>2, <2>3, <2>4
  <2>5. CASE g # f
    <3>1. \A n \in {"initialize", "update"} : state'[<<n, g>>] = state[<<n, g>>]
        BY <2>1, <2>2, <2>5
    <3> QED
        BY <1>2, <3>1 DEF Branches
  <2> QED
      BY <2>4, <2>5
<1>3. CASE StartRun
    BY <1>1, <1>3, Distinct DEF StartRun, Branches, CopyTasks
<1>4. CASE Scheduler
    BY <1>1, <1>4 DEF Scheduler, StartTask, UpstreamFailed, Branches
<1>5. ASSUME NEW t \in Tasks, TaskSucceeds(t) \/ TaskFails(t) PROVE Branches'
    BY <1>1, <1>5 DEF TaskSucceeds, TaskFails, Ends, Branches
<1>6. ASSUME NEW f \in Folders, Branch(f) PROVE Branches'
    BY <1>2, <1>6 DEF Branch, Branches
<1>7. ASSUME NEW t \in HiveTasks, PutServiceState(t) \/ RequestCompleted(t) \/ PollTimeout(t)
      PROVE  Branches'
    BY <1>1, <1>7, AreTasks DEF PutServiceState, RequestCompleted, PollTimeout, Ends, Branches
<1>8. CASE CopyHiveStep \/ CopyAirflowStep
  <2>1. UNCHANGED state \/ \E t \in Tasks, x \in {"success", "failed"} : state' = [state EXCEPT ![t] = x]
      BY <1>8, AreTasks DEF CopyHiveStep, CopyAirflowStep, Drop, CreateEmpty, RestoreAirflow, Ends
  <2>2. statement'[CopyHive] # "owner" /\ statement'[CopyAirflow] # "drop"
    <3>1. \/ UNCHANGED statement
          \/ \E s \in {"drop", "create", "restore"} : statement' = [statement EXCEPT ![CopyHive] = s]
          \/ \E s \in {"create", "owner", "restore"} : statement' = [statement EXCEPT ![CopyAirflow] = s]
        BY <1>8 DEF CopyHiveStep, CopyAirflowStep, Drop, CreateEmpty, RestoreAirflow, Executes
    <3>2. DOMAIN statement = CopyTasks
        BY DEF IInv, TypeOK
    <3> QED
        BY <3>1, <3>2, Distinct DEF Branches, CopyTasks
  <2> QED
      BY <1>1, <2>1, <2>2 DEF Branches
<1>9. CASE \/ AmbariCompletes \/ AmbariFails \/ OperatorStartsHive
           \/ \E t \in CopyTasks : OperatorCreatesDatabase(t)
    BY <1>9 DEF AmbariCompletes, AmbariFails, Done, OperatorStartsHive, OperatorCreatesDatabase, Branches
<1>10. CASE UNCHANGED vars
    BY <1>10 DEF vars, Branches
<1> QED
    BY <1>3, <1>4, <1>5, <1>6, <1>7, <1>8, <1>9, <1>10 DEF Next, Work, Timeouts

\* A task upstream of which everything has ended is not waited for.
LEMMA NoTaskWaits ==
    ASSUME IInv, Branches, NEW t \in Tasks, state[t] = "none",
           \A u \in Upstream(t) : u \in Tasks /\ state[u] \in Final
    PROVE  Schedulable(t)
<1> SUFFICES ASSUME \A u \in Upstream(t) : state[u] \in {"success", "skipped"} PROVE CanRun(t)
    BY DEF Schedulable, Final
<1>1. \A u \in Upstream(t) : state[u] = "skipped" => u \in {"initialize", "update"} \X Folders
    BY DEF IInv, Graph
<1>2. CASE \E f \in Folders : t = <<"post_update", f>>
  <2>1. PICK f \in Folders : t = <<"post_update", f>>
      BY <1>2
  <2>2. /\ <<"initialize", f>> \in Upstream(t) /\ <<"update", f>> \in Upstream(t)
        /\ t \in MinOneSuccess
      BY <2>1, Edges, UpstreamEdge DEF MinOneSuccess
  <2> QED
      BY <2>2 DEF Branches, CanRun
<1>3. CASE ~\E f \in Folders : t = <<"post_update", f>>
  <2>1. \A u \in Upstream(t) : u \notin {"initialize", "update"} \X Folders
    <3>1. ASSUME NEW g \in Folders, NEW name \in {"initialize", "update"}
          PROVE  <<name, g>> \notin Upstream(t)
      <4>1. /\ <<name, g>> \notin {PreTask, StopHive, CopyHive, DoKinit}
            /\ \A f \in Folders : <<name, g>> # <<"verify", f>> /\ <<name, g>> # <<"post_update", f>>
          BY Apart
      <4>2. <<<<name, g>>, t>> \notin Wiring
          BY <1>3, <4>1, Edges
      <4> QED
          BY <4>2, UpstreamEdge
    <3> SUFFICES ASSUME NEW u \in Upstream(t), u \in {"initialize", "update"} \X Folders PROVE FALSE
        OBVIOUS
    <3>2. PICK name \in {"initialize", "update"}, g \in Folders : u = <<name, g>>
        OBVIOUS
    <3> QED
        BY <3>1, <3>2
  <2> QED
      BY <1>1, <2>1 DEF CanRun
<1> QED
    BY <1>2, <1>3

\* What is upstream of each task.
LEMMA UpstreamSets ==
    /\ Upstream(PreTask) = {} /\ Upstream(CopyAirflow) = {}
    /\ Upstream(StopHive) \subseteq {PreTask}
    /\ Upstream(DoKinit) \subseteq {StopHive} /\ Upstream(CopyHive) \subseteq {StopHive}
    /\ \A f \in Folders :
        /\ Upstream(<<"verify", f>>) \subseteq {DoKinit}
        /\ Upstream(<<"initialize", f>>) \subseteq {<<"verify", f>>}
        /\ Upstream(<<"update", f>>) \subseteq {<<"verify", f>>}
        /\ Upstream(<<"post_update", f>>) \subseteq {<<"initialize", f>>, <<"update", f>>}
    /\ Upstream(StartHive) \subseteq {CopyHive} \cup {<<"post_update", f>> : f \in Folders}
<1>1. \A f, name : <<name, f>> \notin {PreTask, StopHive, DoKinit, CopyHive, CopyAirflow, StartHive}
    BY Apart
<1>2. /\ \A u : <<u, PreTask>> \notin Wiring /\ <<u, CopyAirflow>> \notin Wiring
      /\ \A u : <<u, StopHive>> \in Wiring => u = PreTask
      /\ \A u : <<u, DoKinit>> \in Wiring \/ <<u, CopyHive>> \in Wiring => u = StopHive
  <2>1. \A u : <<u, PreTask>> \notin Wiring
      BY <1>1, Edges, Distinct
  <2>2. \A u : <<u, CopyAirflow>> \notin Wiring
      BY <1>1, Edges, Distinct
  <2>3. \A u : <<u, StopHive>> \in Wiring => u = PreTask
      BY <1>1, Edges, Distinct
  <2>4. \A u : <<u, DoKinit>> \in Wiring => u = StopHive
      BY <1>1, Edges, Distinct
  <2>5. \A u : <<u, CopyHive>> \in Wiring => u = StopHive
      BY <1>1, Edges, Distinct
  <2> QED
      BY <2>1, <2>2, <2>3, <2>4, <2>5
<1>3. ASSUME NEW f \in Folders, NEW u
      PROVE  /\ <<u, <<"verify", f>>>> \in Wiring => u = DoKinit
             /\ <<u, <<"initialize", f>>>> \in Wiring => u = <<"verify", f>>
             /\ <<u, <<"update", f>>>> \in Wiring => u = <<"verify", f>>
             /\ <<u, <<"post_update", f>>>> \in Wiring => u \in {<<"initialize", f>>, <<"update", f>>}
  <2>1. \A name, other, g : <<name, f>> = <<other, g>> <=> name = other /\ f = g
      BY Apart
  <2>2. <<u, <<"verify", f>>>> \in Wiring => u = DoKinit
      BY <1>1, <2>1, Edges
  <2>3. <<u, <<"initialize", f>>>> \in Wiring => u = <<"verify", f>>
      BY <1>1, <2>1, Edges
  <2>4. <<u, <<"update", f>>>> \in Wiring => u = <<"verify", f>>
      BY <1>1, <2>1, Edges
  <2>5. <<u, <<"post_update", f>>>> \in Wiring => u \in {<<"initialize", f>>, <<"update", f>>}
      BY <1>1, <2>1, Edges
  <2> QED
      BY <2>2, <2>3, <2>4, <2>5
<1>4. \A u : <<u, StartHive>> \in Wiring => u \in {CopyHive} \cup {<<"post_update", f>> : f \in Folders}
    BY <1>1, Edges, Distinct
<1>5. Upstream(StartHive) \subseteq {CopyHive} \cup {<<"post_update", f>> : f \in Folders}
    BY <1>4, UpstreamEdge
<1>6. ASSUME NEW f \in Folders
      PROVE  /\ Upstream(<<"verify", f>>) \subseteq {DoKinit}
             /\ Upstream(<<"initialize", f>>) \subseteq {<<"verify", f>>}
             /\ Upstream(<<"update", f>>) \subseteq {<<"verify", f>>}
             /\ Upstream(<<"post_update", f>>) \subseteq {<<"initialize", f>>, <<"update", f>>}
    BY <1>3, UpstreamEdge
<1>7. /\ Upstream(PreTask) = {} /\ Upstream(CopyAirflow) = {}
      /\ Upstream(StopHive) \subseteq {PreTask}
      /\ Upstream(DoKinit) \subseteq {StopHive} /\ Upstream(CopyHive) \subseteq {StopHive}
    BY <1>2, UpstreamEdge
<1> QED
    BY <1>5, <1>6, <1>7

\* If nothing can be scheduled and nothing runs, the run has ended.
LEMMA GoesOn ==
    ASSUME IInv, Branches
    PROVE  Ended \/ CanGoOn
<1> SUFFICES ASSUME ~CanGoOn PROVE Ended
    OBVIOUS
<1>1. \A t \in Tasks : state[t] \in Final \cup {"none", "running"}
    BY DEF IInv, TypeOK
<1>2. \A t \in Tasks : state[t] # "running"
  <2>1. /\ \A t \in HiveTasks : request[t] \in {"none", "pending", "COMPLETED", "FAILED"}
        /\ statement[CopyHive] \in {"begin", "drop", "create", "restore"}
        /\ statement[CopyAirflow] \in {"begin", "create", "owner", "restore"}
      BY DEF IInv, TypeOK, Branches, CopyTasks
  <2> QED
      BY <2>1 DEF CanGoOn, Workable
<1>3. ASSUME NEW t \in Tasks, \A u \in Upstream(t) : u \in Tasks /\ state[u] \in Final
      PROVE  state[t] \in Final
    BY <1>1, <1>2, <1>3, NoTaskWaits DEF CanGoOn
<1>4. state[PreTask] \in Final /\ state[CopyAirflow] \in Final
    BY <1>3, UpstreamSets, AreTasks
<1>5. state[StopHive] \in Final
    BY <1>3, <1>4, UpstreamSets, AreTasks
<1>6. state[DoKinit] \in Final /\ state[CopyHive] \in Final
    BY <1>3, <1>5, UpstreamSets, AreTasks
<1>7. ASSUME NEW f \in Folders
      PROVE  \A name \in {"verify", "initialize", "update", "post_update"} : state[<<name, f>>] \in Final
  <2>1. state[<<"verify", f>>] \in Final
      BY <1>3, <1>6, UpstreamSets, AreTasks
  <2>2. state[<<"initialize", f>>] \in Final /\ state[<<"update", f>>] \in Final
      BY <1>3, <2>1, UpstreamSets, AreTasks
  <2>3. state[<<"post_update", f>>] \in Final
      BY <1>3, <2>2, UpstreamSets, AreTasks
  <2> QED
      BY <2>1, <2>2, <2>3
<1>8. state[StartHive] \in Final
  <2>1. \A u \in {CopyHive} \cup {<<"post_update", f>> : f \in Folders} : u \in Tasks /\ state[u] \in Final
      BY <1>6, <1>7, AreTasks
  <2> QED
      BY <1>3, <2>1, UpstreamSets, AreTasks
<1>9. \A t \in {"verify", "initialize", "update", "post_update"} \X Folders : state[t] \in Final
  <2> SUFFICES ASSUME NEW t \in {"verify", "initialize", "update", "post_update"} \X Folders
               PROVE  state[t] \in Final
      OBVIOUS
  <2>1. PICK name \in {"verify", "initialize", "update", "post_update"}, f \in Folders : t = <<name, f>>
      OBVIOUS
  <2> QED
      BY <1>7, <2>1
<1> QED
    BY <1>4, <1>5, <1>6, <1>8, <1>9 DEF Ended, Tasks

(***************************************************************************)
(* No run is stuck: until it has ended, some task can be started, given up *)
(* or taken on.  No trigger rule waits for a task that was skipped.        *)
(***************************************************************************)
THEOREM NeverStuck == Spec => [](Ended \/ CanGoOn)
<1>1. Spec => []Branches
    BY BranchesInit, BranchesStep, Invariance, PTL DEF Spec
<1>2. IInv /\ Branches => Ended \/ CanGoOn
    BY GoesOn
<1> QED
    BY <1>1, <1>2, Invariance, PTL

\* A step that takes nothing back.
Forward ==
    /\ \A t \in Tasks : /\ state'[t] = "none" => state[t] = "none"
                        /\ state'[t] \notin Final => state[t] \notin Final
    /\ \A t \in HiveTasks : request'[t] = "none" => request[t] = "none"
    /\ \A t \in CopyTasks : StatementsLeft(statement'[t]) \subseteq StatementsLeft(statement[t])

\* Such a step leaves nothing to do that was not to be done before.
LEMMA LeftShrinks == Forward => Left' \subseteq Left
<1> SUFFICES ASSUME Forward, NEW x \in Left' PROVE x \in Left
    OBVIOUS
<1>1. x \in ToDo /\ x[2] \in Tasks
    BY DEF Left, ToDo
<1>2. \/ x[1] = "start" /\ state'[x[2]] = "none"
      \/ x[1] = "end" /\ state'[x[2]] \notin Final
      \/ x[1] = "put" /\ x[2] \in HiveTasks /\ request'[x[2]] = "none"
      \/ x[2] \in CopyTasks /\ x[1] \in StatementsLeft(statement'[x[2]])
    BY DEF Left
<1> QED
    BY <1>1, <1>2 DEF Forward, Left

\* A task that starts or ends leaves less to do.
LEMMA LessByState ==
    ASSUME IInv, NEW t \in Tasks, NEW x, state' = [state EXCEPT ![t] = x],
           \/ state[t] = "none" /\ x \in {"running", "upstream_failed"}
           \/ state[t] = "running" /\ x \in {"success", "failed"},
           UNCHANGED <<request, statement>>
    PROVE  Left' \subseteq Left /\ Left' # Left
<1>1. state \in [Tasks -> Final \cup {"none", "running"}]
    BY DEF IInv, TypeOK
<1>2. state'[t] = x /\ \A u \in Tasks : u # t => state'[u] = state[u]
    BY <1>1
<1>3. Forward
    BY <1>2 DEF Forward, Final
<1>4. \E what \in {"start", "end"} : <<what, t>> \in Left /\ <<what, t>> \notin Left'
  <2>1. <<"start", t>> \in ToDo /\ <<"end", t>> \in ToDo
      BY DEF ToDo
  <2>2. \A s : {"start", "end"} \cap StatementsLeft(s) = {}
      BY DEF StatementsLeft
  <2>3. CASE state[t] = "none"
      BY <1>2, <2>1, <2>2, <2>3 DEF Left
  <2>4. CASE state[t] = "running"
      BY <1>2, <2>1, <2>2, <2>4 DEF Left, Final
  <2> QED
      BY <2>3, <2>4
<1> QED
    BY <1>3, <1>4, LeftShrinks

\* So does a statement of a script.
LEMMA LessByStatement ==
    ASSUME IInv, NEW t \in CopyTasks, NEW from, NEW to, statement[t] = from,
           statement' = [statement EXCEPT ![t] = to],
           \/ from = "begin" /\ to \in {"drop", "create"}
           \/ from = "drop" /\ to = "create"
           \/ from = "create" /\ to \in {"owner", "restore"}
           \/ from = "owner" /\ to = "restore",
           UNCHANGED <<state, request>>
    PROVE  Left' \subseteq Left /\ Left' # Left
<1>1. statement'[t] = to /\ \A u \in CopyTasks : u # t => statement'[u] = statement[u]
    BY DEF IInv, TypeOK
<1>2. /\ to \in {"drop", "create", "owner", "restore"}
      /\ to \in StatementsLeft(from) /\ to \notin StatementsLeft(to)
      /\ StatementsLeft(to) \subseteq StatementsLeft(from)
    BY DEF StatementsLeft
<1>3. Forward
    BY <1>1, <1>2 DEF Forward
<1>4. <<to, t>> \in ToDo
    BY <1>2, AreTasks DEF ToDo
<1>5. <<to, t>> \in Left /\ <<to, t>> \notin Left'
    BY <1>1, <1>2, <1>4 DEF Left
<1> QED
    BY <1>3, <1>5, LeftShrinks

\* Every step of Airflow and its tasks leaves less to do.
LEMMA ProgressStep == IInv /\ Progress => Left' \subseteq Left /\ Left' # Left
<1> SUFFICES ASSUME IInv, Progress PROVE Left' \subseteq Left /\ Left' # Left
    OBVIOUS
<1>1. CASE Scheduler
    BY <1>1, LessByState DEF Scheduler, StartTask, UpstreamFailed
<1>2. ASSUME NEW t \in Tasks, TaskSucceeds(t) PROVE Left' \subseteq Left /\ Left' # Left
    BY <1>2, LessByState DEF TaskSucceeds, Ends
<1>3. ASSUME NEW f \in Folders, Branch(f) PROVE Left' \subseteq Left /\ Left' # Left
  <2> DEFINE verify == <<"verify", f>>
  <2>1. PICK name \in {"initialize", "update"} :
            state' = [state EXCEPT ![verify] = "success", ![<<name, f>>] = "skipped"]
      BY <1>3 DEF Branch
  <2>2. verify \in Tasks /\ <<name, f>> \in Tasks /\ state[verify] = "running" /\ DOMAIN state = Tasks
      BY <1>3, AreTasks DEF Branch, IInv, TypeOK
  <2>3. \A t \in Tasks : state'[t] \in {state[t], "success", "skipped"}
      BY <2>1, <2>2
  <2>4. state'[verify] = "success"
      BY <2>1, <2>2, Apart
  <2>5. Forward
      BY <1>3, <2>3 DEF Branch, Forward, Final
  <2>6. <<"end", verify>> \in Left /\ <<"end", verify>> \notin Left'
    <3>1. \A s : "end" \notin StatementsLeft(s)
        BY DEF StatementsLeft
    <3>2. <<"end", verify>> \in ToDo
        BY <2>2 DEF ToDo
    <3> QED
        BY <2>2, <2>4, <3>1, <3>2 DEF Left, Final
  <2> QED
      BY <2>5, <2>6, LeftShrinks
<1>4. ASSUME NEW t \in HiveTasks, PutServiceState(t) PROVE Left' \subseteq Left /\ Left' # Left
  <2>1. t \in Tasks
      BY AreTasks
  <2>2. CASE Ends(t, "failed") /\ UNCHANGED <<queue, request>>
      BY <1>4, <2>1, <2>2, LessByState DEF PutServiceState, Ends
  <2>3. CASE request' = [request EXCEPT ![t] = "pending"] /\ UNCHANGED state
    <3>1. /\ request'[t] = "pending" /\ \A u \in HiveTasks : u # t => request'[u] = request[u]
          /\ request[t] = "none" /\ UNCHANGED statement
        BY <1>4, <2>3 DEF PutServiceState, IInv, TypeOK
    <3>2. Forward
        BY <2>3, <3>1 DEF Forward
    <3>3. <<"put", t>> \in ToDo /\ \A s : "put" \notin StatementsLeft(s)
        BY <2>1 DEF ToDo, StatementsLeft
    <3>4. <<"put", t>> \in Left /\ <<"put", t>> \notin Left'
        BY <3>1, <3>3 DEF Left
    <3> QED
        BY <3>2, <3>4, LeftShrinks
  <2> QED
      BY <1>4, <2>2, <2>3 DEF PutServiceState
<1>5. ASSUME NEW t \in HiveTasks, RequestCompleted(t) \/ PollTimeout(t)
      PROVE  Left' \subseteq Left /\ Left' # Left
    BY <1>5, AreTasks, LessByState DEF RequestCompleted, PollTimeout, Ends
<1>6. ASSUME NEW t \in CopyTasks, NEW from, Drop(t, from), from \in {"begin", "drop"}
      PROVE  Left' \subseteq Left /\ Left' # Left
  <2>1. CASE Executes(t, from, "create") /\ UNCHANGED state
      BY <1>6, <2>1, LessByStatement DEF Executes
  <2>2. CASE Ends(t, "failed") /\ UNCHANGED <<request, statement>>
      BY <2>2, AreTasks, LessByState DEF Ends
  <2> QED
      BY <1>6, <2>1, <2>2 DEF Drop
<1>7. ASSUME NEW t \in CopyTasks, NEW to \in {"owner", "restore"}, CreateEmpty(t, to)
      PROVE  Left' \subseteq Left /\ Left' # Left
    BY <1>7, LessByStatement DEF CreateEmpty, Executes
<1>8. ASSUME NEW t \in CopyTasks, Executes(t, "restore", "restore"), Ends(t, "success")
      PROVE  Left' \subseteq Left /\ Left' # Left
  <2>1. statement' = statement
      BY <1>8 DEF Executes, IInv, TypeOK
  <2> QED
      BY <1>8, <2>1, AreTasks, LessByState DEF Executes, Ends
<1>9. CASE CopyHiveStep
  <2>1. CopyHive \in CopyTasks
      BY DEF CopyTasks
  <2>2. CASE Executes(CopyHive, "begin", "drop") /\ UNCHANGED <<state, database>>
      BY <2>1, <2>2, LessByStatement DEF Executes
  <2> QED
      BY <1>6, <1>7, <1>8, <1>9, <2>1, <2>2 DEF CopyHiveStep
<1>10. CASE CopyAirflowStep
  <2>1. CopyAirflow \in CopyTasks
      BY DEF CopyTasks
  <2>2. CASE Executes(CopyAirflow, "owner", "restore") /\ UNCHANGED <<state, database>>
      BY <2>1, <2>2, LessByStatement DEF Executes
  <2> QED
      BY <1>6, <1>7, <1>8, <1>10, <2>1, <2>2 DEF CopyAirflowStep, RestoreAirflow
<1> QED
    BY <1>1, <1>2, <1>3, <1>4, <1>5, <1>9, <1>10 DEF Progress, Work, Timeouts

\* Failures, Ambari and the operator do not leave more.
LEMMA OtherStep ==
    ASSUME IInv, \/ \E t \in Tasks : TaskFails(t)
                 \/ AmbariCompletes \/ AmbariFails \/ OperatorStartsHive
                 \/ \E t \in CopyTasks : OperatorCreatesDatabase(t)
    PROVE  Left' \subseteq Left
<1>1. ASSUME NEW t \in Tasks, TaskFails(t) PROVE Left' \subseteq Left
    BY <1>1, LessByState DEF TaskFails, Ends
<1>2. CASE AmbariCompletes \/ AmbariFails
  <2>1. PICK status \in {"COMPLETED", "FAILED"} : Done(status)
      BY <1>2 DEF AmbariCompletes, AmbariFails
  <2>2. \A t \in HiveTasks : request'[t] \in {request[t], status}
      BY <2>1 DEF Done, IInv, TypeOK
  <2>3. Forward
      BY <2>1, <2>2 DEF Done, Forward
  <2> QED
      BY <2>3, LeftShrinks
<1>3. CASE OperatorStartsHive \/ \E t \in CopyTasks : OperatorCreatesDatabase(t)
    BY <1>3 DEF OperatorStartsHive, OperatorCreatesDatabase, Left
<1> QED
    BY <1>1, <1>2, <1>3

(***************************************************************************)
(* A run is a bounded number of steps: with each of them less is left to   *)
(* do, and nothing that happens meanwhile brings anything back.            *)
(***************************************************************************)
THEOREM RunsShrink ==
    Spec => [][/\ Progress => Left' \subseteq Left /\ Left' # Left
               /\ StartRun \/ Left' \subseteq Left]_vars
<1> DEFINE Shrinks == /\ Progress => Left' \subseteq Left /\ Left' # Left
                      /\ StartRun \/ Left' \subseteq Left
<1>1. IInv /\ [Next]_vars => [Shrinks]_vars
  <2> SUFFICES ASSUME IInv, Next PROVE Shrinks
      OBVIOUS
  <2>1. Progress => Left' \subseteq Left /\ Left' # Left
      BY ProgressStep
  <2>2. StartRun \/ Left' \subseteq Left
      BY <2>1, OtherStep DEF Next, Progress
  <2> QED
      BY <2>1, <2>2
<1> QED
    BY <1>1, Invariance, PTL DEF Spec

\* Sets of a few elements are finite.
LEMMA FewAreFinite ==
    ASSUME NEW a, NEW b, NEW c, NEW d, NEW e, NEW f, NEW g
    PROVE  IsFiniteSet({a, b, c, d, e, f, g})
<1>1. IsFiniteSet({a, b})
  <2>1. IsFiniteSet({a}) /\ {a, b} = {a} \cup {b}
      BY FS_Singleton
  <2> QED
      BY <2>1, FS_AddElement
<1>2. IsFiniteSet({c, d}) /\ IsFiniteSet({e, f})
  <2>1. IsFiniteSet({c}) /\ {c, d} = {c} \cup {d} /\ IsFiniteSet({e}) /\ {e, f} = {e} \cup {f}
      BY FS_Singleton
  <2> QED
      BY <2>1, FS_AddElement
<1>3. IsFiniteSet({a, b} \cup {c, d})
    BY <1>1, <1>2, FS_Union
<1>4. IsFiniteSet(({a, b} \cup {c, d}) \cup {e, f})
    BY <1>2, <1>3, FS_Union
<1>5. IsFiniteSet((({a, b} \cup {c, d}) \cup {e, f}) \cup {g})
    BY <1>4, FS_AddElement
<1>6. (({a, b} \cup {c, d}) \cup {e, f}) \cup {g} = {a, b, c, d, e, f, g}
    OBVIOUS
<1> QED
    BY <1>5, <1>6

(***************************************************************************)
(* ... and there is only finitely much to do.                              *)
(***************************************************************************)
THEOREM FiniteRuns ==
    ASSUME IsFiniteSet(Folders)
    PROVE  IsFiniteSet(Left)
<1>1. IsFiniteSet({PreTask, StopHive, DoKinit, CopyHive, CopyAirflow, StartHive})
  <2>1. IsFiniteSet({PreTask, StopHive, DoKinit, CopyHive, CopyAirflow, StartHive, StartHive})
      BY FewAreFinite
  <2> QED
      BY <2>1, Zenon
<1>2. IsFiniteSet({"verify", "initialize", "update", "post_update"} \X Folders)
  <2>1. IsFiniteSet({"verify", "initialize", "update", "post_update",
                     "post_update", "post_update", "post_update"})
      BY FewAreFinite
  <2>2. {"verify", "initialize", "update", "post_update", "post_update", "post_update", "post_update"}
            = {"verify", "initialize", "update", "post_update"}
      OBVIOUS
  <2>3. IsFiniteSet({"verify", "initialize", "update", "post_update"})
      BY <2>1, <2>2
  <2> QED
      BY <2>3, FS_Product
<1>3. IsFiniteSet(Tasks)
    BY <1>1, <1>2, FS_Union DEF Tasks
<1>4. IsFiniteSet(ToDo)
    BY <1>3, FewAreFinite, FS_Product DEF ToDo
<1> QED
    BY <1>4, FS_Subset DEF Left

==============================================================================
