------------------------------- MODULE DrSyncDag ------------------------------
(***************************************************************************)
(* The task graph of the DR synchronisation DAG                            *)
(* (tests_dags_image/dags/dr_sync_folderv2.py) over several folders, with  *)
(* the tasks that stop and start Hive through Ambari and the two that copy *)
(* PostgreSQL databases.  The tasks of a folder only end here, one way or  *)
(* another; DrSyncFolder models what they do.  The Airflow scheduler,      *)
(* Ambari, PostgreSQL and the operator are external.                       *)
(***************************************************************************)
EXTENDS Integers, Sequences, SequencesExt

CONSTANTS
    Folders,      \* DR_FOLDER_LIST
    UseSecurity,  \* DO_KINIT_ON_THE_NODE # "False"
    MaxRuns,      \* bound: number of DAG runs
    MaxFailures   \* bound: number of failures and killed tasks

ASSUME DagAssumption ==
    /\ UseSecurity \in BOOLEAN
    /\ MaxRuns \in Nat
    /\ MaxFailures \in Nat

\* Tasks of the DAG: a name, with a folder for the tasks of a folder.
Once(name) == <<name>>
PreTask == Once("find_correct_ssh_host")
StopHive == Once("stop_hive")
DoKinit == Once("do_kinit")
CopyHive == Once("copy_pg_hive_database")
CopyAirflow == Once("copy_pg_airflow_database")
StartHive == Once("start_hive")
Tasks ==
    {PreTask, StopHive, DoKinit, CopyHive, CopyAirflow, StartHive}
    \cup ({"verify", "initialize", "update", "post_update"} \X Folders)

\* Bug variant: the copies of all folders are collected before post_update_....
FolderWiringJoined(f) ==
    {<<DoKinit, <<"verify", f>>>>, <<<<"post_update", f>>, StartHive>>}
    \cup {<<<<"verify", f>>, <<copy, f>>>> : copy \in {"initialize", "update"}}
    \cup {<<<<copy, g>>, <<"post_update", f>>>> : copy \in {"initialize", "update"}, g \in Folders}

\* Each pair is an upstream task with one of its downstream tasks.
FolderWiring(f) ==
    {<<DoKinit, <<"verify", f>>>>, <<<<"post_update", f>>, StartHive>>}
    \cup {<<<<"verify", f>>, <<copy, f>>>> : copy \in {"initialize", "update"}}
    \cup {<<<<copy, f>>, <<"post_update", f>>>> : copy \in {"initialize", "update"}}
HiveWiring == {<<StopHive, CopyHive>>, <<CopyHive, StartHive>>}
Wiring ==
    {<<PreTask, StopHive>>, <<StopHive, DoKinit>>}
    \cup (UNION {FolderWiring(f) : f \in Folders}) \cup HiveWiring
Upstream(t) == {edge[1] : edge \in {e \in Wiring : e[2] = t}}

\* trigger_rule="none_failed_min_one_success"; the others have all_success.
MinOneSuccess == {PreTask, StopHive, StartHive} \cup ({"post_update"} \X Folders)

VARIABLES
    state,      \* state[t]: state of task t in the current run
    runs,       \* number of the current run; the main site's data has that version
    failures,   \* number of failures so far
    hive,       \* state of the Hive service on the DR site
    queue,      \* Ambari's requests: the state asked for, and the run that asked
    request,    \* request[t]: what Ambari says of the request of t, if it has one
    statement,  \* statement[t]: what the script of a copy task executes next
    database    \* database[t]: the DR database that copy task t replaces

vars == <<state, runs, failures, hive, queue, request, statement, database>>

HiveTasks == {StopHive, StartHive}
CopyTasks == {CopyHive, CopyAirflow}
Final == {"success", "failed", "upstream_failed", "skipped"}

\* A database is missing, created but empty, partly or completely restored.
Missing == [kind |-> "missing", version |-> 0]
Empty == [kind |-> "empty", version |-> 0]
Contents == {Missing, Empty} \cup [kind : {"part", "full"}, version : 0..MaxRuns]

TypeOK ==
    /\ state \in [Tasks -> Final \cup {"none", "running"}]
    /\ runs \in 0..MaxRuns
    /\ failures \in 0..MaxFailures
    /\ hive \in {"STARTED", "INSTALLED"}
    /\ queue \in Seq([target : {"STARTED", "INSTALLED"}, run : 1..MaxRuns])
    /\ request \in [HiveTasks -> {"none", "pending", "COMPLETED", "FAILED"}]
    /\ statement \in [CopyTasks -> {"begin", "drop", "create", "owner", "restore"}]
    /\ database \in [CopyTasks -> Contents]

Init ==
    /\ state = [t \in Tasks |-> "success"]
    /\ runs = 0
    /\ failures = 0
    /\ hive = "STARTED"
    /\ queue = <<>>
    /\ request = [t \in HiveTasks |-> "none"]
    /\ statement = [t \in CopyTasks |-> "begin"]
    /\ database = [t \in CopyTasks |-> [kind |-> "full", version |-> 0]]

------------------------------------------------------------------------------
(* The scheduler. *)

Ended == \A t \in Tasks : state[t] \in Final

\* One run at a time, without retries.
StartRun ==
    /\ Ended
    /\ runs < MaxRuns
    /\ runs' = runs + 1
    /\ state' = [t \in Tasks |-> "none"]
    /\ request' = [t \in HiveTasks |-> "none"]
    /\ statement' = [t \in CopyTasks |-> "begin"]
    /\ UNCHANGED <<failures, hive, queue, database>>

\* Bug variant: start_hive runs when its upstream tasks are done, whatever became of them.
CanRunWhenDone(t) ==
    IF t = StartHive THEN \A u \in Upstream(t) : state[u] \in Final
    ELSE IF t \in MinOneSuccess
    THEN /\ \A u \in Upstream(t) : state[u] \in {"success", "skipped"}
         /\ Upstream(t) # {} => \E u \in Upstream(t) : state[u] = "success"
    ELSE \A u \in Upstream(t) : state[u] = "success"

CanRun(t) ==
    IF t \in MinOneSuccess
    THEN /\ \A u \in Upstream(t) : state[u] \in {"success", "skipped"}
         /\ Upstream(t) # {} => \E u \in Upstream(t) : state[u] = "success"
    ELSE \A u \in Upstream(t) : state[u] = "success"

StartTask(t) ==
    /\ state[t] = "none"
    /\ CanRun(t)
    /\ state' = [state EXCEPT ![t] = "running"]
    /\ UNCHANGED <<runs, failures, hive, queue, request, statement, database>>

\* Under both rules a failed upstream task is enough.
UpstreamFailed(t) ==
    /\ state[t] = "none"
    /\ \E u \in Upstream(t) : state[u] \in {"failed", "upstream_failed"}
    /\ state' = [state EXCEPT ![t] = "upstream_failed"]
    /\ UNCHANGED <<runs, failures, hive, queue, request, statement, database>>

Failure == failures < MaxFailures /\ failures' = failures + 1
Ends(t, outcome) == state[t] = "running" /\ state' = [state EXCEPT ![t] = outcome]
\* A task that is an EmptyOperator has nothing that fails.
MayFail(t) == t # DoKinit \/ UseSecurity

\* An exception or a killed pod, in whatever the task does.
TaskFails(t) ==
    /\ MayFail(t)
    /\ Failure
    /\ Ends(t, "failed")
    /\ UNCHANGED <<runs, hive, queue, request, statement, database>>

\* find_correct_ssh_host, do_kinit and the tasks of a folder but the first.
TaskSucceeds(t) ==
    /\ t \notin HiveTasks \cup CopyTasks \cup ({"verify"} \X Folders)
    /\ Ends(t, "success")
    /\ UNCHANGED <<runs, failures, hive, queue, request, statement, database>>

\* verify_... is a branch: one of its successors is skipped.
Branch(f) ==
    /\ state[<<"verify", f>>] = "running"
    /\ \E skipped \in {"initialize", "update"} :
        state' = [state EXCEPT ![<<"verify", f>>] = "success", ![<<skipped, f>>] = "skipped"]
    /\ UNCHANGED <<runs, failures, hive, queue, request, statement, database>>

------------------------------------------------------------------------------
(* stop_hive and start_hive. *)

\* Bug variant: Ambari's name for a stopped service is another one.
TargetStopped(t) == IF t = StopHive THEN "STOPPED" ELSE "STARTED"

Target(t) == IF t = StopHive THEN "INSTALLED" ELSE "STARTED"

\* The state Hive is in once Ambari has worked off its queue.
Expected == IF queue = <<>> THEN hive ELSE Last(queue).target

\* The PUT; check_response wants 202, which Ambari does not answer when there is
\* nothing to do.
PutServiceState(t) ==
    /\ state[t] = "running" /\ request[t] = "none"
    /\ IF Expected = Target(t)
       THEN Ends(t, "failed") /\ UNCHANGED <<queue, request>>
       ELSE /\ queue' = Append(queue, [target |-> Target(t), run |-> runs])
            /\ request' = [request EXCEPT ![t] = "pending"]
            /\ UNCHANGED state
    /\ UNCHANGED <<runs, failures, hive, statement, database>>

\* Bug variant: the id of the request is not waited for.
RequestAccepted(t) ==
    /\ request[t] # "none"
    /\ Ends(t, "success")
    /\ UNCHANGED <<runs, failures, hive, queue, request, statement, database>>

\* Bug variant: a request that failed is one that ended.
RequestFinished(t) ==
    /\ request[t] \in {"COMPLETED", "FAILED"}
    /\ Ends(t, "success")
    /\ UNCHANGED <<runs, failures, hive, queue, request, statement, database>>

\* check_request_completed
RequestCompleted(t) ==
    /\ request[t] = "COMPLETED"
    /\ Ends(t, "success")
    /\ UNCHANGED <<runs, failures, hive, queue, request, statement, database>>

\* Bug variant: polls for as long as it takes.
PollForEver(t) ==
    /\ FALSE
    /\ UNCHANGED vars

\* After 180 polls; a request that failed is polled like one that is slow, and
\* nothing says how long Ambari takes.
PollTimeout(t) ==
    /\ request[t] \in {"pending", "FAILED"}
    /\ Ends(t, "failed")
    /\ UNCHANGED <<runs, failures, hive, queue, request, statement, database>>

\* Ambari works off one request after the other, also those nobody waits for.
Done(status) ==
    LET t == IF Head(queue).target = "INSTALLED" THEN StopHive ELSE StartHive IN
    /\ queue' = Tail(queue)
    /\ request' = IF Head(queue).run = runs THEN [request EXCEPT ![t] = status] ELSE request
    /\ UNCHANGED <<state, runs, statement, database>>
AmbariCompletes ==
    queue # <<>> /\ hive' = Head(queue).target /\ Done("COMPLETED") /\ UNCHANGED failures
AmbariFails ==
    queue # <<>> /\ Failure /\ Done("FAILED") /\ UNCHANGED hive

------------------------------------------------------------------------------
(* copy_pg_hive_database and copy_pg_airflow_database. *)

Executes(t, from, to) ==
    /\ state[t] = "running" /\ statement[t] = from
    /\ statement' = [statement EXCEPT ![t] = to]
    /\ UNCHANGED <<runs, failures, hive, queue, request>>

\* DROP DATABASE without IF EXISTS ends the script under set -e.
Drop(t, from) ==
    \/ /\ database[t] # Missing
       /\ Executes(t, from, "create")
       /\ database' = [database EXCEPT ![t] = Missing]
       /\ UNCHANGED state
    \/ /\ database[t] = Missing /\ statement[t] = from
       /\ Ends(t, "failed")
       /\ UNCHANGED <<runs, failures, hive, queue, request, statement, database>>

CreateEmpty(t, to) ==
    /\ Executes(t, "create", to)
    /\ database' = [database EXCEPT ![t] = Empty]
    /\ UNCHANGED state

Restored(t, kind) ==
    database' = [database EXCEPT ![t] = [kind |-> kind, version |-> runs]]

\* The dump is written to a file first; whether pg_restore succeeds is not
\* looked at (set +e), so that an incomplete restore ends with success too.
CopyHiveStep ==
    \/ Executes(CopyHive, "begin", "drop") /\ UNCHANGED <<state, database>>
    \/ Drop(CopyHive, "drop")
    \/ CreateEmpty(CopyHive, "restore")
    \/ /\ Executes(CopyHive, "restore", "restore")
       /\ \E kind \in {"full", "part"} : Restored(CopyHive, kind)
       /\ Ends(CopyHive, "success")

\* Bug variant: without --single-transaction, as for Hive.
RestoreAirflowByStatement ==
    /\ Executes(CopyAirflow, "restore", "restore")
    /\ \E kind \in {"full", "part"} : Restored(CopyAirflow, kind)
    /\ Ends(CopyAirflow, "success")

\* pg_dump | pg_restore --single-transaction: a failing dump makes the restore
\* fail, which is the last command and so the task's status (TaskFails).
RestoreAirflow ==
    /\ Executes(CopyAirflow, "restore", "restore")
    /\ Restored(CopyAirflow, "full")
    /\ Ends(CopyAirflow, "success")

CopyAirflowStep ==
    \/ Drop(CopyAirflow, "begin")
    \/ CreateEmpty(CopyAirflow, "owner")
    \/ Executes(CopyAirflow, "owner", "restore") /\ UNCHANGED <<state, database>>
    \/ RestoreAirflow

------------------------------------------------------------------------------
(* The operator between two runs: "check Hive is running on the DR site",  *)
(* "ensure that the database is present on the DR site PG and create it".  *)

OperatorStartsHive ==
    /\ Ended /\ queue = <<>> /\ hive = "INSTALLED"
    /\ hive' = "STARTED"
    /\ UNCHANGED <<state, runs, failures, queue, request, statement, database>>

OperatorCreatesDatabase(t) ==
    /\ Ended /\ database[t] = Missing
    /\ database' = [database EXCEPT ![t] = Empty]
    /\ UNCHANGED <<state, runs, failures, hive, queue, request, statement>>

------------------------------------------------------------------------------
Scheduler == \E t \in Tasks : StartTask(t) \/ UpstreamFailed(t)
Work ==
    \/ \E t \in Tasks : TaskSucceeds(t)
    \/ \E f \in Folders : Branch(f)
    \/ \E t \in HiveTasks : PutServiceState(t) \/ RequestCompleted(t)
    \/ CopyHiveStep
    \/ CopyAirflowStep
Timeouts == \E t \in HiveTasks : PollTimeout(t)

Next ==
    \/ StartRun \/ Scheduler \/ Work \/ Timeouts
    \/ \E t \in Tasks : TaskFails(t)
    \/ AmbariCompletes \/ AmbariFails
    \/ OperatorStartsHive \/ \E t \in CopyTasks : OperatorCreatesDatabase(t)

\* Airflow runs its tasks and a poll ends; nothing fails, is repaired or done by
\* Ambari by necessity, and nothing starts a run.
Fairness == WF_vars(Scheduler) /\ WF_vars(Work) /\ WF_vars(Timeouts)

Spec == Init /\ [][Next]_vars /\ Fairness

------------------------------------------------------------------------------
(* Properties. *)

\* Nobody uses the Hive database while it is dropped and restored: stop_hive has
\* waited for Ambari, and no request of this or of an earlier run, which may have
\* been given up while it was queued, starts Hive meanwhile.
HiveStoppedWhileReplaced ==
    state[CopyHive] = "running" => hive = "INSTALLED" /\ queue = <<>>

\* Hive is started by a run only on what that run copied: all folders and its
\* database, although not necessarily all of the database.
HiveStartsOnThisCopy ==
    state[StartHive] \in {"running", "success"} =>
        /\ \A f \in Folders : state[<<"post_update", f>>] = "success"
        /\ database[CopyHive].kind \in {"full", "part"} /\ database[CopyHive].version = runs

\* Hive is left stopped, or its database missing, only by a run some task of
\* which failed: no run that looks successful does that.
NothingLeftDownSilently ==
    Ended /\ (\A t \in Tasks : state[t] \in {"success", "skipped"}) =>
        hive = "STARTED" /\ \A t \in CopyTasks : database[t].kind \in {"full", "part"}

\* The Airflow database is never restored in part, and a successful task has
\* restored what the main site held in this run.
AirflowCopyAllOrNothing ==
    /\ database[CopyAirflow].kind # "part"
    /\ (state[CopyAirflow] = "success" /\ runs > 0) => database[CopyAirflow] = [kind |-> "full", version |-> runs]

\* A folder that cannot be copied does not keep the others from being copied.
FoldersIndependent ==
    \A f \in Folders : state[<<"post_update", f>>] = "upstream_failed" =>
        \E t \in {PreTask, StopHive, DoKinit} \cup ({"verify", "initialize", "update"} \X {f}) :
            state[t] = "failed"

\* Every run ends, also when Ambari never completes a request.
RunEnds == []<>Ended

==============================================================================
