# Verification of qubership-airflow

This directory holds TLA+ specifications of the programs of this repository that
coordinate something: the Airflow site manager (Go), the disaster recovery (DR)
synchronisation DAG, the code that gives Airflow its databases, and the build of the
transfer image (Python). TLC checks small instances, TLAPS proves theorems for all
instances. Paths are relative to the repository.

## 1. Inventory

| Component | State it keeps | Operations | Interacts with | Hard behaviour | Correct when |
|---|---|---|---|---|---|
| Site manager, `DRManager.ChangeMode` (`site-manager/pkg/disasterrecovery/airflow/manager.go`, `pkg/kubernetes/utils/utils.go`) | per call: two unbuffered channels, two WaitGroups, one shared `err`; in the cluster: `spec.replicas` | standby, disable, active, anything else | DR daemon (caller), Kubernetes API | one goroutine per component, unlocked `err`, callers that stop receiving, API failures, poll timeouts, goroutines that outlive the call | no send on a closed channel; `done` is honest; worker pods go last; every request is answered; old requests do not disturb new ones |
| Site manager, `HealthAirflow` (same file) | none between calls | one GET | Kubernetes API | random map order, several reads of a moving cluster, failing reads | `up` is earned, `down` has a required cause, the documented health in a quiet cluster |
| Site manager process (`main.go`, `configloader.go`) | settings | start server and controller | DR daemon library | restart in the middle of a switch | (external daemon) |
| DR sync DAG, HDFS part (`tests_dags_image/dags/dr_sync_folderv2.py`) | snapshots `snapshot_N` on both sites, the DR folder | `verify_*`, `initialize_*`/`update_*`, `post_update_*` | WebHDFS, distcp over ssh, operator | failure or pod kill between two HDFS calls, distcp that outlives its task, manual repair, check-then-act | snapshots of one number agree; there is always a base to return to; success means a fresh copy; DR never goes back by itself |
| DR sync DAG, Hive and PostgreSQL parts (same file) | Hive service state, DR databases | `stop_hive`, `start_hive`, `copy_pg_*` | Ambari, PostgreSQL | trigger rules over parallel folders, polling, drop before restore | Hive does not stay down silently; a failed dump does not count as a copy |
| DBaaS secrets backend (`docker/dbaasintegrationpackage/.../dbaas_secrets_backend.py`) | none; databases in the aggregator | `get_connection`, `get_config` | DBaaS, MaaS, mounted Secrets | several pods create at once, failures become `None`, two files of one Secret | one database per use, the right one for a key; TLS as set; every pod ends up connected |
| DBaaS pre-install job (`docker/create_dbs_dbaas.py`) | Secrets, databases, policies | one attempt of a retried job | DBaaS, Kubernetes | swallowed and fatal errors, retry after a partial run | an old Secret outlives a failed request; success means that what was not refused is granted |
| createdb pre-install job (`docker/createdb.py`) | database, user, privileges | six autocommitted statements | PostgreSQL | attempts that die between two statements, or overlap | an attempt that ends well leaves everything in place |
| Image version synchroniser, schema generator (`docker-transfer/sync_util.py`, `generate_json_schema.py`) | three `values.yaml`, the schema | statements of an image build | community schema, jsonschema | the order of a list, defaults changed by an earlier program, exceptions at any depth | released tags everywhere; the schema tells the defaults that are set |
| rclone DAG sync (`rclone-image/entrypoint.sh`) | archive, unpacked folder, DAG volume | endless loop | remote storage, DAG processor | ignored errors, removed files | the volume holds one published version |
| Logging configuration, Keycloak and IDP authentication, Helm chart, example DAGs, integration tests | – | stateless or declarative | – | – | not modelled, see section 7 |

The site manager and the DR DAG run on the same platform but share no state; the
site manager's two entry points share only the cluster. The pre-install job and the
secrets backend do not call each other, but they must agree: the backend asks for the
databases, with the classifiers and under the policies, that the job has created. The
two programs of the image build share `values.yaml`.

## 2. Modules

| Module | Models | Uses |
|---|---|---|
| `ComponentStatus` | `getComponentStatus`, `isComponentUp` | – |
| `Cluster` | the namespace as the site manager sees it (external) | – |
| `SiteManager` | `ChangeMode` and its goroutines | `Cluster`, `ComponentStatus` |
| `AirflowHealth` | `HealthAirflow`, `getAirflowStatus` | `Cluster`, `ComponentStatus` |
| `Replica` | abstract specification: a copy that only becomes newer | – |
| `DrSyncFolder` | the HDFS part of the DR DAG for one folder | `Replica` (refinement) |
| `DrSyncDag` | the task graph of the DR DAG, Hive and PostgreSQL | – |
| `Dbaas` | the database service and the settings (external) | – |
| `PreinstallJob` | `create_dbs_dbaas.py` | `Dbaas` |
| `SecretsBackend` | `DBAASSecretsBackend` in several pods | `Dbaas` |
| `CreateDb` | `createdb.py` | `Dbaas` |
| `Bootstrap` | composition: hook, pods, operator | `PreinstallJob`, `SecretsBackend`, `CreateDb` |
| `Documents` | YAML and JSON documents as functions of paths | – |
| `ImageSync` | `sync_util.py` | `Documents` |
| `SchemaGenerator` | `generate_json_schema.py`, function by function | `Documents` |
| `Delivery` | composition: the image build | `ImageSync`, `SchemaGenerator` |
| `DocumentProofs` | lemmas about paths | `Documents`, TLAPS |
| `SiteManagerProofs`, `SiteManagerReliableProofs`, `AirflowHealthProofs`, `DrSyncFolderProofs`, `DrSyncDagProofs`, `BootstrapProofs`, `DeliveryProofs` | theorems about the module of that name | that module, TLAPS |
| `MC*` | constants for TLC | – |

### SiteManager

One call of `ChangeMode` is a request `r`; all its program counters are indexed by `r`
because goroutines of an answered request can go on while the next one runs.

* `main[r]` is the caller: `Request` (the switch statement), `ReceiveScale`,
  `ScaleLoopEnds`, `StoreScaleErr` (first range loop), `CheckScaleErr` (`if err == nil`),
  `ReceiveWait`, `ReceiveWorkersErr`, `WaitLoopEnds`, `StoreWaitErr` (second loop),
  `Answer`. A receive is one step with the send, as on an unbuffered channel; `break`
  leaves the other senders behind.
* `bg[r]` is the background goroutine and the goroutine it starts, which never run at
  the same time: `ListDeployments`, `ListStatefulSets`, `ScaleStatefulSets`,
  `JoinScalers` (`wgScale.Wait(); close`), `ListStatefulSetsAgain`,
  `WaitForStatefulSets`, `JoinWaiters`, `ListWorkers`, `DeleteWorker`, `WorkersDeleted`.
* `scaler[r][c]`: `GetObject`, `UpdateReplicas`; `waiter[r][c]`: `Poll`.
* `err[r]` is the named result. `if x, err = f(); err == nil` is an assignment
  (`AssignListErr`) and a read of its own (`readErr`), because the caller may assign in
  between. Reads and writes of the interface value are taken as atomic.
* An API call may fail while `failures < MaxFailures`. A failed update may have been
  applied. A failed pod listing makes a component "not up".
* The branches for scale up and scale down are the same code with other names; they are
  one set of actions with `mode[r]` choosing `Target`, `ScaledAsAsked` and whether workers
  are deleted.

A poll decides at an arbitrary moment: `Poll` succeeds if the condition holds, and
otherwise times out; a condition evaluated in vain before changes nothing.

### AirflowHealth

`HealthRequest`, then `CheckComponent`/`SkipWorker` in any order (map iteration),
`LoopEnds`, then flower and statsd (`CheckOptional`/`SkipOptional`). Each step is one
API call; `ClusterMoves` and failing calls come in between. `product` is abstracted to
the four verdicts: the loop stops at 0 and below, so only 1 and "some power of 10000" are
ever multiplied. `seen` and `stable` are history variables.

### DrSyncFolder

Contents of folders and snapshots are abstracted to a whole version, part of a version,
or a mixture. `task` is what the DAG run does next; each HDFS call that changes something
is an action and `TaskFails` may end the run before any of them. `max_active_runs=1`
makes one `task` variable enough. `Copied`, `PartlyCopied` and `Patched` are what
`distcp -update` and `distcp -diff` do to the DR folder; `-diff` demands an unmodified
target. `CopyOrphaned`, `LeftoverWrites` and `LeftoverEnds` are a distcp whose pod was
killed. `OperatorStartsOver`, `OperatorRestores` and `OperatorClears` are the repairs of
`docs/public/dr-sync-dag.md`. The comparison in `post_update_*` looks at top-level names
only, so it may pass for different contents.

### DrSyncDag

One DAG run after the other; `state[t]` is Airflow's state of a task. `Wiring` is the
graph the module-level code builds, per folder and for Hive; `CanRun` and
`UpstreamFailed` are the two trigger rules it uses. What the tasks of a folder do is
`DrSyncFolder`'s matter: here they succeed, fail (`TaskFails`), or are skipped by the
branch (`Branch`, `task2`).

* `PutServiceState` is the PUT with `check_response`: Ambari answers 202 only if there is
  something to do, so a second stop of a stopped Hive fails. `RequestCompleted` and
  `PollTimeout` are the two ends of the loop in `check_request_completed`.
  `AmbariCompletes` and `AmbariFails` work off `queue`, where a request that was given up
  stays; a later run meets it.
* `Drop`, `CreateEmpty`, `CopyHiveStep`, `CopyAirflowStep` are the statements of the two
  scripts. The Hive script ignores the exit status of `pg_restore`, the Airflow script
  restores in one transaction. A dump that fails is `TaskFails`.
* `OperatorStartsHive` and `OperatorCreatesDatabase` are the documented repairs between runs.

### Dbaas, PreinstallJob, SecretsBackend, CreateDb, Bootstrap

`cfg` holds the settings of one installation; it is chosen in `Init` and never changes.
`databases` are what has been created by REST, `granted` the microservices whose policy
names Airflow's service accounts, `credential` the generation of the passwords. Two
settings are about what the services answer: the types of database whose properties hold
no name (`unnamed`), and which of user and password the `connection_properties` of the
Kafka connection replace (`patch`). A request that fails may have created its database.

* `PreinstallJob`: `RequestDatabase` and `DeleteSecret` are `create_pg_secret` and
  `create_redis_secret`; an exception in either goes on with the next statement of the
  script, and one from the request skips the deletion. `Grant` is
  `grant_permissions_for_sas`, where an exception ends the attempt. `JobRetried` starts
  again from the first statement.
* `SecretsBackend`: `call[p]` is the request pod `p` is in. `Ask` is the entry
  (`get_config` for the two databases a process needs to start, `get_connection` for
  those of its tasks), `GetByClassifier` and `CreateDatabase` are the POST and the PUT,
  `ReadMetadata` and `ReadProperties` the two files of a mounted Secret, `RequestTopic`
  MaaS. An answer says which database, which password generation, under which name
  (`Name`: given, the string `None`, or the prefix) and how the server is verified;
  `Raised` is the exception that a parser given `None` ends with, `Local` and `Nothing`
  are the base class with and without local files.
* A mounted Secret is the properties of some database. `claimed[k]` is the database whose
  Secret the charts ask for under key `k`; `ClaimOther` is an upgrade with a mistake in a
  `DatabaseSecretClaim` or a volume, of the same or of another type, `ClaimRepaired` the
  upgrade that repairs it, at any moment. `OperatorWrites` is the dbaas-operator and the
  kubelet swapping the mounted files. `ReadMetadata` keeps what `metadata.json` names in
  the call, `ReadProperties` reads whatever is mounted by then and compares the type that
  was read first: so a Secret of another type is found out, one of the same type is not,
  nor is one that replaces the first between the two reads. The connection is to the
  database whose properties were read. `PodRestarts` and `PodKilled` are the pods around.
* `CreateDb`: one step per statement and attempt; `Create` ends with an exception if an
  overlapping attempt was faster.
* `Bootstrap`: pods ask only after the hook has passed. A setting selects one of the two
  jobs, so the two never run in one installation.

### Documents, ImageSync, SchemaGenerator, Delivery

A document is a function from the paths of its nodes to the nodes, so a program that
walks down a nested dict becomes a statement about every path: what is below (`Part`),
what is above (`SubSeq(p, 1, n)`), where a descent ends (`Outermost`: at the first default it
meets). A scalar is a node; a string `name:tag` is a node of its own kind. A schema maps
the path of each parameter to whether it has properties, its default and its `$ref`.

* `ImageSync`: `UpdateNode` sets the tag of a map by the last of `NamesTried` that is released,
  and replaces strings. `UpdateRaises` are the documents on which it ends with an
  exception.
* `SchemaGenerator`: `Reuse1` is the body of the loop of `reuse_existing_params`; it copies
  what is below the parameter, or the definition a bare `$ref` names (`Inlined`), and what is
  on the way to it without its properties. `UpdateDefaults` with `CompareRaises` is the body of
  the loop of `update_defaults_for_existing_schema`, the recursion of
  `compare_complex_element` included. `DeepMerge` is `deep_merge_schema_properties`: an element
  of the base survives unless an overriding element at or above it lacks properties, or the
  base's does (`KeptInMerge`). `PropertyMissing` and `DefaultDiffers` are the validations.
* `Delivery` runs them in the order of the Dockerfile: `SyncFile` for one document after the
  other, `Reuse` and `Update` for one parameter of the list after the other (`EndOfList`,
  `Raise`), then `AddQubershipCustomSchema`, `Validate` (external, may reject),
  `ValidatePropertiesInDefaults`, `ValidateDefaults`. `DownloadFails` is an exception before the
  first parameter.

## 3. Runs

| Run | Instance | Shows |
|---|---|---|
| `sm_faults` | 2 Deployments, 1 StatefulSet, 2 worker pods, 1 request of any mode, 2 failing calls | safety of the channel protocol; `done` is honest |
| `sm_reliable` | 1 Deployment, 1 StatefulSet, 1 worker pod, 2 requests, no failing calls, fairness | answers, effects, and independence of consecutive requests |
| `sm_degraded` (violation) | 2 schedulers, 1 request | worker pods are deleted while a scheduler still runs |
| `sm_masked` (violation) | 1 failing call | a listing overwrites `err`; `done` without having scaled |
| `sm_hang` (violation) | 1 failing call, fairness | `ChangeMode` never returns |
| `health` | 4 installed components, two of them optional, flower absent, 1 worker pod, 1 failing call | what each answer guarantees |
| `health_docs` (violation) | the same, no failing call | the answer depends on map order and on executor pods |
| `dr_folder` | 4 runs, 4 snapshot numbers, 3 changes on the main site | the DR site implements `Replica`; agreement, base, freshness |
| `dr_leftover` (violation) | the same with 2, 2, 2, and runs that may start while a distcp goes on | a run succeeds with a mixture |
| `dr_dag` | 2 folders, 2 runs, 1 failure or killed task, Ambari arbitrarily slow, fairness | what a run may leave down or half copied; every run ends |
| `bootstrap` | 9 settings, 2 pods, 2 attempts of the job, 2 overlapping createdb scripts, 2 failures, 1 rotation, 1 connection of a task, fairness | the job and the pods agree on databases; what answers mean; every pod ends up connected |
| `delivery` | the 26244 combinations of 3 releases, 27 charts, 9 community schemas, 6 lists of parameters, 6 additional schemas | what a build that succeeds has published |

Why the bounds are enough. The races of `ChangeMode` need one goroutine that fails, one
that is left behind and one StatefulSet listing: three components and two failures have
all of them at once. Leftovers of one request and the next need two requests. With two
worker pods there is a last one and one before it, which the code reports differently.
Health needs a required component that is degraded, another that is down, one optional
component and one that is not installed. A snapshot number is reused or leaked after at
most two runs; four leave room for a failure, a repair and a success after it.

A request of Ambari that was given up disturbs the next run, so two runs are needed; with
one failure either of two folders fails alone. The settings of `bootstrap` give every
setting each of its values and combine those the code branches on together (operator mode
with token authentication, token authentication with one or two service names, and
without a job); TLS is varied along with them because nothing else depends on it. Two
failures are enough for a job whose first attempt leaves half its work and whose second
is disturbed too, and two pods for the race between POST and PUT; a rotation may come at
any moment. One mistaken claim is enough because the claims of different keys meet in nothing but
the key they are made for. In operator mode one pod is: pods then share no request
that creates anything, only files none of them writes (the theorems are for any number).
`MCDelivery` has every form of an image name, elements with defaults at
each depth, `$ref`s to a definition with and without properties or to one that has a `$ref`
itself, and lists in which a part precedes the whole.

`CHECK_DEADLOCK FALSE` is used where the system may really stop: after the last of a
bounded number of requests or runs, when an installation has failed or all its pods are
up, when a build has ended. The other runs check deadlock.

### Disagreements with the documentation

1. `sm_degraded`: `waitForComponentToScaleDown` (manager.go:412) is content as soon as a
   component is not *up*; one lost pod out of two is enough. The documentation promises
   worker pods are deleted after everything is scaled to 0.
2. `sm_masked`: `ListStatefulSets` (manager.go:200, 224) assigns the same `err` in which the
   caller has just stored a failure.
3. `sm_hang`: when `ListDeployments` fails (manager.go:190) nobody closes the channels.
4. `health_docs`: map order decides between `down` and `degraded` (manager.go:120).
5. `dr_leftover`: `post_update_*` does not notice differing contents
   (dr_sync_folderv2.py:405-417).

The properties of the passing runs say what remains true around these: `HonestDone` and
`WorkersDeletedLast` name the overwritten error (`masked`), and the latter one more way
around the documented order ("worker pods are deleted after all Airflow components are
scaled to 0", `docs/public/airflow-site-manager.md:48`): when the second listing of
StatefulSets fails (manager.go:224), their waiters never start and the pods are deleted
although nobody waited for a StatefulSet; all the code keeps of it is the error in `err`.
`ConnectionIsForKey` names the two ways a mounted Secret of another database is taken.
`AnswersAsDocumentedIfPlain` names exactly when the documented health is answered, and
`dr_folder` assumes only that a leftover distcp is gone before the next run.

## 4. Fairness

`FairSpec` of `SiteManager` has weak fairness for the caller, for the background goroutine
and for every scaler and waiter: the Go scheduler runs every goroutine that can proceed,
API calls return, and `wait.Poll` ends by its timeout at the latest. Nothing is assumed of
the cluster (pods need not become ready) or of the daemon (it need not send a request).

`Spec` of `DrSyncDag` has weak fairness for the scheduler, for the steps of running tasks
and for the end of a poll: Airflow runs what can run, the scripts have no endless loop, and
180 polls end. Ambari need not do anything, which is why `RunEnds` needs the bound of the
poll. Nothing is assumed about failures, repairs, or the start of a run.

`Spec` of `Bootstrap` has weak fairness for the job, for pods, for Secrets and for scripts
– for some pod, not for each: a pod that can go on is never overtaken for ever, because
what the other can do without being asked is bounded. Kubernetes repeats a job and
restarts a container, the operator writes the Secrets it is asked for. No task need
ask, nothing need fail or rotate. `PodsConnect` excuses what no retry repairs: a hook that
gave up, a policy that was refused (the job only logs that) or that nobody asked for
because there is no job, a main database whose claim has the wrong type and is not
repaired, and a PostgreSQL database without a name (a pod then connects to a database
called `None`). A mistaken claim of the right type does not keep a pod from being up: the
code cannot tell, and `ConnectionIsForKey` says so.

`Delivery` has only safety properties, about builds that succeed.

## 5. Proofs

All theorems hold for every value of the constants that satisfies the named assumptions
of the modules: any components, pods, folders, settings, replies, numbers of requests,
runs, failures. Each proof module states one inductive invariant `IInv`, proves it with a
lemma per action, and derives the properties from it. No property about several steps is
inductive by itself; what `IInv` adds is named below.

**`SiteManagerProofs`**: `TypeInvariance` and the four safety properties of `sm_faults`
(`ChannelSafety`, `DoneIsHonest`, `WorkersGoLast`, `LeftBehind`). `IInv` adds, per
request: `Lifecycle` (which states of the caller and the background goroutine go
together), `Joined` (which goroutines have been started or have ended at each state of the
background goroutine – this is what the WaitGroups achieve), `StoppedListening` (the
caller leaves a loop early only after a failure, and at most one waiter can have failed),
and `Unmasked` (as long as no error was overwritten, `err = nil` means that nothing has
failed so far, and a waiter ends only after all scalers delivered). A frame lemma covers
steps that leave a request alone, another what a listing does to `err`.
`HangsOnlyWhen`, `GaveUpForGood`, `RequestsShrink` and `FiniteWork` say why a request is
answered, or is not. `CanGoOn` spells out when a step of the caller, of the background
goroutine or of a goroutine per component is enabled. A caller that waits can count on one
of them except in two cases: the listing of Deployments failed (`GaveUp`, for good:
this is what `sm_hang` finds), or the caller listens to the second channel while a scaler
still sends on the first (`Misled`: a StatefulSet listing has masked the error that ended
the first loop). And no goroutine goes round in circles: what is left of all requests
(`Left`, a finite set) loses an element with every step of the site manager, and cluster
steps do not add to it.

**`SiteManagerReliableProofs`**, under `MaxFailures = 0`: `DoneIsScaled` and
`LatestScales`. The assumption is the point: `sm_masked` shows that one failing call
breaks the first. `RInv` adds that without failures every scaler is started and
delivers (`Reliable`), so that no goroutine outlives its request, and that what the latest
request delivered is what the cluster holds (`Applied`).

**`AirflowHealthProofs`**: `TypeInvariance`, `UpEarned`, `DownIsCaused`, `PlainAnswers`.
`IInv` says what `product` and `status` know about the components visited so far, in
whatever order (`Product`, `Status`, `Optionals`), and that in a quiet cluster what was
seen is what there is (`Quiet`).

**`DrSyncFolderProofs`**: `TypeInvariance` and `CommonBase` hold whatever a distcp that
outlived its task does. `Agreement`, `Freshness` and `Refinement` assume `KillFirst`, that
it is gone before the next run; `dr_leftover` shows that this is necessary. `Snapshots` says
which snapshots exist at each task, `Newer` what cannot be newer than what, `Held` what
the DR folder contains. `Refinement` is `Spec => IsReplica`: initial states map to initial
states, and each step to a step of `Replica` or a stutter.

**`DrSyncDagProofs`**: `TypeInvariance`, `HiveIsStopped`, `HiveStartsOnCopy`,
`NothingLeftDown`, `AirflowCopy`, `FolderIndependence`. The core is `Queued`: Ambari works
in order, so while `copy_pg_hive_database` runs, the completed stop request was the last in
the queue, and requests of earlier runs were before it. `Graph` is what the trigger rules
make of task states, `Requests` and `Service` tie tasks to requests and requests to Hive.

**`BootstrapProofs`**: `TypeInvariance` and all nine safety properties of `bootstrap`.
`IInv` says per component what it has done by the time it comes to a step (`JobInv`,
`BackendInv`, `ScriptInv`), and defines for each key the answers that are right
(`Right`); that the parsers give only such answers is proved once per parser.
`MountsInv` ties mounts to claims: what is mounted for a key is the Secret of its own
database unless the key was once claimed for another (`mistaken`). `Compared` ties the
answer to what the call remembers of `metadata.json`; `RightDatabase` needs both.

**`DeliveryProofs`**: `Invariance`, `ReleasedTags`, `DefaultsAgree`, `KeptPublished`, from
`DeliveryAssumption`: the inputs are documents and schemas (a node with something below it is
a map or a list, an element with something below it has properties), every `$ref` of the
community schema resolves, and an element of the additional schema has a default or
properties. There is no induction over data: a document is a function of paths, and the
loops of the program are steps, so the inductive invariant carries them. `Files` says which
documents are up to date. `Building` follows the schema: an element that has properties in the
community schema has some here (`LikeCommunity`: otherwise the next parameter inside it
would end with an exception, or be lost), each element is there because of an earlier entry
of the list that overlaps it (`Explained`), and nothing is missing below an element unless
it is on the way to an earlier entry (`Complete`) – so that a parameter which is found there
already need not be copied –, what is promised is there and what is there was selected (`Kept`); after that, which entries have their defaults (`DefaultsSet`; an
entry inside another one must not undo it). `Checking` is about the merged schema and what the
validations have ruled out. `DocumentProofs` has the lemmas about paths: prefixes are an
order, the prefixes of one path are a chain, and joining keeps both.

Model-checked only: the liveness properties `EveryRequestAnswered`, `RequestTakesEffect`,
`RunEnds`, `PodsConnect` and `CreateDbEnds`: liveness under fairness needs ENABLED, which is
out of the prover's reach. For `RunEnds` and for `EveryRequestAnswered` the theorems above
prove the rest of the argument for every value of the constants: something can always be
done, and only finitely much is left. That the spelled-out conditions `CanGoOn` are the
enabling conditions of the actions is by reading the guards; TLC compared the two on small
instances.

## 6. Plan

Done, in this order: `SiteManager`, `AirflowHealth`, `DrSyncFolder` with its refinement;
`Bootstrap` and its parts; `DrSyncDag`; `Delivery`; theorems for every safety property
of all of them; and why the runs of `DrSyncDag` and the requests of `SiteManager` get on.
Still open: the same for `Bootstrap` (`PodsConnect`, `CreateDbEnds`). Candidates if the code
grows: a composition of `DrSyncFolder` below `DrSyncDag` (their only common state is the
outcome of a folder, so it would check nothing that the two do not), and the mapping of
Keycloak claims to roles as a pure function.

## 7. Not modelled

* The disaster recovery daemon (another repository): it calls `ChangeMode` again only when
  the previous call has returned; restarts of the site manager depend on it.
* Torn reads of the Go interface value `err`. The code only asks whether it is nil, which
  depends on one machine word of it, so every read the model needs is one of the values
  that were written.
* The value of the `error` that `ChangeMode` returns next to the answer.
* Components the replica settings do not mention; they are scaled to 0 and never up.
* `main.go`, environment parsing and helpers nobody calls.
* `rclone-image/entrypoint.sh`: a loop whose every step is rclone or unzip and whose only
  state is theirs. What a reader of the volume sees in between, and what a failed
  download leaves behind, is decided by them; a model would consist of assumptions about
  external programs. Its hazards are listed without a property.
* Secrets backend: `get_variable` and key files, which are plain reads; the string forms of
  connections; the fields of `connection_properties` other than user and password; Secrets
  that are incomplete after they were complete; how libpq treats a certificate path of the system store. The path of
  get-by-classifier names the caller's namespace and its body the database's; the service
  resolves the two. The job reads `DBAAS_OPERATOR_ENABLED` as `== "true"` and the backend
  as one of several positive values; the chart renders `true`, so they are one setting.
* Image build: `x-docsSection`, renaming of `$ref`s, types, descriptions and
  `additionalProperties`, which only jsonschema reads. It is assumed that an element of
  the additional schema has a default or properties, not both, as in the file of the
  repository, and that `registry`, `repository` and `tag` are scalars. A definition is compared
  as far as its fields; what is below those may raise an exception too (`CompareMayRaise`), and
  that defaults there are changed within the published definitions is left out. An element
  on the way to a kept parameter may keep a default of the community chart. What the code
  does with entries of the list that are inside one another is modelled and stated
  (`KeptParametersPublished`): an entry that comes after one of its parts is not copied,
  so of it only what is on the way to such parts, and below those copied whole, is
  published; and an additional element without properties replaces what is below it.
* DR DAG: wording of commands, kinit, the choice of the ssh host.
* The Helm chart (declarative); the logging configuration and Keycloak and IDP
  authentication (stateless); Trino, sleeping and example DAGs, the deprecated first
  version of the DR DAG, and tests.
