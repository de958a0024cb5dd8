---------------------------- MODULE PreinstallJob -----------------------------
(***************************************************************************)
(* docker/create_dbs_dbaas.py, run by a Kubernetes job before the chart is *)
(* installed: it has DBaaS create the databases, deletes the Secrets of    *)
(* versions that stored connection strings, and grants the Airflow service *)
(* accounts access.  An attempt that ends with an exception, or whose pod  *)
(* dies, is repeated from the start.                                       *)
(***************************************************************************)
EXTENDS Dbaas

CONSTANT MaxAttempts  \* bound: attempts before Kubernetes gives the job up

ASSUME JobAssumption == MaxAttempts \in Nat \ {0}

VARIABLES
    job,        \* what the attempt does next
    attempt,    \* number of the attempt
    oldSecrets, \* Secrets left from an old version
    answered,   \* history: Secrets before whose deletion DBaaS answered
    refusals    \* history: grants that were refused in this attempt

jobVars == <<job, attempt, oldSecrets, answered, refusals>>

Steps == {"pg", "deletePg", "redis", "deleteRedis", "grantPg", "grantRedis"}
OldSecrets == {"metadata-secret", "broker-url-secret"}
Services == {"airflow", "airflow-redis"}

JobTypeOK ==
    /\ job \in Steps \cup {"off", "succeeded", "crashed", "failed"}
    /\ attempt \in 1..MaxAttempts
    /\ oldSecrets \subseteq OldSecrets
    /\ answered \subseteq OldSecrets
    /\ refusals \subseteq Services

JobInit ==
    /\ job = IF cfg.installation = "dbaas" /\ cfg.job THEN "pg" ELSE "off"
    /\ attempt = 1
    /\ oldSecrets = OldSecrets
    /\ answered = {}
    /\ refusals = {}

\* The three top-level statements, in their order.
Grants == cfg.m2m /\ ~cfg.operator
AfterRedis == IF Grants THEN "grantPg" ELSE "succeeded"
AfterPg == IF cfg.celery THEN "redis" ELSE AfterRedis

------------------------------------------------------------------------------
(* create_pg_secret and create_redis_secret: an exception is logged, so    *)
(* that the next statement of the script runs whatever happened.           *)

\* Bug variant: the namespace of the classifier comes from the settings.
PgToCreateElsewhere == Database("postgresql", "other", PgService)
\* Bug variant: the database is named for its type.
RedisToCreateByType == Database("redis", "own", "redis")

\* The classifier of get_pg_database, and of get_redis_database.
PgToCreate == Database("postgresql", "own", PgService)
RedisToCreate == Database("redis", "own", RedisService)

\* A refusal is logged and the Secret deleted all the same; an exception skips
\* the deletion.  A request that failed may have created the database.
RequestDatabase(step, delete, db, next, secret) ==
    /\ job = step
    /\ \/ /\ cfg.operator
          /\ job' = delete
          /\ UNCHANGED <<databases, answered, failures>>
       \/ /\ ~cfg.operator
          /\ databases' = databases \cup {db}
          /\ job' = delete
          /\ answered' = answered \cup {secret}
          /\ UNCHANGED failures
       \/ /\ ~cfg.operator
          /\ Failure
          /\ \/ job' = delete /\ answered' = answered \cup {secret}
             \/ job' = next /\ UNCHANGED answered
          /\ databases' \in {databases, databases \cup {db}}
    /\ UNCHANGED <<cfg, granted, credential, attempt, oldSecrets, refusals>>

\* A Secret that is not there is no error, another error is swallowed by the
\* caller.
DeleteSecret(step, next, secret) ==
    /\ job = step
    /\ job' = next
    /\ \/ oldSecrets' = oldSecrets \ {secret} /\ UNCHANGED failures
       \/ Failure /\ UNCHANGED oldSecrets
    /\ UNCHANGED <<cfg, databases, granted, credential, attempt, answered, refusals>>

\* Bug variant: the Secret is deleted in a finally clause.
CreatePgSecretFinally ==
    \/ RequestDatabase("pg", "deletePg", PgToCreate, "deletePg", "metadata-secret")
    \/ DeleteSecret("deletePg", AfterPg, "metadata-secret")

CreatePgSecret ==
    \/ RequestDatabase("pg", "deletePg", PgToCreate, AfterPg, "metadata-secret")
    \/ DeleteSecret("deletePg", AfterPg, "metadata-secret")
CreateRedisSecret ==
    \/ RequestDatabase("redis", "deleteRedis", RedisToCreate, AfterRedis, "broker-url-secret")
    \/ DeleteSecret("deleteRedis", AfterRedis, "broker-url-secret")

------------------------------------------------------------------------------
(* grant_permissions_for_sas: nothing catches an exception. *)

\* Bug variant: the exception is caught and logged like a refusal.
GrantSwallowing(step, service, next) ==
    /\ job = step
    /\ job' = next
    /\ \/ granted' = granted \cup {service} /\ UNCHANGED <<failures, refusals>>
       \/ Failure /\ UNCHANGED <<granted, refusals>>
    /\ UNCHANGED <<cfg, databases, credential, attempt, oldSecrets, answered>>

\* One policy document for one microservice; a refusal is only logged.
Grant(step, service, next) ==
    /\ job = step
    /\ \/ /\ granted' = granted \cup {service}
          /\ job' = next
          /\ UNCHANGED <<failures, refusals>>
       \/ /\ Failure
          /\ \/ job' = next /\ refusals' = refusals \cup {service}
             \/ job' = "crashed" /\ UNCHANGED refusals
          /\ UNCHANGED granted
    /\ UNCHANGED <<cfg, databases, credential, attempt, oldSecrets, answered>>

\* The second document is sent only if the names differ.
GrantPermissions ==
    \/ Grant("grantPg", PgService, IF cfg.oneService THEN "succeeded" ELSE "grantRedis")
    \/ Grant("grantRedis", RedisService, "succeeded")

------------------------------------------------------------------------------
(* Kubernetes: the pod of the job dies, or its container is started again. *)

JobKilled ==
    /\ job \in Steps
    /\ Failure
    /\ job' = "crashed"
    /\ UNCHANGED <<cfg, databases, granted, credential, attempt, oldSecrets, answered, refusals>>

JobRetried ==
    /\ job = "crashed"
    /\ IF attempt < MaxAttempts
       THEN job' = "pg" /\ attempt' = attempt + 1
       ELSE job' = "failed" /\ UNCHANGED attempt
    /\ refusals' = {}
    /\ UNCHANGED <<dbaasVars, oldSecrets, answered>>

JobSteps == CreatePgSecret \/ CreateRedisSecret \/ GrantPermissions \/ JobRetried
JobNext == JobSteps \/ JobKilled

------------------------------------------------------------------------------
(* Properties. *)

\* The Secret an older version of the chart still reads its connection string
\* from is deleted only after DBaaS has answered the request for the database
\* that replaces it (create_pg_secret: an exception skips the deletion).  The
\* answer may have been a refusal.
OldSecretKeptUntilAnswer ==
    cfg.installation = "dbaas" /\ ~cfg.operator =>
        OldSecrets \ oldSecrets \subseteq answered

\* With token authentication a job that succeeded has granted every policy
\* unless DBaaS refused one: an exception never ends in success, although the
\* same exception is swallowed when a database is created.
SuccessGrants ==
    job = "succeeded" /\ Grants => {PgService, RedisService} \subseteq granted \cup refusals

==============================================================================
