-------------------------------- MODULE Dbaas ---------------------------------
(***************************************************************************)
(* The database service (DBaaS) as the pre-install job and the secrets     *)
(* backend use it, with the settings both read.  The service is not code   *)
(* of this repository: a PUT is idempotent for a type and classifier, and  *)
(* a service account without a policy is refused when it authenticates     *)
(* with its token.                                                         *)
(***************************************************************************)
EXTENDS Integers, FiniteSets

CONSTANTS
    Settings,     \* installations to consider, records of SettingSpace
    MaxFailures,  \* bound: number of failing requests and killed processes
    MaxRotations  \* bound: number of password rotations

SslSettings == {"DISABLED", "ENABLED", "CERT_PATH", "CERT_PATH:system", "other"}

\* read_secret_var_from_file: a file of the mounted folder, or else the
\* environment, or else a default; what came out of it is one setting.
SettingSpace ==
    [installation : {"dbaas", "direct"},  \* create_dbs_dbaas.py or createdb.py
     job : BOOLEAN,         \* the pre-install job runs in this installation
     operator : BOOLEAN,    \* DBAAS_OPERATOR_ENABLED
     m2m : BOOLEAN,         \* DBAAS_M2M_ENABLED is not a negative value
     celery : BOOLEAN,      \* AIRFLOW_EXECUTOR # "KubernetesExecutor"
     oneService : BOOLEAN,  \* PG and Redis have the same microservice name
     replicas : Nat,        \* number of pods
     localFiles : BOOLEAN,  \* LOCAL_FILESYSTEM_BACKEND
     unnamed : SUBSET {"postgresql", "redis"},  \* types whose properties hold no name
     patch : SUBSET {"user", "password"},  \* connection_properties of the Kafka connection
     ssl : SslSettings,     \* DBAAS_SSL_VERIFICATION_MAIN
     tls : BOOLEAN]         \* what DBaaS says about its servers

ASSUME DbaasAssumption ==
    /\ Settings \subseteq SettingSpace
    /\ MaxFailures \in Nat
    /\ MaxRotations \in Nat

VARIABLES
    cfg,         \* the settings of this installation
    databases,   \* databases created by REST: types with classifiers
    granted,     \* microservices whose policy names the Airflow service accounts
    credential,  \* generation of the passwords in force
    failures     \* number of failures so far

dbaasVars == <<cfg, databases, granted, credential, failures>>

PgService == "airflow"
RedisService == IF cfg.oneService THEN "airflow" ELSE "airflow-redis"
Database(type, namespace, service) ==
    [type |-> type, namespace |-> namespace, service |-> service]
AllDatabases ==
    [type : {"postgresql", "redis"}, namespace : {"own", "other"},
     service : {"airflow", "airflow-redis", "conn"}]
NoDatabase == Database("none", "none", "none")

DbaasTypeOK ==
    /\ cfg \in Settings
    /\ databases \subseteq AllDatabases
    /\ granted \subseteq {"airflow", "airflow-redis", "conn"}
    /\ credential \in 0..MaxRotations
    /\ failures \in 0..MaxFailures

DbaasInit ==
    /\ cfg \in Settings
    /\ databases = {}
    /\ granted = {"conn"}  \* the owner of another database has admitted Airflow
    /\ credential = 0
    /\ failures = 0

\* A request is answered with another code than 200 or 201, or not at all.
Failure == failures < MaxFailures /\ failures' = failures + 1

\* A password rotation, or a restore that changes the passwords.
Rotate ==
    /\ cfg.installation = "dbaas"
    /\ credential < MaxRotations
    /\ credential' = credential + 1
    /\ UNCHANGED <<cfg, databases, granted, failures>>

==============================================================================
