---------------------------- MODULE SecretsBackend ----------------------------
(***************************************************************************)
(* DBAASSecretsBackend in the Airflow pods                                 *)
(* (docker/dbaasintegrationpackage/qsdbaasintegration/                     *)
(* dbaas_secrets_backend.py).  A pod reads the connections of its metadata *)
(* database and of its broker when it starts and keeps them; later it asks *)
(* for connections of its tasks.  Every request and every file read is a   *)
(* step of its own.  What Airflow, the kubelet and the dbaas-operator do   *)
(* is external.                                                            *)
(***************************************************************************)
EXTENDS Dbaas, Sequences

CONSTANTS
    Pods,        \* numbers of pods; an installation has its first ones
    MaxMistakes, \* bound: number of keys whose claim is mistaken
    MaxAsks,     \* bound: number of connections tasks ask for
    MaasReplies  \* what MaaS may answer, records of KafkaReplies

\* The keys Airflow asks for.  The last four are connections: pg_conn and
\* redis_conn have a _dbaas entry in the backend's properties, kafka_conn has
\* a _maas entry, file_conn has none.
MainKeys == {"pg_main", "redis_main"}
ConnKeys == {"pg_conn", "redis_conn", "kafka_conn", "file_conn"}
Keys == MainKeys \cup ConnKeys

Protocols == {"SASL_PLAINTEXT", "PLAINTEXT", "SSL", "SASL_SSL"}
Credentials ==
    [type : {"SCRAM", "plain", "other"}, plainPassword : BOOLEAN, user : {"u1", "u2"}]
KafkaReplies == [addresses : SUBSET Protocols, client : Seq(Credentials)]

ASSUME BackendAssumption ==
    /\ Pods \subseteq Nat
    /\ MaxMistakes \in Nat
    /\ MaxAsks \in Nat
    /\ MaasReplies \subseteq KafkaReplies

VARIABLES
    call,     \* call[p]: the key p asks for, its step, the database that
              \* metadata.json named (a local variable), and the last answer
    main,     \* main[p]: what p was answered for each of MainKeys
    claimed,  \* claimed[k]: the database whose Secret is to be mounted for k
    mounted,  \* mounted[k]: the Secret mounted for k, or Absent
    mistaken, \* history: keys for which another database was claimed
    asks      \* number of connections asked for

mountVars == <<claimed, mounted, mistaken>>
backendVars == <<call, main, mountVars, asks>>

\* The properties of a database: whose they are, and their generation.
Properties(database, generation) == [database |-> database, credential |-> generation]
Absent == Properties(NoDatabase, 0)
MountKeys == {"pg_main", "redis_main", "pg_conn"}
\* The charts claim a database for the broker only if there is one.
ClaimedKeys == IF cfg.celery THEN MountKeys ELSE MountKeys \ {"redis_main"}
Type(k) == IF k \in {"redis_main", "redis_conn"} THEN "redis" ELSE "postgresql"

\* Answers: a connection to a database with its generation of the password, the
\* name it is given and how it verifies the server, a Kafka connection, an entry of the local files,
\* None, or an exception.
Modes == {"plain", "require", "verify", "verifyWithCert"}
NoAnswer == [kind |-> "none"]
Raised == [kind |-> "raised"]
Nothing == [kind |-> "nothing"]
Local == [kind |-> "local"]
Answers ==
    {NoAnswer, Raised, Nothing, Local}
    \cup [kind : {"database"}, database : AllDatabases, credential : 0..MaxRotations,
         name : {"given", "None", "prefix"}, mode : Modes]
    \cup [kind : {"kafka"}, protocol : Protocols, mechanism : {"SCRAM-SHA-512", "PLAIN"},
         user : {"u1", "u2", "patched"}, password : {"u1", "u2", "patched"}]

CallSteps == {"idle", "get", "put", "metadata", "properties", "topic"}
Calls == [key : Keys, step : CallSteps, metadata : AllDatabases \cup {NoDatabase}, answer : Answers]
Secrets == [database : AllDatabases, credential : 0..MaxRotations]
BackendTypeOK ==
    /\ call \in [Pods -> Calls]
    /\ main \in [Pods -> [MainKeys -> Answers]]
    /\ claimed \in [MountKeys -> AllDatabases]
    /\ mounted \in [MountKeys -> {Absent} \cup Secrets]
    /\ mistaken \subseteq MountKeys
    /\ asks \in 0..MaxAsks

------------------------------------------------------------------------------
(* What the answers are made of. *)

\* get_connection: without a value the local files are looked up, if the class
\* has them as its base.
Fallback == IF cfg.localFiles THEN Local ELSE Nothing

\* Bug variant: a path of a certificate is not a setting that verifies.
PgModeEnabledOnly ==
    CASE ~cfg.tls -> "plain"
      [] cfg.tls /\ cfg.ssl = "ENABLED" -> "verify"
      [] OTHER -> "require"

\* parse_pg_connection
PgMode ==
    CASE ~cfg.tls -> "plain"
      [] cfg.tls /\ cfg.ssl = "ENABLED" -> "verify"
      [] cfg.tls /\ cfg.ssl \in {"CERT_PATH", "CERT_PATH:system"} -> "verifyWithCert"
      [] OTHER -> "require"

\* get_redis_connection
RedisMode ==
    CASE ~cfg.tls -> "plain"
      [] cfg.tls /\ cfg.ssl \in {"ENABLED", "CERT_PATH:system"} -> "verify"
      [] cfg.tls /\ cfg.ssl = "CERT_PATH" -> "verifyWithCert"
      [] OTHER -> "require"

\* The classifiers in get_pg_database, get_redis_database and get_conn_from_dbaas.
PgDatabase == Database("postgresql", "own", PgService)
RedisDatabase == Database("redis", "own", RedisService)
ConnDatabase(k) == Database(Type(k), "other", "conn")
DatabaseOf(k) ==
    CASE k = "pg_main" -> PgDatabase
      [] k = "redis_main" -> RedisDatabase
      [] OTHER -> ConnDatabase(k)

\* Without a dbName or a name PostgreSQL is given the name "None", Redis the
\* value of DBAAS_REDIS_DB_NAME_PREFIX or "1".
Name(k, database) ==
    CASE database.type \notin cfg.unnamed -> "given"
      [] database.type \in cfg.unnamed /\ Type(k) = "redis" -> "prefix"
      [] OTHER -> "None"

\* get_config and get_conn_value with the properties of a database, whichever
\* it is: what they hold goes into the connection.  Only PostgreSQL connections
\* are made from them.
FromProperties(k, properties) ==
    IF k = "redis_conn" THEN Fallback
    ELSE [kind |-> "database", database |-> properties.database,
          credential |-> properties.credential, name |-> Name(k, properties.database),
          mode |-> IF Type(k) = "redis" THEN RedisMode ELSE PgMode]

\* DBaaS answers with the properties of the database of the classifier.
FromDbaas(k) == FromProperties(k, Properties(DatabaseOf(k), credential))

\* Bug variant: a connection without properties counts as not defined.
WithoutPropertiesNone(k) == Fallback

\* ... and with None, which the parsers index: a TypeError.
WithoutProperties(k) == IF k = "redis_conn" THEN Fallback ELSE Raised

\* parse_kafka_connection takes the first of these protocols that MaaS offers ...
Preference == <<"SASL_PLAINTEXT", "PLAINTEXT", "SSL", "SASL_SSL">>
Protocol(reply) ==
    Preference[CHOOSE i \in 1..4 : /\ Preference[i] \in reply.addresses
                                   /\ \A j \in 1..(i - 1) : Preference[j] \notin reply.addresses]
Supported(c) == c.type # "other" /\ c.plainPassword
\* Bug variant: the loop over the credentials goes on after one it supports.
ExaminedAll(client) == Len(client)

\* ... and goes through the credentials up to the first it supports.
Examined(client) ==
    CHOOSE i \in DOMAIN client : /\ Supported(client[i])
                                 /\ \A j \in 1..(i - 1) : ~Supported(client[j])

Usable(reply) ==
    reply.addresses # {} /\ \E i \in DOMAIN reply.client : Supported(reply.client[i])
\* The password is the one of the credential examined last; what the backend's
\* properties say of the connection replaces what was found.
FromTopic(reply) ==
    IF ~Usable(reply) THEN Fallback
    ELSE LET last == Examined(reply.client)
             i == CHOOSE j \in 1..last : /\ Supported(reply.client[j])
                                         /\ \A l \in (j + 1)..last : ~Supported(reply.client[l])
         IN [kind |-> "kafka", protocol |-> Protocol(reply),
             user |-> IF "user" \in cfg.patch THEN "patched" ELSE reply.client[i].user,
             password |-> IF "password" \in cfg.patch THEN "patched" ELSE reply.client[last].user,
             mechanism |-> IF reply.client[i].type = "SCRAM" THEN "SCRAM-SHA-512" ELSE "PLAIN"]

\* The charts claim, for each key, the Secret of its own database.
Idle == [key |-> "pg_main", step |-> "idle", metadata |-> NoDatabase, answer |-> NoAnswer]
Unread == [k \in MainKeys |-> NoAnswer]
BackendInit ==
    /\ call = [p \in Pods |-> Idle]
    /\ main = [p \in Pods |-> Unread]
    /\ claimed = [k \in MountKeys |-> DatabaseOf(k)]
    /\ mounted = [k \in MountKeys |-> Absent]
    /\ mistaken = {}
    /\ asks = 0

------------------------------------------------------------------------------
(* One call of the backend. *)

\* Connections kept by the pod come from get_config, others are the task's.
Answer(p, answer) ==
    LET k == call[p].key IN
    /\ call' = [call EXCEPT ![p].step = "idle", ![p].answer = answer]
    /\ main' = IF k \in MainKeys THEN [main EXCEPT ![p][k] = answer] ELSE main

GoTo(p, step) ==
    /\ call' = [call EXCEPT ![p].step = step]
    /\ UNCHANGED main

\* Bug variant: in operator mode the main databases are still asked for by REST.
ReadsMountPostgres(k) == cfg.operator /\ k = "pg_conn"

\* In operator mode PostgreSQL and the main Redis come from mounted Secrets.
ReadsMount(k) == cfg.operator /\ k \in MountKeys

Connected(p, k) == main[p][k].kind = "database"
\* Airflow opens a session with it.
Session(p, k) ==
    Connected(p, k) /\ main[p][k].database.type = Type(k) /\ main[p][k].name # "None"
\* What a starting process reads before its tasks ask for anything.
MainNeeded == IF cfg.celery THEN MainKeys ELSE {"pg_main"}

\* get_config, get_connection: a process reads its own databases first.
Ask(p, k) ==
    /\ call[p].step = "idle"
    /\ IF k \in MainKeys
       THEN /\ k \in MainNeeded /\ main[p][k] = NoAnswer
            /\ k = "redis_main" => Connected(p, "pg_main")
            /\ UNCHANGED asks
       ELSE /\ \A m \in MainNeeded : Session(p, m)
            /\ asks < MaxAsks /\ asks' = asks + 1
    /\ call' = [call EXCEPT ![p] =
         [key |-> k,
          step |-> CASE k = "file_conn" -> "idle"
                     [] k = "kafka_conn" -> "topic"
                     [] ReadsMount(k) -> "metadata"
                     [] OTHER -> "get",
          metadata |-> NoDatabase,
          answer |-> IF k = "file_conn" THEN Fallback ELSE NoAnswer]]
    /\ UNCHANGED <<dbaasVars, main, mountVars>>

\* requests_with_correct_auth: basic authentication is always admitted.
Admitted(k) == cfg.m2m => DatabaseOf(k).service \in granted

\* Bug variant: databases are left for the job to create.
GetByClassifierOnly(p) ==
    LET k == call[p].key IN
    /\ call[p].step = "get"
    /\ \/ /\ Answer(p, IF DatabaseOf(k) \in databases /\ Admitted(k)
                        THEN FromDbaas(k) ELSE WithoutProperties(k))
          /\ UNCHANGED failures
       \/ Failure /\ Answer(p, Raised)
    /\ UNCHANGED <<cfg, databases, granted, credential, mountVars, asks>>

\* POST get-by-classifier; whatever it answers but 200 is followed by a PUT.
GetByClassifier(p) ==
    LET k == call[p].key IN
    /\ call[p].step = "get"
    /\ \/ /\ DatabaseOf(k) \in databases /\ Admitted(k)
          /\ Answer(p, FromDbaas(k))
          /\ UNCHANGED failures
       \/ /\ ~(DatabaseOf(k) \in databases /\ Admitted(k))
          /\ GoTo(p, "put")
          /\ UNCHANGED failures
       \/ Failure /\ (GoTo(p, "put") \/ Answer(p, Raised))
    /\ UNCHANGED <<cfg, databases, granted, credential, mountVars, asks>>

\* PUT databases; 200 and 201 carry the properties of the database.  A request
\* that failed may have created it.
CreateDatabase(p) ==
    LET k == call[p].key IN
    /\ call[p].step = "put"
    /\ \/ /\ Admitted(k)
          /\ databases' = databases \cup {DatabaseOf(k)}
          /\ Answer(p, FromDbaas(k))
          /\ UNCHANGED failures
       \/ /\ ~Admitted(k)
          /\ Answer(p, WithoutProperties(k))
          /\ UNCHANGED <<databases, failures>>
       \/ /\ Failure
          /\ Answer(p, WithoutProperties(k)) \/ Answer(p, Raised)
          /\ \/ UNCHANGED databases
             \/ Admitted(k) /\ databases' = databases \cup {DatabaseOf(k)}
    /\ UNCHANGED <<cfg, granted, credential, mountVars, asks>>

\* _read_mounted_properties reads metadata.json ...
ReadMetadata(p) ==
    LET k == call[p].key IN
    /\ call[p].step = "metadata"
    /\ IF mounted[k] = Absent
       THEN Answer(p, WithoutProperties(k))
       ELSE /\ call' = [call EXCEPT ![p].step = "properties", ![p].metadata = mounted[k].database]
            /\ UNCHANGED main
    /\ UNCHANGED <<dbaasVars, mountVars, asks>>

\* Bug variant: the type in metadata.json is not compared.
ReadPropertiesOfAnyType(p) ==
    LET k == call[p].key IN
    /\ call[p].step = "properties"
    /\ Answer(p, FromProperties(k, mounted[k]))
    /\ UNCHANGED <<dbaasVars, mountVars, asks>>

\* ... then connectionProperties.json, which may be that of another Secret by
\* now, and only then compares the type that metadata.json had.  Properties of
\* another type may lack a field that the parsers index.
ReadProperties(p) ==
    LET k == call[p].key IN
    /\ call[p].step = "properties"
    /\ \/ call[p].metadata.type # Type(k) /\ Answer(p, WithoutProperties(k))
       \/ call[p].metadata.type = Type(k) /\ Answer(p, FromProperties(k, mounted[k]))
       \/ /\ call[p].metadata.type = Type(k) /\ mounted[k].database.type # Type(k)
          /\ Answer(p, Raised)
    /\ UNCHANGED <<dbaasVars, mountVars, asks>>

\* get_kafka_conn_from_maas
RequestTopic(p) ==
    /\ call[p].step = "topic"
    /\ \/ \E reply \in MaasReplies : Answer(p, FromTopic(reply)) /\ UNCHANGED failures
       \/ Failure /\ Answer(p, Raised)
    /\ UNCHANGED <<cfg, databases, granted, credential, mountVars, asks>>

------------------------------------------------------------------------------
(* The processes around it. *)

\* The dbaas-operator writes the Secrets, the kubelet swaps the mounted files.
OperatorWrites(k) ==
    /\ cfg.operator /\ k \in ClaimedKeys
    /\ mounted[k] # Properties(claimed[k], credential)
    /\ mounted' = [mounted EXCEPT ![k] = Properties(claimed[k], credential)]
    /\ UNCHANGED <<dbaasVars, call, main, claimed, mistaken, asks>>

\* An upgrade with a mistake: the claim, or the volume, of another database ...
ClaimOther(k, j) ==
    /\ cfg.operator /\ {k, j} \subseteq ClaimedKeys
    /\ Failure
    /\ Cardinality(mistaken \cup {k}) <= MaxMistakes
    /\ claimed[k] # DatabaseOf(j)
    /\ claimed' = [claimed EXCEPT ![k] = DatabaseOf(j)]
    /\ mistaken' = mistaken \cup {k}
    /\ UNCHANGED <<cfg, databases, granted, credential, call, main, mounted, asks>>
\* ... and the upgrade that repairs it.
ClaimRepaired(k) ==
    /\ claimed[k] # DatabaseOf(k)
    /\ claimed' = [claimed EXCEPT ![k] = DatabaseOf(k)]
    /\ UNCHANGED <<dbaasVars, call, main, mounted, mistaken, asks>>

\* A process whose configuration raised ends, and so does one that can open no
\* session with its database, or whose session drops after a rotation; the
\* kubelet starts it again.
Broken(p) ==
    \E k \in MainKeys :
        \/ main[p][k] = Raised
        \/ Connected(p, k) /\ (~Session(p, k) \/ main[p][k].credential # credential)
Restart(p) ==
    /\ call' = [call EXCEPT ![p] = Idle]
    /\ main' = [main EXCEPT ![p] = Unread]
PodRestarts(p) ==
    /\ call[p].step = "idle" /\ Broken(p)
    /\ Restart(p)
    /\ UNCHANGED <<dbaasVars, mountVars, asks>>
PodKilled(p) ==
    /\ Failure
    /\ Restart(p)
    /\ UNCHANGED <<cfg, databases, granted, credential, mountVars, asks>>

\* What a pod does by itself once it is asked for something.
Serve(p) ==
    \/ GetByClassifier(p) \/ CreateDatabase(p)
    \/ ReadMetadata(p) \/ ReadProperties(p) \/ RequestTopic(p)

------------------------------------------------------------------------------
(* Properties. *)

\* However pods and the job race between get-by-classifier and PUT, there is
\* one database for each use: nobody asks with a classifier of its own.
OneDatabasePerUse ==
    databases \subseteq {DatabaseOf(k) : k \in Keys \ {"kafka_conn", "file_conn"}}

\* In operator mode neither the job nor a pod creates by REST a database that
\* the dbaas-operator owns ("the caller never falls back to REST",
\* get_mounted_properties).
OperatorOwnsDatabases ==
    cfg.operator => databases \cap {DatabaseOf(k) : k \in MountKeys} = {}

ForKey(k, answer) ==
    answer.database = DatabaseOf(k) \/ (ReadsMount(k) /\ k \in mistaken)

\* What a pod is connected to is the database of the key it asked for, unless
\* the Secret of another one was claimed for the key: the code compares nothing
\* but the type.  A claim of another type is found out, even if it is made or
\* repaired while a pod reads; only if the Secret whose metadata.json was read
\* gives way to another before connectionProperties.json is read, a connection
\* of the wrong type is made (_read_mounted_properties).
ConnectionIsForKey ==
    \A p \in Pods :
        /\ \A k \in MainKeys : Connected(p, k) => ForKey(k, main[p][k])
        /\ call[p].answer.kind = "database" =>
            /\ ForKey(call[p].key, call[p].answer)
            /\ \/ call[p].answer.database.type = Type(call[p].key)
               \/ call[p].answer.database # call[p].metadata

\* "Using SSL with Connections Received from DBaaS" (docs/public/installation.md):
\* a server with TLS is never talked to without, and its certificate is checked
\* exactly if the setting is ENABLED or CERT_PATH.
TlsHonoured ==
    \A p \in Pods : call[p].answer.kind = "database" =>
        LET mode == call[p].answer.mode IN
        /\ cfg.tls <=> mode # "plain"
        /\ mode \in {"verify", "verifyWithCert"}
            <=> cfg.tls /\ cfg.ssl \in {"ENABLED", "CERT_PATH", "CERT_PATH:system"}

\* A PostgreSQL connection that is configured to come from DBaaS is never
\* silently taken from the local files, or reported as undefined, when the
\* service or the Secret is not there.
NoSilentFallback ==
    \A p \in Pods : call[p].key \in {"pg_main", "redis_main", "pg_conn"} =>
        call[p].answer \notin {Local, Nothing}

\* Of several Kafka credentials, the password that is sent belongs to the user
\* that is sent (parse_kafka_connection assigns the password before it knows
\* whether it supports the credential), unless connection_properties replaces
\* exactly one of the two.
KafkaPasswordOfUser ==
    \A p \in Pods : call[p].answer.kind = "kafka" =>
        \/ call[p].answer.password = call[p].answer.user
        \/ cfg.patch \in {{"user"}, {"password"}}

==============================================================================
