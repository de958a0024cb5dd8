---------------------------- MODULE BootstrapProofs ----------------------------
(***************************************************************************)
(* Proofs about Bootstrap, for any settings, pods, attempts, replies of    *)
(* MaaS, failures and rotations.                                           *)
(***************************************************************************)
EXTENDS Bootstrap, WellFoundedInduction, TLAPS

------------------------------------------------------------------------------
(* The inductive invariant. *)

\* The job: what it has done by the time it comes to a step.
JobInv ==
    /\ JobTypeOK
    /\ ~cfg.operator =>
        /\ OldSecrets \ oldSecrets \subseteq answered
        /\ job = "deletePg" => "metadata-secret" \in answered
        /\ job = "deleteRedis" => "broker-url-secret" \in answered
    /\ job = "grantRedis" => PgService \in granted \cup refusals
    /\ SuccessGrants

\* The databases that exist.
DatabasesInv == DbaasTypeOK /\ OneDatabasePerUse /\ OperatorOwnsDatabases

\* The answers that are right for a key.
Right == [k \in Keys |-> {a \in Answers :
    /\ a.kind = "database" =>
        /\ ForKey(k, a)
        /\ cfg.tls <=> a.mode # "plain"
        /\ a.mode \in {"verify", "verifyWithCert"}
            <=> cfg.tls /\ cfg.ssl \in {"ENABLED", "CERT_PATH", "CERT_PATH:system"}
    /\ k \in MountKeys => a \notin {Local, Nothing}
    /\ a.kind = "kafka" => a.password = a.user \/ cfg.patch \in {{"user"}, {"password"}}}]

\* An answer of another type is not the database that metadata.json named.
Compared(key, metadata, answer) ==
    answer.kind = "database" =>
        answer.database.type = Type(key) \/ answer.database # metadata

\* The mounts: a database other than the key's is there by mistake.
MountsInv ==
    \A k \in MountKeys :
        /\ claimed[k] = DatabaseOf(k) \/ k \in mistaken
        /\ mounted[k] # Absent => mounted[k].database = DatabaseOf(k) \/ k \in mistaken
        /\ ~cfg.operator => mounted[k] = Absent

\* The backend: where a call gets its answer from, and that answers are right.
BackendInv ==
    /\ BackendTypeOK
    /\ MountsInv
    /\ \A p \in Pods :
        /\ call[p].answer \in Right[call[p].key]
        /\ Compared(call[p].key, call[p].metadata, call[p].answer)
        /\ call[p].step # "idle" => call[p].answer = NoAnswer
        /\ \A k \in MainKeys : main[p][k] \in Right[k]
        /\ call[p].step \in {"get", "put"} =>
            /\ call[p].key \notin {"kafka_conn", "file_conn"}
            /\ cfg.operator => call[p].key \notin MountKeys
        /\ call[p].step \in {"metadata", "properties"} => call[p].key \in MountKeys
        /\ call[p].step = "properties" => mounted[call[p].key] # Absent
        /\ call[p].step = "topic" => call[p].key = "kafka_conn"

\* The script: what exists on the server by the time it comes to a statement.
ScriptInv ==
    /\ CreateDbTypeOK
    /\ \A a \in Attempts :
        /\ script[a] \in {"checkUser", "createUser", "grant", "own", "done"} => server.db
        /\ script[a] \in {"grant", "own", "done"} => server.user
        /\ script[a] \in {"own", "done"} => server.granted
        /\ script[a] = "done" => server.owned

IInv == JobInv /\ DatabasesInv /\ BackendInv /\ ScriptInv

------------------------------------------------------------------------------
(* The settings, and the answers they lead to. *)

\* The settings of an installation are of their types.
LEMMA SettingTypes ==
    ASSUME DbaasTypeOK
    PROVE  /\ cfg.installation \in {"dbaas", "direct"}
           /\ cfg.operator \in BOOLEAN /\ cfg.m2m \in BOOLEAN /\ cfg.celery \in BOOLEAN
           /\ cfg.oneService \in BOOLEAN /\ cfg.localFiles \in BOOLEAN
           /\ cfg.tls \in BOOLEAN /\ cfg.job \in BOOLEAN
           /\ cfg.ssl \in SslSettings /\ cfg.patch \subseteq {"user", "password"}
  BY DbaasAssumption DEF DbaasTypeOK, SettingSpace

\* The classifiers of the backend are those of databases.
LEMMA Classifiers ==
    ASSUME NEW k \in Keys
    PROVE  DatabaseOf(k) \in AllDatabases
  BY DEF DatabaseOf, PgDatabase, RedisDatabase, ConnDatabase, Database, AllDatabases, Keys,
         MainKeys, ConnKeys, PgService, RedisService, Type

\* A database has the type of its key.
LEMMA TypesOfKeys ==
    ASSUME NEW k \in Keys
    PROVE  DatabaseOf(k).type = Type(k)
  BY DEF DatabaseOf, PgDatabase, RedisDatabase, ConnDatabase, Database, Type, Keys, MainKeys,
         ConnKeys

\* No answer yet and an exception are right for every key, the local files and
\* None for a key without a mounted Secret.
LEMMA PlainAnswers ==
    ASSUME NEW k \in Keys
    PROVE  /\ NoAnswer \in Right[k] /\ Raised \in Right[k]
           /\ k \notin MountKeys => Fallback \in Right[k]
  <1>1. NoAnswer.kind = "none" /\ Raised.kind = "raised" /\ Local.kind = "local"
        /\ Nothing.kind = "nothing"
    BY DEF NoAnswer, Raised, Local, Nothing
  <1>2. {NoAnswer, Raised, Local, Nothing} \subseteq Answers
    BY DEF Answers
  <1>. QED
    BY <1>1, <1>2 DEF Right, Fallback

\* A server with TLS is talked to as the setting says.
LEMMA ModesHonourTls ==
    ASSUME DbaasTypeOK, NEW mode \in {PgMode, RedisMode}
    PROVE  /\ mode \in Modes
           /\ cfg.tls <=> mode # "plain"
           /\ mode \in {"verify", "verifyWithCert"}
                <=> cfg.tls /\ cfg.ssl \in {"ENABLED", "CERT_PATH", "CERT_PATH:system"}
  <1>1. cfg.tls \in BOOLEAN /\ cfg.ssl \in SslSettings
    BY SettingTypes
  <1>2. CASE mode = PgMode
    <2>1. CASE ~cfg.tls
      BY <1>2, <2>1 DEF PgMode, Modes
    <2>2. CASE cfg.tls
      BY <1>1, <1>2, <2>2 DEF PgMode, Modes, SslSettings
    <2>. QED
      BY <2>1, <2>2
  <1>3. CASE mode = RedisMode
    <2>1. CASE ~cfg.tls
      BY <1>3, <2>1 DEF RedisMode, Modes
    <2>2. CASE cfg.tls
      BY <1>1, <1>3, <2>2 DEF RedisMode, Modes, SslSettings
    <2>. QED
      BY <2>1, <2>2
  <1>. QED
    BY <1>2, <1>3

DatabaseKeys == Keys \ {"kafka_conn", "file_conn"}

\* What the backend makes of properties, and of their absence.
LEMMA DatabaseAnswers ==
    ASSUME DbaasTypeOK, NEW k \in DatabaseKeys
    PROVE  /\ \A s \in Secrets :
                /\ ForKey(k, s) => FromProperties(k, s) \in Right[k]
                /\ \/ FromProperties(k, s).kind # "database"
                   \/ FromProperties(k, s).database = s.database
           /\ WithoutProperties(k) \in Right[k] /\ WithoutProperties(k).kind # "database"
  <1>. k \in Keys
    BY DEF DatabaseKeys
  <1>0. Fallback.kind # "database" /\ Raised.kind # "database"
    BY DEF Fallback, Local, Nothing, Raised
  <1>1. CASE k = "redis_conn"
    BY <1>0, <1>1, PlainAnswers DEF FromProperties, WithoutProperties, MountKeys
  <1>2. CASE k # "redis_conn"
    <2>1. WithoutProperties(k) \in Right[k] /\ WithoutProperties(k).kind # "database"
      BY <1>0, <1>2, PlainAnswers DEF WithoutProperties
    <2>2. ASSUME NEW s \in Secrets
          PROVE  /\ ForKey(k, s) => FromProperties(k, s) \in Right[k]
                 /\ FromProperties(k, s).database = s.database
      <3>. DEFINE mode == IF Type(k) = "redis" THEN RedisMode ELSE PgMode
                  name == Name(k, s.database)
                  a == [kind |-> "database", database |-> s.database,
                        credential |-> s.credential, name |-> name, mode |-> mode]
      <3>1. FromProperties(k, s) = a
        BY <1>2 DEF FromProperties
      <3>2. mode \in {PgMode, RedisMode}
        OBVIOUS
      <3>3. /\ mode \in Modes
            /\ cfg.tls <=> mode # "plain"
            /\ mode \in {"verify", "verifyWithCert"}
                <=> cfg.tls /\ cfg.ssl \in {"ENABLED", "CERT_PATH", "CERT_PATH:system"}
        BY <3>2, ModesHonourTls
      <3>0. name \in {"given", "None", "prefix"}
        BY DEF Name
      <3>. HIDE DEF mode, name
      <3>4. a \in Answers
        BY <3>0, <3>3 DEF Answers, Secrets
      <3>5. a.kind = "database" /\ a.database = s.database /\ a.mode = mode
        OBVIOUS
      <3>6. Local.kind = "local" /\ Nothing.kind = "nothing"
        BY DEF Local, Nothing
      <3>. HIDE DEF a
      <3>. QED
        BY <3>1, <3>3, <3>4, <3>5, <3>6 DEF Right, ForKey
    <2>. QED
      BY <2>1, <2>2
  <1>. QED
    BY <1>1, <1>2

------------------------------------------------------------------------------
(* Kafka connections. *)

\* A set of indexes has a first one.
LEMMA FirstExists ==
    ASSUME NEW S, S \subseteq Nat, S # {}
    PROVE  \E i \in S : \A j \in S : i <= j
  <1>1. PICK i \in S : \A j \in S : <<j, i>> \notin OpToRel(<, Nat)
    BY WFMin, NatLessThanWellFounded, Zenon
  <1>2. \A j \in S : ~(j < i)
    BY <1>1 DEF OpToRel
  <1>. QED
    BY <1>2

\* The protocol is one of those the loop prefers.
LEMMA ProtocolFound ==
    ASSUME NEW reply, reply.addresses \subseteq Protocols, reply.addresses # {}
    PROVE  Protocol(reply) \in Protocols
  <1>. DEFINE offered(i) == /\ Preference[i] \in reply.addresses
                            /\ \A j \in 1..(i - 1) : Preference[j] \notin reply.addresses
              S == {i \in 1..4 : Preference[i] \in reply.addresses}
  <1>1. \A i \in 1..4 : Preference[i] \in Protocols
    BY DEF Preference, Protocols
  <1>2. S # {}
    <2>1. PICK a \in reply.addresses : a \in Protocols
      OBVIOUS
    <2>2. \E i \in 1..4 : Preference[i] = a
      <3>1. Preference[1] = "SASL_PLAINTEXT" /\ Preference[2] = "PLAINTEXT"
            /\ Preference[3] = "SSL" /\ Preference[4] = "SASL_SSL"
        BY DEF Preference
      <3>2. 1 \in 1..4 /\ 2 \in 1..4 /\ 3 \in 1..4 /\ 4 \in 1..4
        OBVIOUS
      <3>. QED
        BY <2>1, <3>1, <3>2 DEF Protocols
    <2>. QED
      BY <2>1, <2>2
  <1>3. PICK i \in S : \A j \in S : i <= j
    <2>1. S \subseteq Nat
      OBVIOUS
    <2>. QED
      BY <1>2, <2>1, FirstExists
  <1>4. i \in 1..4 /\ offered(i)
    BY <1>3
  <1>5. (CHOOSE j \in 1..4 : offered(j)) \in 1..4
    BY <1>4
  <1>. QED
    BY <1>1, <1>5 DEF Protocol

\* The first credential that is supported is the one examined last.
LEMMA FirstSupported ==
    ASSUME NEW client \in Seq(Credentials),
           \E i \in DOMAIN client : Supported(client[i])
    PROVE  /\ Examined(client) \in DOMAIN client
           /\ Supported(client[Examined(client)])
           /\ \A j \in 1..(Examined(client) - 1) : ~Supported(client[j])
  <1>. DEFINE S == {i \in DOMAIN client : Supported(client[i])}
              first(i) == /\ Supported(client[i])
                          /\ \A j \in 1..(i - 1) : ~Supported(client[j])
  <1>1. DOMAIN client = 1..Len(client) /\ Len(client) \in Nat
    OBVIOUS
  <1>2. PICK i \in S : \A j \in S : i <= j
    <2>1. S \subseteq Nat /\ S # {}
      BY <1>1
    <2>. QED
      BY <2>1, FirstExists
  <1>3. i \in DOMAIN client /\ first(i)
    BY <1>1, <1>2
  <1>4. Examined(client) = CHOOSE j \in DOMAIN client : first(j)
    BY DEF Examined
  <1>. HIDE DEF first
  <1>5. Examined(client) \in DOMAIN client /\ first(Examined(client))
    BY <1>3, <1>4
  <1>. QED
    BY <1>5 DEF first

\* What MaaS answers becomes a right answer.
LEMMA KafkaAnswers ==
    ASSUME DbaasTypeOK, NEW reply \in MaasReplies
    PROVE  FromTopic(reply) \in Right["kafka_conn"] /\ FromTopic(reply).kind # "database"
  <1>. "kafka_conn" \in Keys /\ "kafka_conn" \notin MountKeys
    BY DEF Keys, ConnKeys, MountKeys
  <1>1. CASE ~Usable(reply)
    <2>1. Fallback.kind # "database"
      BY DEF Fallback, Local, Nothing
    <2>. QED
      BY <1>1, <2>1, PlainAnswers DEF FromTopic
  <1>2. CASE Usable(reply)
    <2>. DEFINE client == reply.client
                last == Examined(client)
                supported(j) == /\ Supported(client[j])
                                /\ \A l \in (j + 1)..last : ~Supported(client[l])
                i == CHOOSE j \in 1..last : supported(j)
                mechanism == IF client[i].type = "SCRAM" THEN "SCRAM-SHA-512" ELSE "PLAIN"
                user == IF "user" \in cfg.patch THEN "patched" ELSE client[i].user
                password == IF "password" \in cfg.patch THEN "patched" ELSE client[last].user
                a == [kind |-> "kafka", protocol |-> Protocol(reply), user |-> user,
                      password |-> password, mechanism |-> mechanism]
    <2>1. client \in Seq(Credentials) /\ reply.addresses \subseteq Protocols
      BY BackendAssumption DEF KafkaReplies
    <2>2. reply.addresses # {} /\ \E j \in DOMAIN client : Supported(client[j])
      BY <1>2 DEF Usable
    <2>3. FromTopic(reply) = a
      BY <1>2 DEF FromTopic
    <2>4. /\ last \in DOMAIN client
          /\ Supported(client[last])
          /\ \A j \in 1..(last - 1) : ~Supported(client[j])
      BY <2>1, <2>2, FirstSupported
    <2>5. DOMAIN client = 1..Len(client) /\ Len(client) \in Nat
      BY <2>1
    <2>6. Protocol(reply) \in Protocols
      BY <2>1, <2>2, ProtocolFound
    <2>. HIDE DEF last, client
    <2>7. i = last
      <3>1. last \in 1..last /\ supported(last)
        BY <2>4, <2>5
      <3>2. \A j \in 1..last : supported(j) => j = last
        BY <2>4, <2>5
      <3>. QED
        BY <3>1, <3>2
    <2>. HIDE DEF i
    <2>8. client[last] \in Credentials
      BY <2>1, <2>4
    <2>9. client[last].user \in {"u1", "u2"}
      BY <2>8 DEF Credentials
    <2>10. mechanism \in {"SCRAM-SHA-512", "PLAIN"}
      OBVIOUS
    <2>. HIDE DEF mechanism
    <2>11. user \in {"u1", "u2", "patched"} /\ password \in {"u1", "u2", "patched"}
      BY <2>7, <2>9
    <2>12. user = password \/ cfg.patch \in {{"user"}, {"password"}}
      <3>1. cfg.patch \subseteq {"user", "password"}
        BY SettingTypes
      <3>. HIDE DEF i
      <3>. QED
        BY <2>7, <3>1
    <2>. HIDE DEF user, password
    <2>13. a \in Answers
      BY <2>6, <2>10, <2>11 DEF Answers
    <2>14. a.kind = "kafka" /\ a.password = password /\ a.user = user
      OBVIOUS
    <2>15. Local.kind = "local" /\ Nothing.kind = "nothing"
      BY DEF Local, Nothing
    <2>. HIDE DEF a
    <2>. QED
      BY <2>3, <2>12, <2>13, <2>14, <2>15 DEF Right
  <1>. QED
    BY <1>1, <1>2

------------------------------------------------------------------------------
(* The initial states. *)

\* The job has not begun, nothing is created, and no pod has asked.
LEMMA InitInv == Init => IInv
  <1>. SUFFICES ASSUME Init PROVE IInv
    OBVIOUS
  <1>. USE DEF Init
  <1>1. JobInv
    BY JobAssumption DEF JobInit, JobInv, JobTypeOK, Steps, Services, SuccessGrants
  <1>2. DatabasesInv
    BY DbaasAssumption
    DEF DbaasInit, DatabasesInv, DbaasTypeOK, OneDatabasePerUse, OperatorOwnsDatabases
  <1>3. BackendInv
    <2>1. \A k \in Keys : NoAnswer \in Right[k]
      BY PlainAnswers
    <2>2. NoAnswer \in Answers
      BY DEF Answers
    <2>3. MainKeys \subseteq Keys /\ "pg_main" \in Keys
      BY DEF Keys, MainKeys
    <2>4. Idle.key = "pg_main" /\ Idle.step = "idle" /\ Idle.answer = NoAnswer
      BY DEF Idle
    <2>5. Idle \in Calls
      BY <2>2, <2>3 DEF Idle, Calls, CallSteps
    <2>6. MountKeys \subseteq Keys
      BY DEF MountKeys, Keys, MainKeys, ConnKeys
    <2>7. BackendTypeOK
      BY <2>2, <2>5, <2>6, Classifiers, BackendAssumption DEF BackendInit, BackendTypeOK, Unread
    <2>8. MountsInv
      BY DEF BackendInit, MountsInv
    <2>9. NoAnswer.kind # "database"
      BY DEF NoAnswer
    <2>. QED
      BY <2>1, <2>3, <2>4, <2>7, <2>8, <2>9 DEF BackendInit, BackendInv, Unread, Compared
  <1>4. ScriptInv
    BY DEF CreateDbInit, ScriptInv, CreateDbTypeOK, Statements
  <1>. QED
    BY <1>1, <1>2, <1>3, <1>4 DEF IInv

------------------------------------------------------------------------------
(* What a step leaves alone. *)

\* What is right for a key depends on the settings and the mistakes only.
LEMMA RightStays == UNCHANGED <<cfg, mistaken>> => Right' = Right
  BY DEF Right, ForKey, ReadsMount, DatabaseOf, PgDatabase, RedisDatabase, ConnDatabase, Database, PgService,
         RedisService, Type

\* The databases of the keys depend on the settings only.
LEMMA DatabasesStay ==
    ASSUME UNCHANGED cfg, NEW k
    PROVE  DatabaseOf(k)' = DatabaseOf(k)
  BY DEF DatabaseOf, PgDatabase, RedisDatabase, ConnDatabase, Database, PgService, RedisService,
         Type

\* The mounts' part depends on the mounts and the settings.
LEMMA MountsStay == MountsInv /\ UNCHANGED <<cfg, mountVars>> => MountsInv'
  BY DatabasesStay DEF MountsInv, mountVars

\* The job's part depends on its own state, the settings and the policies.
LEMMA JobFrame == JobInv /\ UNCHANGED <<cfg, granted, jobVars>> => JobInv'
  BY DEF JobTypeOK, JobInv, jobVars, SuccessGrants, Grants, PgService, RedisService

\* The backend's part depends on its own state and the settings.
LEMMA BackendFrame == BackendInv /\ UNCHANGED <<cfg, backendVars>> => BackendInv'
  <1>. SUFFICES ASSUME BackendInv, UNCHANGED <<cfg, backendVars>> PROVE BackendInv'
    OBVIOUS
  <1>1. BackendTypeOK'
    BY DEF BackendInv, BackendTypeOK, backendVars, mountVars
  <1>2. Right' = Right
    BY RightStays DEF backendVars, mountVars
  <1>3. MountsInv'
    BY MountsStay DEF BackendInv, backendVars
  <1>. QED
    BY <1>1, <1>2, <1>3 DEF BackendInv, Compared, backendVars, mountVars

\* The script's part depends on its own state.
LEMMA ScriptFrame == ScriptInv /\ UNCHANGED createDbVars => ScriptInv'
  BY DEF CreateDbTypeOK, ScriptInv, createDbVars

\* A failure is counted, and the classifiers are those the settings ask for.
LEMMA DatabasesKept ==
    ASSUME DatabasesInv, UNCHANGED cfg, databases' = databases,
           granted' \subseteq {"airflow", "airflow-redis", "conn"},
           credential' \in 0..MaxRotations,
           UNCHANGED failures \/ Failure
    PROVE  DatabasesInv'
  <1>1. failures' \in 0..MaxFailures
    BY DbaasAssumption DEF DatabasesInv, DbaasTypeOK, Failure
  <1>2. DbaasTypeOK'
    BY <1>1 DEF DatabasesInv, DbaasTypeOK
  <1>3. OneDatabasePerUse' /\ OperatorOwnsDatabases'
    BY DEF DatabasesInv, OneDatabasePerUse, OperatorOwnsDatabases, DatabaseOf, PgDatabase,
           RedisDatabase, ConnDatabase, Database, PgService, RedisService, Type
  <1>. QED
    BY <1>2, <1>3 DEF DatabasesInv

\* Creating a database for a key that is not the operator's.
LEMMA DatabaseCreated ==
    ASSUME DatabasesInv, NEW k \in DatabaseKeys, cfg.operator => k \notin MountKeys,
           databases' = databases \cup {DatabaseOf(k)},
           UNCHANGED <<cfg, granted, credential>>,
           UNCHANGED failures \/ Failure
    PROVE  DatabasesInv'
  <1>1. DatabaseOf(k) \in AllDatabases
    BY Classifiers DEF DatabaseKeys
  <1>2. DbaasTypeOK'
    BY <1>1, DbaasAssumption DEF DatabasesInv, DbaasTypeOK, Failure
  <1>3. \A j \in Keys : DatabaseOf(j)' = DatabaseOf(j)
    BY DEF DatabaseOf, PgDatabase, RedisDatabase, ConnDatabase, Database, PgService,
           RedisService, Type
  <1>4. MountKeys \subseteq Keys
    BY DEF MountKeys, Keys, MainKeys, ConnKeys
  <1>5. OneDatabasePerUse'
    BY <1>3 DEF DatabasesInv, OneDatabasePerUse, DatabaseKeys
  <1>6. cfg.operator => DatabaseOf(k) \notin {DatabaseOf(j) : j \in MountKeys}
    <2>1. ASSUME cfg.operator PROVE k = "redis_conn"
      BY <2>1 DEF DatabaseKeys, Keys, MainKeys, ConnKeys, MountKeys
    <2>2. DatabaseOf("redis_conn").type = "redis" /\ DatabaseOf("redis_conn").namespace = "other"
      BY DEF DatabaseOf, ConnDatabase, Database, Type
    <2>3. DatabaseOf("pg_main").namespace = "own" /\ DatabaseOf("redis_main").namespace = "own"
          /\ DatabaseOf("pg_conn").type = "postgresql"
      BY DEF DatabaseOf, PgDatabase, RedisDatabase, ConnDatabase, Database, Type
    <2>. QED
      BY <2>1, <2>2, <2>3 DEF MountKeys
  <1>7. OperatorOwnsDatabases'
    BY <1>3, <1>4, <1>6 DEF DatabasesInv, OperatorOwnsDatabases
  <1>. QED
    BY <1>2, <1>5, <1>7 DEF DatabasesInv

------------------------------------------------------------------------------
(* The job. *)

\* The settings and the history a step of the job keeps.
LEMMA RequestInv ==
    ASSUME JobInv, DatabasesInv,
           NEW request \in
               {<<"pg", "deletePg", "pg_main", "metadata-secret">>,
                <<"redis", "deleteRedis", "redis_main", "broker-url-secret">>},
           NEW next \in {"redis", "grantPg", "succeeded"},
           next = "succeeded" => ~Grants,
           RequestDatabase(request[1], request[2], DatabaseOf(request[3]), next, request[4])
    PROVE  JobInv' /\ DatabasesInv'
  <1>. DEFINE step == request[1]
              delete == request[2]
              k == request[3]
              secret == request[4]
  <1>1. \/ delete = "deletePg" /\ secret = "metadata-secret"
        \/ delete = "deleteRedis" /\ secret = "broker-url-secret"
    OBVIOUS
  <1>2. k \in DatabaseKeys
    BY DEF DatabaseKeys, Keys, MainKeys
  <1>3. RequestDatabase(step, delete, DatabaseOf(k), next, secret)
    OBVIOUS
  <1>. HIDE DEF step, delete, k, secret
  <1>4. UNCHANGED <<cfg, granted, credential, attempt, oldSecrets, refusals>>
    BY <1>3 DEF RequestDatabase
  <1>5. \/ cfg.operator /\ job' = delete /\ UNCHANGED <<databases, answered, failures>>
        \/ /\ ~cfg.operator /\ job' = delete /\ answered' = answered \cup {secret}
           /\ UNCHANGED failures /\ databases' = databases \cup {DatabaseOf(k)}
        \/ /\ ~cfg.operator /\ job' = delete /\ answered' = answered \cup {secret}
           /\ Failure /\ databases' \in {databases, databases \cup {DatabaseOf(k)}}
        \/ /\ ~cfg.operator /\ job' = next /\ UNCHANGED answered
           /\ Failure /\ databases' \in {databases, databases \cup {DatabaseOf(k)}}
    BY <1>3 DEF RequestDatabase
  <1>6. DatabasesInv'
    <2>1. CASE UNCHANGED databases /\ (UNCHANGED failures \/ Failure)
      <3>1. granted' \subseteq {"airflow", "airflow-redis", "conn"} /\ credential' \in 0..MaxRotations
        BY <1>4 DEF DatabasesInv, DbaasTypeOK
      <3>. QED
        BY <2>1, <3>1, <1>4, DatabasesKept
    <2>2. CASE /\ ~cfg.operator
               /\ UNCHANGED failures \/ Failure
               /\ databases' = databases \cup {DatabaseOf(k)}
      BY <2>2, <1>2, <1>4, DatabaseCreated
    <2>. QED
      BY <1>5, <2>1, <2>2
  <1>7. JobTypeOK'
    BY <1>1, <1>4, <1>5 DEF JobInv, JobTypeOK, Steps, OldSecrets, Services
  <1>8. JobInv'
    BY <1>1, <1>4, <1>5, <1>7 DEF JobInv, OldSecrets, SuccessGrants, Grants
  <1>. QED
    BY <1>6, <1>8

\* An old Secret is deleted after the answer, or an error leaves it.
LEMMA DeleteInv ==
    ASSUME JobInv, DatabasesInv,
           NEW delete \in
               {<<"deletePg", "metadata-secret">>, <<"deleteRedis", "broker-url-secret">>},
           NEW next \in {"redis", "grantPg", "succeeded"},
           next = "succeeded" => ~Grants,
           DeleteSecret(delete[1], next, delete[2])
    PROVE  JobInv' /\ DatabasesInv'
  <1>1. /\ job = delete[1] /\ job' = next
        /\ oldSecrets' \in {oldSecrets, oldSecrets \ {delete[2]}}
        /\ UNCHANGED failures \/ Failure
        /\ UNCHANGED <<cfg, databases, granted, credential, attempt, answered, refusals>>
    BY DEF DeleteSecret
  <1>2. DatabasesInv'
    <2>1. granted' \subseteq {"airflow", "airflow-redis", "conn"} /\ credential' \in 0..MaxRotations
      BY <1>1 DEF DatabasesInv, DbaasTypeOK
    <2>. QED
      BY <1>1, <2>1, DatabasesKept
  <1>3. JobTypeOK'
    BY <1>1 DEF JobInv, JobTypeOK, Steps
  <1>4. ~cfg.operator => delete[2] \in answered
    BY <1>1 DEF JobInv
  <1>5. ~cfg.operator => OldSecrets \ oldSecrets' \subseteq answered'
    BY <1>1, <1>4 DEF JobInv
  <1>6. JobInv'
    BY <1>1, <1>3, <1>5 DEF JobInv, SuccessGrants, Grants
  <1>. QED
    BY <1>2, <1>6

\* A policy is granted or refused before the job goes on; after the last one
\* both names have been dealt with.
LEMMA GrantInv ==
    ASSUME JobInv, DatabasesInv, GrantPermissions
    PROVE  JobInv' /\ DatabasesInv'
  <1>1. \/ /\ job = "grantPg"
           /\ Grant("grantPg", PgService, IF cfg.oneService THEN "succeeded" ELSE "grantRedis")
        \/ /\ job = "grantRedis"
           /\ Grant("grantRedis", RedisService, "succeeded")
    BY DEF GrantPermissions, Grant
  <1>2. ASSUME NEW step, NEW service \in Services, NEW next \in {"succeeded", "grantRedis"},
               Grant(step, service, next)
        PROVE  /\ UNCHANGED <<cfg, databases, credential, attempt, oldSecrets, answered>>
               /\ DatabasesInv'
               /\ JobTypeOK'
               /\ granted \cup refusals \subseteq granted' \cup refusals'
               /\ \/ job' = next /\ service \in granted' \cup refusals'
                  \/ job' = "crashed"
    <2>1. /\ UNCHANGED <<cfg, databases, credential, attempt, oldSecrets, answered>>
          /\ UNCHANGED failures \/ Failure
          /\ \/ /\ job' = next /\ granted' = granted \cup {service} /\ UNCHANGED refusals
             \/ /\ job' = next /\ refusals' = refusals \cup {service} /\ UNCHANGED granted
             \/ /\ job' = "crashed" /\ UNCHANGED <<granted, refusals>>
      BY <1>2 DEF Grant
    <2>2. granted' \subseteq {"airflow", "airflow-redis", "conn"} /\ credential' \in 0..MaxRotations
      BY <2>1 DEF DatabasesInv, DbaasTypeOK, Services
    <2>3. DatabasesInv'
      BY <2>1, <2>2, DatabasesKept
    <2>4. JobTypeOK'
      BY <2>1 DEF JobInv, JobTypeOK, Steps, Services
    <2>. QED
      BY <2>1, <2>3, <2>4
  <1>3. PgService \in Services /\ RedisService \in Services
    BY DEF PgService, RedisService, Services
  <1>4. CASE job = "grantPg"
    <2>. DEFINE next == IF cfg.oneService THEN "succeeded" ELSE "grantRedis"
    <2>1. Grant("grantPg", PgService, next)
      BY <1>1, <1>4
    <2>2. next \in {"succeeded", "grantRedis"}
      OBVIOUS
    <2>3. next = "succeeded" => RedisService = PgService
      BY DEF PgService, RedisService
    <2>. HIDE DEF next
    <2>4. /\ UNCHANGED <<cfg, databases, credential, attempt, oldSecrets, answered>>
          /\ DatabasesInv'
          /\ JobTypeOK'
          /\ \/ job' = next /\ PgService \in granted' \cup refusals'
             \/ job' = "crashed"
      BY <1>2, <1>3, <2>1, <2>2
    <2>5. PgService' = PgService /\ RedisService' = RedisService
      BY <2>4 DEF PgService, RedisService
    <2>6. JobInv'
      BY <2>2, <2>3, <2>4, <2>5 DEF JobInv, SuccessGrants
    <2>. QED
      BY <2>4, <2>6
  <1>5. CASE job = "grantRedis"
    <2>1. Grant("grantRedis", RedisService, "succeeded")
      BY <1>1, <1>5
    <2>2. /\ UNCHANGED <<cfg, databases, credential, attempt, oldSecrets, answered>>
          /\ DatabasesInv'
          /\ JobTypeOK'
          /\ granted \cup refusals \subseteq granted' \cup refusals'
          /\ \/ job' = "succeeded" /\ RedisService \in granted' \cup refusals'
             \/ job' = "crashed"
      BY <1>2, <1>3, <2>1
    <2>3. PgService' = PgService /\ RedisService' = RedisService
      BY <2>2 DEF PgService, RedisService
    <2>4. JobInv'
      BY <1>5, <2>2, <2>3 DEF JobInv, SuccessGrants
    <2>. QED
      BY <2>2, <2>4
  <1>. QED
    BY <1>1, <1>4, <1>5

\* The pod of the job dies, or Kubernetes starts it again.
LEMMA KilledOrRetriedInv ==
    ASSUME JobInv, DatabasesInv, JobKilled \/ JobRetried
    PROVE  JobInv' /\ DatabasesInv'
  <1>1. /\ UNCHANGED <<cfg, databases, granted, credential, oldSecrets, answered>>
        /\ UNCHANGED failures \/ Failure
        /\ \/ job' = "crashed" /\ UNCHANGED <<attempt, refusals>>
           \/ /\ job' = "pg" /\ attempt < MaxAttempts /\ attempt' = attempt + 1
              /\ refusals' = {}
           \/ job' = "failed" /\ UNCHANGED attempt /\ refusals' = {}
    BY DEF JobKilled, JobRetried, dbaasVars
  <1>2. granted' \subseteq {"airflow", "airflow-redis", "conn"} /\ credential' \in 0..MaxRotations
    BY <1>1 DEF DatabasesInv, DbaasTypeOK
  <1>3. DatabasesInv'
    BY <1>1, <1>2, DatabasesKept
  <1>4. JobTypeOK'
    <2>1. attempt' \in 1..MaxAttempts
      BY <1>1, JobAssumption DEF JobInv, JobTypeOK
    <2>2. refusals' \subseteq Services
      BY <1>1 DEF JobInv, JobTypeOK
    <2>3. job' \in {"crashed", "pg", "failed"}
      BY <1>1
    <2>. QED
      BY <1>1, <2>1, <2>2, <2>3 DEF JobInv, JobTypeOK, Steps
  <1>5. JobInv'
    BY <1>1, <1>4 DEF JobInv, SuccessGrants
  <1>. QED
    BY <1>3, <1>5

\* Every step of the job, as the module lists them.
LEMMA JobStepsInv ==
    ASSUME JobInv, DatabasesInv, JobNext
    PROVE  JobInv' /\ DatabasesInv'
  <1>1. /\ AfterRedis \in {"redis", "grantPg", "succeeded"}
        /\ AfterRedis = "succeeded" => ~Grants
        /\ AfterPg \in {"redis", "grantPg", "succeeded"}
        /\ AfterPg = "succeeded" => ~Grants
    BY DEF AfterRedis, AfterPg
  <1>2. PgToCreate = DatabaseOf("pg_main") /\ RedisToCreate = DatabaseOf("redis_main")
    BY DEF PgToCreate, RedisToCreate, DatabaseOf, PgDatabase, RedisDatabase
  <1>3. CASE CreatePgSecret
    <2>1. CASE RequestDatabase("pg", "deletePg", PgToCreate, AfterPg, "metadata-secret")
      <3>. DEFINE request == <<"pg", "deletePg", "pg_main", "metadata-secret">>
      <3>1. RequestDatabase(request[1], request[2], DatabaseOf(request[3]), AfterPg, request[4])
        BY <1>2, <2>1
      <3>. HIDE DEF request
      <3>. QED
        BY <1>1, <3>1, RequestInv DEF request
    <2>2. CASE DeleteSecret("deletePg", AfterPg, "metadata-secret")
      <3>. DEFINE delete == <<"deletePg", "metadata-secret">>
      <3>1. DeleteSecret(delete[1], AfterPg, delete[2])
        BY <2>2
      <3>. HIDE DEF delete
      <3>. QED
        BY <1>1, <3>1, DeleteInv DEF delete
    <2>. QED
      BY <1>3, <2>1, <2>2 DEF CreatePgSecret
  <1>4. CASE CreateRedisSecret
    <2>1. CASE RequestDatabase("redis", "deleteRedis", RedisToCreate, AfterRedis, "broker-url-secret")
      <3>. DEFINE request == <<"redis", "deleteRedis", "redis_main", "broker-url-secret">>
      <3>1. RequestDatabase(request[1], request[2], DatabaseOf(request[3]), AfterRedis, request[4])
        BY <1>2, <2>1
      <3>. HIDE DEF request
      <3>. QED
        BY <1>1, <3>1, RequestInv DEF request
    <2>2. CASE DeleteSecret("deleteRedis", AfterRedis, "broker-url-secret")
      <3>. DEFINE delete == <<"deleteRedis", "broker-url-secret">>
      <3>1. DeleteSecret(delete[1], AfterRedis, delete[2])
        BY <2>2
      <3>. HIDE DEF delete
      <3>. QED
        BY <1>1, <3>1, DeleteInv DEF delete
    <2>. QED
      BY <1>4, <2>1, <2>2 DEF CreateRedisSecret
  <1>. QED
    BY <1>3, <1>4, GrantInv, KilledOrRetriedInv DEF JobNext, JobSteps

------------------------------------------------------------------------------
(* The backend: what an answer, a next step, a request and a restart do to *)
(* its invariant.                                                          *)

\* A call ends with a right answer, which the pod may keep.
LEMMA AnswerInv ==
    ASSUME BackendInv, NEW p \in Pods, NEW a \in Right[call[p].key],
           Compared(call[p].key, call[p].metadata, a),
           Answer(p, a), UNCHANGED <<cfg, mountVars, asks>>
    PROVE  BackendInv'
  <1>. DEFINE k == call[p].key
  <1>1. k \in Keys /\ a \in Answers
    BY DEF BackendInv, BackendTypeOK, Calls, Right
  <1>2. /\ call' = [call EXCEPT ![p].step = "idle", ![p].answer = a]
        /\ main' = IF k \in MainKeys THEN [main EXCEPT ![p][k] = a] ELSE main
    BY DEF Answer
  <1>3. call \in [Pods -> Calls]
    BY DEF BackendInv, BackendTypeOK
  <1>4. /\ call' \in [Pods -> Calls]
        /\ call'[p].key = k /\ call'[p].step = "idle" /\ call'[p].answer = a
        /\ call'[p].metadata = call[p].metadata
        /\ \A q \in Pods \ {p} : call'[q] = call[q]
    <2>1. "idle" \in CallSteps
      BY DEF CallSteps
    <2>. HIDE DEF k
    <2>. QED
      BY <1>1, <1>2, <1>3, <2>1 DEF k, Calls
  <1>. HIDE DEF k
  <1>5. /\ main' \in [Pods -> [MainKeys -> Answers]]
        /\ \A q \in Pods, m \in MainKeys :
             main'[q][m] = main[q][m] \/ (q = p /\ m = k /\ main'[q][m] = a)
    BY <1>1, <1>2 DEF BackendInv, BackendTypeOK
  <1>6. Right' = Right /\ MountsInv' /\ UNCHANGED mounted
    BY RightStays, MountsStay DEF BackendInv, mountVars
  <1>7. BackendTypeOK'
    BY <1>4, <1>5 DEF BackendInv, BackendTypeOK, mountVars
  <1>8. ASSUME NEW q \in Pods
        PROVE  /\ call'[q].answer \in Right'[call'[q].key]
               /\ Compared(call'[q].key, call'[q].metadata, call'[q].answer)
               /\ \A m \in MainKeys : main'[q][m] \in Right'[m]
    <2>1. Compared(k, call[p].metadata, a)
      BY DEF k
    <2>. HIDE DEF Compared
    <2>. QED
      BY <1>4, <1>5, <1>6, <2>1 DEF BackendInv, k
  <1>9. ASSUME NEW q \in Pods
        PROVE  \/ q = p /\ call'[q].step = "idle"
               \/ call'[q] = call[q]
    BY <1>4
  <1>. HIDE DEF Compared
  <1>10. \A q \in Pods : Compared(call[q].key, call[q].metadata, call[q].answer)'
    BY <1>8 DEF Compared
  <1>. QED
    BY <1>6, <1>7, <1>8, <1>9, <1>10 DEF BackendInv

\* A call goes on to the PUT, or to the second file of a mounted Secret.
LEMMA GoesOn ==
    ASSUME BackendInv, NEW p \in Pods, call' \in [Pods -> Calls],
           \A q \in Pods \ {p} : call'[q] = call[q],
           call'[p].key = call[p].key, call'[p].answer = call[p].answer,
           \/ call[p].step = "get" /\ call'[p].step = "put"
           \/ /\ call[p].step = "metadata" /\ call'[p].step = "properties"
              /\ mounted[call[p].key] # Absent,
           UNCHANGED <<cfg, main, mountVars, asks>>
    PROVE  BackendInv'
  <1>1. Right' = Right /\ MountsInv' /\ UNCHANGED mounted
    BY RightStays, MountsStay DEF BackendInv, mountVars
  <1>2. BackendTypeOK'
    BY DEF BackendInv, BackendTypeOK, mountVars
  <1>3. call[p].answer = NoAnswer /\ NoAnswer.kind # "database"
    BY DEF BackendInv, NoAnswer
  <1>4. \A q \in Pods : Compared(call[q].key, call[q].metadata, call[q].answer)'
    BY <1>3 DEF BackendInv, Compared
  <1>. HIDE DEF Compared
  <1>5. ASSUME NEW q \in Pods
        PROVE  /\ call'[q].answer \in Right'[call'[q].key]
               /\ call'[q].step # "idle" => call'[q].answer = NoAnswer
               /\ \A m \in MainKeys : main'[q][m] \in Right'[m]
               /\ call'[q].step \in {"get", "put"} =>
                    /\ call'[q].key \notin {"kafka_conn", "file_conn"}
                    /\ cfg'.operator => call'[q].key \notin MountKeys
               /\ call'[q].step \in {"metadata", "properties"} => call'[q].key \in MountKeys
               /\ call'[q].step = "properties" => mounted'[call'[q].key] # Absent
               /\ call'[q].step = "topic" => call'[q].key = "kafka_conn"
    <2>1. CASE q = p
      BY <1>1, <1>3, <2>1 DEF BackendInv
    <2>2. CASE q # p
      BY <1>1, <2>2 DEF BackendInv
    <2>. QED
      BY <2>1, <2>2
  <1>. QED
    BY <1>1, <1>2, <1>4, <1>5 DEF BackendInv

\* A pod asks for a key, and the key decides where the call begins.
LEMMA AskInv ==
    ASSUME BackendInv, NEW p \in Pods, NEW k \in Keys, Ask(p, k)
    PROVE  BackendInv'
  <1>. DEFINE step == CASE k = "file_conn" -> "idle"
                        [] k = "kafka_conn" -> "topic"
                        [] ReadsMount(k) -> "metadata"
                        [] OTHER -> "get"
              answer == IF k = "file_conn" THEN Fallback ELSE NoAnswer
  <1>1. /\ call' = [call EXCEPT ![p] = [key |-> k, step |-> step, metadata |-> NoDatabase,
                                     answer |-> answer]]
        /\ UNCHANGED <<cfg, main, mountVars>>
        /\ asks' = asks \/ (asks < MaxAsks /\ asks' = asks + 1)
    BY DEF Ask, dbaasVars
  <1>2. /\ answer \in Right[k] /\ Right' = Right /\ answer \in Answers
        /\ answer.kind # "database" /\ (step # "idle" => answer = NoAnswer)
    <2>1. "file_conn" \notin MountKeys
      BY DEF MountKeys
    <2>2. answer \in Right[k]
      BY <2>1, PlainAnswers
    <2>3. answer.kind # "database"
      BY DEF Fallback, Local, Nothing, NoAnswer
    <2>4. k = "file_conn" => step = "idle"
      BY DEF ReadsMount, MountKeys
    <2>. HIDE DEF step
    <2>. QED
      BY <1>1, <2>2, <2>3, <2>4, RightStays DEF Right, mountVars
  <1>3. /\ step \in {"idle", "topic", "metadata", "get"}
        /\ step = "topic" => k = "kafka_conn"
        /\ step = "metadata" => k \in MountKeys
        /\ step = "get" => /\ k \notin {"kafka_conn", "file_conn"}
                           /\ cfg.operator => k \notin MountKeys
    <2>1. CASE k = "file_conn"
      <3>1. ~ReadsMount(k) /\ k # "kafka_conn"
        BY <2>1 DEF ReadsMount, MountKeys
      <3>2. step = "idle"
        BY <2>1, <3>1
      <3>. HIDE DEF step
      <3>. QED
        BY <3>2
    <2>2. CASE k = "kafka_conn"
      <3>1. ~ReadsMount(k) /\ k # "file_conn"
        BY <2>2 DEF ReadsMount, MountKeys
      <3>2. step = "topic"
        BY <2>2, <3>1
      <3>. HIDE DEF step
      <3>. QED
        BY <2>2, <3>2
    <2>3. CASE k \notin {"file_conn", "kafka_conn"} /\ ReadsMount(k)
      <3>1. step = "metadata"
        BY <2>3
      <3>. HIDE DEF step
      <3>. QED
        BY <2>3, <3>1 DEF ReadsMount
    <2>4. CASE k \notin {"file_conn", "kafka_conn"} /\ ~ReadsMount(k)
      <3>1. step = "get"
        BY <2>4
      <3>. HIDE DEF step
      <3>. QED
        BY <2>4, <3>1 DEF ReadsMount
    <2>. QED
      BY <2>1, <2>2, <2>3, <2>4
  <1>. HIDE DEF step, answer
  <1>4. call \in [Pods -> Calls]
    BY DEF BackendInv, BackendTypeOK
  <1>5. /\ call' \in [Pods -> Calls]
        /\ call'[p].key = k /\ call'[p].step = step /\ call'[p].answer = answer
        /\ call'[p].metadata = NoDatabase
        /\ \A q \in Pods \ {p} : call'[q] = call[q]
    <2>1. step \in CallSteps
      BY <1>3 DEF CallSteps
    <2>2. [key |-> k, step |-> step, metadata |-> NoDatabase, answer |-> answer] \in Calls
      BY <1>2, <2>1 DEF Calls
    <2>. QED
      BY <1>1, <1>4, <2>2
  <1>6. BackendTypeOK'
    BY <1>1, <1>5, BackendAssumption DEF BackendInv, BackendTypeOK, mountVars
  <1>7. ASSUME NEW q \in Pods
        PROVE  /\ call'[q].answer \in Right'[call'[q].key]
               /\ call'[q].step # "idle" => call'[q].answer = NoAnswer
               /\ \A m \in MainKeys : main'[q][m] \in Right'[m]
               /\ call'[q].step \in {"get", "put"} =>
                    /\ call'[q].key \notin {"kafka_conn", "file_conn"}
                    /\ cfg'.operator => call'[q].key \notin MountKeys
               /\ call'[q].step \in {"metadata", "properties"} => call'[q].key \in MountKeys
               /\ call'[q].step = "properties" => mounted'[call'[q].key] # Absent
               /\ call'[q].step = "topic" => call'[q].key = "kafka_conn"
    <2>1. CASE q = p
      BY <1>1, <1>2, <1>3, <1>5, <2>1 DEF BackendInv
    <2>2. CASE q # p
      BY <1>1, <1>2, <1>5, <2>2 DEF BackendInv, mountVars
    <2>. QED
      BY <2>1, <2>2
  <1>8. \A q \in Pods : Compared(call[q].key, call[q].metadata, call[q].answer)'
    BY <1>2, <1>5 DEF BackendInv, Compared
  <1>9. MountsInv'
    BY <1>1, MountsStay DEF BackendInv
  <1>. HIDE DEF Compared
  <1>. QED
    BY <1>6, <1>7, <1>8, <1>9 DEF BackendInv

\* A process that starts again knows nothing.
LEMMA RestartInv ==
    ASSUME BackendInv, NEW p \in Pods, Restart(p), UNCHANGED <<cfg, mountVars, asks>>
    PROVE  BackendInv'
  <1>1. /\ call' = [call EXCEPT ![p] = Idle]
        /\ main' = [main EXCEPT ![p] = Unread]
    BY DEF Restart
  <1>2. Right' = Right /\ MountsInv' /\ UNCHANGED mounted
    BY RightStays, MountsStay DEF BackendInv, mountVars
  <1>3. MainKeys \subseteq Keys /\ "pg_main" \in Keys
    BY DEF Keys, MainKeys
  <1>4. \A k \in Keys : NoAnswer \in Right[k]
    BY PlainAnswers
  <1>5. NoAnswer \in Answers
    BY DEF Answers
  <1>6. /\ Idle \in Calls
        /\ Idle.key = "pg_main" /\ Idle.step = "idle" /\ Idle.answer = NoAnswer
    BY <1>3, <1>5 DEF Idle, Calls, CallSteps
  <1>7. Unread \in [MainKeys -> Answers] /\ \A m \in MainKeys : Unread[m] = NoAnswer
    BY <1>5 DEF Unread
  <1>8. BackendTypeOK'
    BY <1>1, <1>6, <1>7 DEF BackendInv, BackendTypeOK, mountVars
  <1>9. ASSUME NEW q \in Pods
        PROVE  \/ call'[q] = Idle /\ main'[q] = Unread
               \/ call'[q] = call[q] /\ main'[q] = main[q]
    BY <1>1 DEF BackendInv, BackendTypeOK
  <1>10. \A q \in Pods : Compared(call[q].key, call[q].metadata, call[q].answer)'
    <2>1. NoAnswer.kind # "database"
      BY DEF NoAnswer
    <2>. QED
      BY <1>6, <1>9, <2>1 DEF BackendInv, Compared
  <1>. HIDE DEF Compared
  <1>. QED
    BY <1>2, <1>3, <1>4, <1>6, <1>7, <1>8, <1>9, <1>10 DEF BackendInv

\* A Secret is written with what is claimed and the passwords in force.
LEMMA OperatorWritesInv ==
    ASSUME BackendInv, DatabasesInv, NEW k \in MountKeys, OperatorWrites(k)
    PROVE  BackendInv'
  <1>. DEFINE secret == Properties(claimed[k], credential)
  <1>1. /\ mounted' = [mounted EXCEPT ![k] = secret] /\ cfg.operator
        /\ UNCHANGED <<cfg, call, main, claimed, mistaken, asks>>
    BY DEF OperatorWrites, dbaasVars
  <1>2. secret \in Secrets /\ secret # Absent /\ secret.database = claimed[k]
    <2>1. claimed[k] \in AllDatabases /\ credential \in 0..MaxRotations
      BY DEF BackendInv, BackendTypeOK, DatabasesInv, DbaasTypeOK
    <2>2. secret \in Secrets /\ secret.database = claimed[k]
      BY <2>1 DEF Properties, Secrets
    <2>3. Absent.database \notin AllDatabases
      BY DEF Absent, Properties, NoDatabase, Database, AllDatabases
    <2>. HIDE DEF secret
    <2>. QED
      BY <2>1, <2>2, <2>3
  <1>. HIDE DEF secret
  <1>3. Right' = Right
    BY <1>1, RightStays
  <1>4. BackendTypeOK'
    BY <1>1, <1>2 DEF BackendInv, BackendTypeOK
  <1>5. \A m \in MountKeys :
          \/ mounted'[m] = mounted[m]
          \/ m = k /\ mounted'[m] = secret
    BY <1>1 DEF BackendInv, BackendTypeOK
  <1>6. MountsInv'
    BY <1>1, <1>2, <1>5, DatabasesStay DEF BackendInv, MountsInv
  <1>. HIDE DEF Compared
  <1>7. \A q \in Pods : Compared(call[q].key, call[q].metadata, call[q].answer)'
    BY <1>1 DEF BackendInv, Compared
  <1>. QED
    BY <1>1, <1>2, <1>3, <1>4, <1>5, <1>6, <1>7 DEF BackendInv

\* A mistaken claim is remembered; a repaired one is that of the key.
LEMMA ClaimInv ==
    ASSUME BackendInv, NEW k \in MountKeys,
           ClaimRepaired(k) \/ \E j \in MountKeys : ClaimOther(k, j)
    PROVE  BackendInv'
  <1>1. MountKeys \subseteq Keys
    BY DEF MountKeys, Keys, MainKeys, ConnKeys
  <1>2. PICK j \in MountKeys :
          /\ claimed' = [claimed EXCEPT ![k] = DatabaseOf(j)]
          /\ \/ j = k /\ UNCHANGED mistaken
             \/ mistaken' = mistaken \cup {k}
          /\ UNCHANGED <<cfg, call, main, mounted, asks>>
    BY DEF ClaimRepaired, ClaimOther, dbaasVars
  <1>3. \A m \in Keys : Right[m] \subseteq Right'[m]
    <2>1. \A m \in Keys : DatabaseOf(m)' = DatabaseOf(m)
      BY <1>2, DatabasesStay
    <2>. QED
      BY <1>2, <2>1 DEF Right, ForKey, ReadsMount
  <1>4. BackendTypeOK'
    BY <1>1, <1>2, Classifiers DEF BackendInv, BackendTypeOK
  <1>5. MountsInv'
    <2>1. \A m \in MountKeys : claimed'[m] = claimed[m] \/ (m = k /\ claimed'[m] = DatabaseOf(j))
      BY <1>2 DEF BackendInv, BackendTypeOK
    <2>. QED
      BY <1>2, <2>1, DatabasesStay DEF BackendInv, MountsInv
  <1>6. \A q \in Pods : Compared(call[q].key, call[q].metadata, call[q].answer)'
    BY <1>2 DEF BackendInv, Compared
  <1>7. MainKeys \subseteq Keys /\ \A q \in Pods : call[q].key \in Keys
    BY DEF BackendInv, BackendTypeOK, Calls, Keys
  <1>. HIDE DEF Compared
  <1>. QED
    BY <1>2, <1>3, <1>4, <1>5, <1>6, <1>7 DEF BackendInv

------------------------------------------------------------------------------
(* The backend: its actions. *)

\* The keys of a call at each of its steps.
LEMMA KeysOfSteps ==
    ASSUME BackendInv, NEW p \in Pods
    PROVE  /\ call[p].key \in Keys
           /\ call[p].step \in {"get", "put", "metadata", "properties"}
                => call[p].key \in DatabaseKeys
           /\ call[p].step \in {"get", "put"} => (cfg.operator => call[p].key \notin MountKeys)
           /\ call[p].step = "topic" => call[p].key = "kafka_conn"
  <1>1. call[p].key \in Keys
    BY DEF BackendInv, BackendTypeOK, Calls
  <1>2. MountKeys \subseteq DatabaseKeys
    BY DEF MountKeys, DatabaseKeys, Keys, MainKeys, ConnKeys
  <1>. QED
    BY <1>1, <1>2 DEF BackendInv, DatabaseKeys

\* A step that creates no database leaves them right.
LEMMA NothingCreated ==
    ASSUME DatabasesInv, UNCHANGED <<cfg, databases, granted, credential>>,
           UNCHANGED failures \/ Failure
    PROVE  DatabasesInv'
  <1>1. granted' \subseteq {"airflow", "airflow-redis", "conn"} /\ credential' \in 0..MaxRotations
    BY DEF DatabasesInv, DbaasTypeOK
  <1>. QED
    BY <1>1, DatabasesKept

\* Without a connection, or with the one of DBaaS, there is nothing to compare.
LEMMA RestAnswers ==
    ASSUME BackendInv, DatabasesInv, NEW p \in Pods, call[p].key \in DatabaseKeys,
           NEW a \in {FromDbaas(call[p].key), WithoutProperties(call[p].key), Raised}
    PROVE  a \in Right[call[p].key] /\ Compared(call[p].key, call[p].metadata, a)
  <1>. DEFINE k == call[p].key
              s == Properties(DatabaseOf(k), credential)
  <1>1. k \in DatabaseKeys /\ k \in Keys
    BY DEF DatabaseKeys
  <1>. HIDE DEF k
  <1>2. s \in Secrets /\ s.database = DatabaseOf(k) /\ ForKey(k, s)
    BY <1>1, Classifiers DEF Properties, Secrets, ForKey, DatabasesInv, DbaasTypeOK
  <1>3. FromDbaas(k) = FromProperties(k, s)
    BY DEF FromDbaas
  <1>. HIDE DEF s
  <1>4. /\ FromDbaas(k) \in Right[k]
        /\ FromDbaas(k).kind # "database" \/ FromDbaas(k).database = DatabaseOf(k)
        /\ WithoutProperties(k) \in Right[k] /\ WithoutProperties(k).kind # "database"
    BY <1>1, <1>2, <1>3, DatabaseAnswers DEF DatabasesInv
  <1>5. Raised \in Right[k] /\ Raised.kind # "database"
    BY <1>1, PlainAnswers DEF Raised
  <1>6. DatabaseOf(k).type = Type(k)
    BY <1>1, TypesOfKeys
  <1>. QED
    BY <1>4, <1>5, <1>6 DEF Compared, k

\* get-by-classifier answers with the properties, or is followed by a PUT.
LEMMA GetByClassifierInv ==
    ASSUME BackendInv, DatabasesInv, NEW p \in Pods, GetByClassifier(p)
    PROVE  BackendInv' /\ DatabasesInv'
  <1>. DEFINE k == call[p].key
  <1>1. call[p].step = "get" /\ k \in DatabaseKeys /\ k \in Keys
    BY KeysOfSteps DEF GetByClassifier
  <1>2. /\ UNCHANGED <<cfg, databases, granted, credential, mountVars, asks>>
        /\ UNCHANGED failures \/ Failure
        /\ Answer(p, FromDbaas(k)) \/ Answer(p, Raised) \/ GoTo(p, "put")
    BY DEF GetByClassifier
  <1>3. BackendInv'
    <2>1. CASE Answer(p, FromDbaas(k))
      BY <1>1, <1>2, <2>1, AnswerInv, RestAnswers
    <2>2. CASE Answer(p, Raised)
      BY <1>1, <1>2, <2>2, AnswerInv, RestAnswers
    <2>3. CASE GoTo(p, "put")
      <3>1. call' = [call EXCEPT ![p].step = "put"] /\ UNCHANGED main
        BY <2>3 DEF GoTo
      <3>2. call \in [Pods -> Calls] /\ "put" \in CallSteps
        BY DEF BackendInv, BackendTypeOK, CallSteps
      <3>3. /\ call' \in [Pods -> Calls]
            /\ \A q \in Pods \ {p} : call'[q] = call[q]
            /\ call'[p].key = call[p].key /\ call'[p].answer = call[p].answer
            /\ call'[p].step = "put"
        BY <3>1, <3>2 DEF Calls
      <3>. QED
        BY <1>1, <1>2, <3>1, <3>3, GoesOn
    <2>. QED
      BY <1>2, <2>1, <2>2, <2>3
  <1>. QED
    BY <1>2, <1>3, NothingCreated

\* The PUT creates the database of the key, unless it is refused or lost.
LEMMA CreateDatabaseInv ==
    ASSUME BackendInv, DatabasesInv, NEW p \in Pods, CreateDatabase(p)
    PROVE  BackendInv' /\ DatabasesInv'
  <1>. DEFINE k == call[p].key
  <1>1. call[p].step = "put" /\ k \in DatabaseKeys /\ k \in Keys
        /\ (cfg.operator => k \notin MountKeys)
    BY KeysOfSteps DEF CreateDatabase
  <1>2. /\ UNCHANGED <<cfg, granted, credential, mountVars, asks>>
        /\ \/ Answer(p, FromDbaas(k))
           \/ Answer(p, WithoutProperties(k))
           \/ Answer(p, Raised)
        /\ \/ databases' = databases \cup {DatabaseOf(k)}
           \/ UNCHANGED databases
        /\ UNCHANGED failures \/ Failure
    BY DEF CreateDatabase
  <1>3. BackendInv'
    <2>1. CASE Answer(p, FromDbaas(k))
      BY <1>1, <1>2, <2>1, AnswerInv, RestAnswers
    <2>2. CASE Answer(p, WithoutProperties(k))
      BY <1>1, <1>2, <2>2, AnswerInv, RestAnswers
    <2>3. CASE Answer(p, Raised)
      BY <1>1, <1>2, <2>3, AnswerInv, RestAnswers
    <2>. QED
      BY <1>2, <2>1, <2>2, <2>3
  <1>4. DatabasesInv'
    <2>1. CASE databases' = databases \cup {DatabaseOf(k)}
      BY <1>1, <1>2, <2>1, DatabaseCreated
    <2>2. CASE UNCHANGED databases
      BY <1>2, <2>2, NothingCreated
    <2>. QED
      BY <1>2, <2>1, <2>2
  <1>. QED
    BY <1>3, <1>4

\* metadata.json is read: the call goes on, or there is no Secret.
LEMMA ReadMetadataInv ==
    ASSUME BackendInv, DatabasesInv, NEW p \in Pods, ReadMetadata(p)
    PROVE  BackendInv' /\ DatabasesInv'
  <1>. DEFINE k == call[p].key
  <1>1. /\ UNCHANGED <<cfg, databases, granted, credential, failures, mountVars, asks>>
        /\ call[p].step = "metadata"
    BY DEF ReadMetadata, dbaasVars
  <1>2. k \in DatabaseKeys /\ k \in MountKeys
    BY <1>1, KeysOfSteps DEF BackendInv
  <1>3. CASE mounted[k] = Absent
    <2>1. Answer(p, WithoutProperties(k))
      BY <1>3 DEF ReadMetadata
    <2>. QED
      BY <1>1, <1>2, <2>1, AnswerInv, RestAnswers, NothingCreated
  <1>4. CASE mounted[k] # Absent
    <2>1. /\ call' = [call EXCEPT ![p].step = "properties", ![p].metadata = mounted[k].database]
          /\ UNCHANGED main
      BY <1>4 DEF ReadMetadata
    <2>2. call \in [Pods -> Calls] /\ "properties" \in CallSteps
      BY DEF BackendInv, BackendTypeOK, CallSteps
    <2>3. mounted[k].database \in AllDatabases
      BY <1>2, <1>4 DEF BackendInv, BackendTypeOK, Secrets
    <2>4. /\ call' \in [Pods -> Calls]
          /\ \A q \in Pods \ {p} : call'[q] = call[q]
          /\ call'[p].key = call[p].key /\ call'[p].answer = call[p].answer
          /\ call'[p].step = "properties"
      BY <2>1, <2>2, <2>3 DEF Calls
    <2>. QED
      BY <1>1, <1>4, <2>1, <2>4, GoesOn, NothingCreated
  <1>. QED
    BY <1>3, <1>4

\* connectionProperties.json is read, maybe from another Secret: an answer is
\* made only if metadata.json had the right type.
LEMMA ReadPropertiesInv ==
    ASSUME BackendInv, DatabasesInv, NEW p \in Pods, ReadProperties(p)
    PROVE  BackendInv' /\ DatabasesInv'
  <1>. DEFINE k == call[p].key
              a == FromProperties(k, mounted[k])
  <1>1. /\ UNCHANGED <<cfg, databases, granted, credential, failures, mountVars, asks>>
        /\ call[p].step = "properties"
        /\ \/ Answer(p, WithoutProperties(k)) \/ Answer(p, Raised)
           \/ call[p].metadata.type = Type(k) /\ Answer(p, a)
    BY DEF ReadProperties, dbaasVars
  <1>2. k \in DatabaseKeys /\ k \in MountKeys /\ mounted[k] # Absent
    BY <1>1, KeysOfSteps DEF BackendInv
  <1>3. mounted[k] \in Secrets /\ ForKey(k, mounted[k])
    BY <1>2 DEF BackendInv, BackendTypeOK, MountsInv, ForKey, ReadsMount
  <1>4. /\ a \in Right[k]
        /\ a.kind # "database" \/ a.database = mounted[k].database
    BY <1>2, <1>3, DatabaseAnswers DEF DatabasesInv
  <1>. HIDE DEF a
  <1>5. CASE call[p].metadata.type = Type(k) /\ Answer(p, a)
    <2>1. Compared(k, call[p].metadata, a)
      BY <1>4, <1>5 DEF Compared
    <2>. QED
      BY <1>1, <1>4, <1>5, <2>1, AnswerInv, NothingCreated
  <1>6. CASE Answer(p, WithoutProperties(k)) \/ Answer(p, Raised)
    BY <1>1, <1>2, <1>6, AnswerInv, RestAnswers, NothingCreated
  <1>. QED
    BY <1>1, <1>5, <1>6

\* MaaS answers, or the request fails.
LEMMA RequestTopicInv ==
    ASSUME BackendInv, DatabasesInv, NEW p \in Pods, RequestTopic(p)
    PROVE  BackendInv' /\ DatabasesInv'
  <1>1. call[p].key = "kafka_conn" /\ call[p].key \in Keys
    BY KeysOfSteps DEF RequestTopic
  <1>2. /\ UNCHANGED <<cfg, databases, granted, credential, mountVars, asks>>
        /\ UNCHANGED failures \/ Failure
        /\ Answer(p, Raised) \/ \E reply \in MaasReplies : Answer(p, FromTopic(reply))
    BY DEF RequestTopic
  <1>3. BackendInv'
    <2>1. CASE Answer(p, Raised)
      <3>1. Raised \in Right[call[p].key] /\ Raised.kind # "database"
        BY <1>1, PlainAnswers DEF Raised
      <3>2. Compared(call[p].key, call[p].metadata, Raised)
        BY <3>1 DEF Compared
      <3>. QED
        BY <1>2, <2>1, <3>1, <3>2, AnswerInv
    <2>2. ASSUME NEW reply \in MaasReplies, Answer(p, FromTopic(reply))
          PROVE  BackendInv'
      <3>1. FromTopic(reply) \in Right[call[p].key] /\ FromTopic(reply).kind # "database"
        BY <1>1, KafkaAnswers DEF DatabasesInv
      <3>2. Compared(call[p].key, call[p].metadata, FromTopic(reply))
        BY <3>1 DEF Compared
      <3>. QED
        BY <1>2, <2>2, <3>1, <3>2, AnswerInv
    <2>. QED
      BY <1>2, <2>1, <2>2
  <1>. QED
    BY <1>2, <1>3, NothingCreated

\* Every step of a call; none of them changes settings or policies.
LEMMA ServeInv ==
    ASSUME BackendInv, DatabasesInv, NEW p \in Pods, Serve(p)
    PROVE  /\ BackendInv' /\ DatabasesInv'
           /\ UNCHANGED <<cfg, granted>>
  <1>1. UNCHANGED <<cfg, granted>>
    BY DEF Serve, GetByClassifier, CreateDatabase, ReadMetadata, ReadProperties, RequestTopic,
           dbaasVars
  <1>. QED
    BY <1>1, GetByClassifierInv, CreateDatabaseInv, ReadMetadataInv, ReadPropertiesInv,
       RequestTopicInv
    DEF Serve

------------------------------------------------------------------------------
(* The script. *)

\* Every statement is executed after those it relies on; what exists stays.
LEMMA ScriptStepInv ==
    ASSUME ScriptInv, NEW a \in Attempts, Script(a) \/ AttemptDies(a)
    PROVE  ScriptInv'
  <1>1. CASE CheckDb(a) \/ CheckUser(a)
    BY <1>1 DEF CheckDb, CheckUser, Check, ScriptInv, CreateDbTypeOK, Statements
  <1>2. CASE CreateDatabaseStatement(a)
    BY <1>2 DEF CreateDatabaseStatement, Create, ScriptInv, CreateDbTypeOK, Statements
  <1>3. CASE CreateUserStatement(a)
    BY <1>3 DEF CreateUserStatement, Create, ScriptInv, CreateDbTypeOK, Statements
  <1>4. CASE GrantStatements(a)
    BY <1>4 DEF GrantStatements, ScriptInv, CreateDbTypeOK, Statements
  <1>5. CASE AttemptDies(a) \/ AttemptRepeated(a)
    BY <1>5 DEF AttemptDies, AttemptRepeated, ScriptInv, CreateDbTypeOK, Statements
  <1>. QED
    BY <1>1, <1>2, <1>3, <1>4, <1>5 DEF Script

------------------------------------------------------------------------------
(* Every step keeps the invariant. *)

\* A pod that is started again has forgotten everything.
LEMMA PodInv ==
    ASSUME BackendInv, DatabasesInv, NEW p \in Pods,
           \/ Serve(p) \/ PodRestarts(p) \/ PodKilled(p)
           \/ \E k \in Keys : AskAfterHook(p, k)
    PROVE  /\ BackendInv' /\ DatabasesInv'
           /\ UNCHANGED <<cfg, granted>>
  <1>1. CASE Serve(p)
    BY <1>1, ServeInv
  <1>2. CASE PodRestarts(p) \/ PodKilled(p)
    <2>1. /\ UNCHANGED <<cfg, databases, granted, credential, mountVars, asks>>
          /\ UNCHANGED failures \/ Failure
          /\ Restart(p)
      BY <1>2 DEF PodRestarts, PodKilled, dbaasVars
    <2>. QED
      BY <2>1, RestartInv, NothingCreated
  <1>3. CASE \E k \in Keys : AskAfterHook(p, k)
    <2>1. PICK k \in Keys : Ask(p, k)
      BY <1>3 DEF AskAfterHook
    <2>2. UNCHANGED <<cfg, databases, granted, credential, failures>>
      BY <2>1 DEF Ask, dbaasVars
    <2>. QED
      BY <2>1, <2>2, AskInv, NothingCreated
  <1>. QED
    BY <1>1, <1>2, <1>3

\* Every step keeps the invariant.
LEMMA StepInv == IInv /\ [Next]_vars => IInv'
  <1>. SUFFICES ASSUME IInv, [Next]_vars PROVE IInv'
    OBVIOUS
  <1>0. JobInv /\ DatabasesInv /\ BackendInv /\ ScriptInv
    BY DEF IInv
  <1>1. CASE \/ JobStep
             \/ JobKilled /\ UNCHANGED <<backendVars, createDbVars>>
    <2>1. JobNext /\ UNCHANGED <<backendVars, createDbVars>>
      BY <1>1 DEF JobStep, JobNext
    <2>2. UNCHANGED cfg
      BY <2>1 DEF JobNext, JobSteps, CreatePgSecret, CreateRedisSecret, RequestDatabase,
                  DeleteSecret, GrantPermissions, Grant, JobRetried, JobKilled, dbaasVars
    <2>. QED
      BY <1>0, <2>1, <2>2, JobStepsInv, BackendFrame, ScriptFrame DEF IInv
  <1>2. ASSUME NEW p \in Pods,
               \/ PodStep(p)
               \/ TaskStep(p)
               \/ HookPassed /\ PodKilled(p) /\ UNCHANGED <<jobVars, createDbVars>>
        PROVE  IInv'
    <2>1. /\ \/ Serve(p) \/ PodRestarts(p) \/ PodKilled(p)
             \/ \E k \in Keys : AskAfterHook(p, k)
          /\ UNCHANGED <<jobVars, createDbVars>>
      BY <1>2 DEF PodStep, TaskStep, Keys
    <2>. QED
      BY <1>0, <2>1, PodInv, JobFrame, ScriptFrame DEF IInv
  <1>3. ASSUME NEW k \in MountKeys, OperatorStep(k) PROVE IInv'
    <2>1. /\ OperatorWrites(k) /\ UNCHANGED <<jobVars, createDbVars>>
          /\ UNCHANGED <<cfg, databases, granted, credential, failures>>
      BY <1>3 DEF OperatorStep, OperatorWrites, dbaasVars
    <2>. QED
      BY <1>0, <2>1, OperatorWritesInv, NothingCreated, JobFrame, ScriptFrame DEF IInv
  <1>4. ASSUME NEW a \in Attempts,
               \/ ScriptStep(a)
               \/ AttemptDies(a) /\ UNCHANGED <<jobVars, backendVars>>
        PROVE  IInv'
    <2>1. /\ Script(a) \/ AttemptDies(a)
          /\ UNCHANGED <<jobVars, backendVars>>
          /\ UNCHANGED <<cfg, databases, granted, credential>>
          /\ UNCHANGED failures \/ Failure
      BY <1>4 DEF ScriptStep, Script, CheckDb, CreateDatabaseStatement, CheckUser,
                  CreateUserStatement, Check, Create, GrantStatements, AttemptRepeated,
                  AttemptDies, dbaasVars
    <2>. QED
      BY <1>0, <2>1, ScriptStepInv, NothingCreated, JobFrame, BackendFrame DEF IInv
  <1>5. CASE Rotate /\ UNCHANGED <<jobVars, backendVars, createDbVars>>
    <2>1. /\ UNCHANGED <<cfg, databases, granted, failures>>
          /\ credential' = credential + 1 /\ credential < MaxRotations
      BY <1>5 DEF Rotate
    <2>2. granted' \subseteq {"airflow", "airflow-redis", "conn"} /\ credential' \in 0..MaxRotations
      BY <1>0, <2>1, DbaasAssumption DEF DatabasesInv, DbaasTypeOK
    <2>3. DatabasesInv'
      BY <1>0, <2>1, <2>2, DatabasesKept
    <2>. QED
      BY <1>0, <1>5, <2>1, <2>3, JobFrame, BackendFrame, ScriptFrame DEF IInv
  <1>6. ASSUME NEW k \in MountKeys,
               ClaimRepaired(k) \/ \E j \in MountKeys : ClaimOther(k, j),
               UNCHANGED <<jobVars, createDbVars>>
        PROVE  IInv'
    <2>1. UNCHANGED <<cfg, databases, granted, credential>> /\ (UNCHANGED failures \/ Failure)
      BY <1>6 DEF ClaimRepaired, ClaimOther, dbaasVars
    <2>. QED
      BY <1>0, <1>6, <2>1, ClaimInv, NothingCreated, JobFrame, ScriptFrame DEF IInv
  <1>7. CASE UNCHANGED vars
    <2>1. UNCHANGED <<cfg, databases, granted, credential, failures>>
          /\ UNCHANGED <<jobVars, backendVars, createDbVars>>
      BY <1>7 DEF vars, dbaasVars
    <2>. QED
      BY <1>0, <2>1, NothingCreated, JobFrame, BackendFrame, ScriptFrame DEF IInv
  <1>. QED
    BY <1>1, <1>2, <1>3, <1>4, <1>5, <1>6, <1>7 DEF Next, Disturbance, Started

------------------------------------------------------------------------------
(* The theorems. *)

\* The inductive invariant holds in every reachable state: what the job has done
\* by the time it comes to a step, whose the databases are, that every answer is
\* right for its key, and what exists on the server at each statement.
THEOREM Invariance == Spec => []IInv
  <1>. QED
    BY InitInv, StepInv, PTL DEF Spec

\* The installation never leaves its types.
THEOREM TypeInvariance == Spec => []TypeOK
  <1>1. IInv => TypeOK
    BY DEF IInv, JobInv, DatabasesInv, BackendInv, ScriptInv, TypeOK
  <1>. QED
    BY <1>1, Invariance, PTL

\* The job and the pods create one database for each use, whoever comes first
\* and however often one of them is started again.
THEOREM OneDatabase == Spec => []OneDatabasePerUse
  <1>1. IInv => OneDatabasePerUse
    BY DEF IInv, DatabasesInv
  <1>. QED
    BY <1>1, Invariance, PTL

\* In operator mode nobody creates a database of the dbaas-operator by REST.
THEOREM OperatorOwns == Spec => []OperatorOwnsDatabases
  <1>1. IInv => OperatorOwnsDatabases
    BY DEF IInv, DatabasesInv
  <1>. QED
    BY <1>1, Invariance, PTL

\* An old Secret is deleted only after DBaaS has answered, in whichever attempt
\* of the job.
THEOREM OldSecretKept == Spec => []OldSecretKeptUntilAnswer
  <1>1. IInv => OldSecretKeptUntilAnswer
    BY DEF IInv, JobInv, OldSecretKeptUntilAnswer
  <1>. QED
    BY <1>1, Invariance, PTL

\* A job that succeeded has granted every policy that was not refused.
THEOREM GrantedOnSuccess == Spec => []SuccessGrants
  <1>1. IInv => SuccessGrants
    BY DEF IInv, JobInv
  <1>. QED
    BY <1>1, Invariance, PTL

\* A pod is connected to the database of the key it asked for, however claims
\* are mistaken, repaired and swapped while pods read; what the type check lets
\* through is a mistaken claim of the same type, and a swap between the two reads.
THEOREM RightDatabase == Spec => []ConnectionIsForKey
  <1>1. IInv => ConnectionIsForKey
    <2>1. MainKeys \subseteq Keys
      BY DEF Keys, MainKeys
    <2>. QED
      BY <2>1
      DEF IInv, BackendInv, BackendTypeOK, Calls, Right, Compared, ConnectionIsForKey, Connected
  <1>. QED
    BY <1>1, Invariance, PTL

\* A server with TLS is talked to as the setting says.
THEOREM TlsAsSet == Spec => []TlsHonoured
  <1>1. IInv => TlsHonoured
    BY DEF IInv, BackendInv, BackendTypeOK, Calls, Right, TlsHonoured
  <1>. QED
    BY <1>1, Invariance, PTL

\* No connection that is to come from DBaaS comes silently from elsewhere.
THEOREM NoFallback == Spec => []NoSilentFallback
  <1>1. IInv => NoSilentFallback
    BY DEF IInv, BackendInv, BackendTypeOK, Calls, Right, NoSilentFallback, MountKeys
  <1>. QED
    BY <1>1, Invariance, PTL

\* For any number of Kafka credentials in any order, the password that is sent
\* is the one of the user that is sent.
THEOREM KafkaPassword == Spec => []KafkaPasswordOfUser
  <1>1. IInv => KafkaPasswordOfUser
    BY DEF IInv, BackendInv, BackendTypeOK, Calls, Right, KafkaPasswordOfUser
  <1>. QED
    BY <1>1, Invariance, PTL

\* A script that is done leaves everything it was to create, for any number of
\* attempts at the same time.
THEOREM DoneIsReady == Spec => []DoneMeansReady
  <1>1. IInv => DoneMeansReady
    BY DEF IInv, ScriptInv, CreateDbTypeOK, DoneMeansReady
  <1>. QED
    BY <1>1, Invariance, PTL

==============================================================================
