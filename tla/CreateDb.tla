------------------------------- MODULE CreateDb -------------------------------
(***************************************************************************)
(* docker/createdb.py: a job that creates the database and its user on a   *)
(* PostgreSQL server, one autocommitted statement after the other.  A      *)
(* failing attempt is repeated from the start, and two attempts may run at *)
(* the same time when the node of the first one is lost.                   *)
(***************************************************************************)
EXTENDS Dbaas

CONSTANT Attempts

VARIABLES
    script,  \* script[a]: the statement attempt a executes next
    server   \* what exists on the server

createDbVars == <<script, server>>

Statements == {"checkDb", "createDb", "checkUser", "createUser", "grant", "own"}
CreateDbTypeOK ==
    /\ script \in [Attempts -> Statements \cup {"off", "failed", "done"}]
    /\ server \in [db : BOOLEAN, user : BOOLEAN, granted : BOOLEAN, owned : BOOLEAN]

\* The database and the user may have been created before.
CreateDbInit ==
    /\ script = [a \in Attempts |-> IF cfg.installation = "direct" THEN "checkDb" ELSE "off"]
    /\ server \in [db : BOOLEAN, user : BOOLEAN, granted : {FALSE}, owned : {FALSE}]
    /\ server.db \/ server.user => cfg.installation = "direct"

\* SELECT 1 ..., then the statement that creates what was not found.
Check(a, what, check, create, next) ==
    /\ script[a] = check
    /\ script' = [script EXCEPT ![a] = IF server[what] THEN next ELSE create]
    /\ UNCHANGED <<dbaasVars, server>>

\* PostgreSQL refuses to create what exists: the script ends with an exception.
Create(a, what, create, next) ==
    /\ script[a] = create
    /\ script' = [script EXCEPT ![a] = IF server[what] THEN "failed" ELSE next]
    /\ server' = [server EXCEPT ![what] = TRUE]
    /\ UNCHANGED dbaasVars

\* Bug variant: a database that exists is taken to be ready.
CheckDbAndStop(a) == Check(a, "db", "checkDb", "createDb", "done")

CheckDb(a) == Check(a, "db", "checkDb", "createDb", "checkUser")
CreateDatabaseStatement(a) == Create(a, "db", "createDb", "checkUser")

\* Bug variant: the user is created without looking for it.
CheckUserNever(a) == script[a] = "checkUser" /\ script' = [script EXCEPT ![a] = "createUser"]
                     /\ UNCHANGED <<dbaasVars, server>>

CheckUser(a) == Check(a, "user", "checkUser", "createUser", "grant")
CreateUserStatement(a) == Create(a, "user", "createUser", "grant")

\* GRANT, then ALTER DATABASE ... OWNER TO, whether or not something was created.
GrantStatements(a) ==
    /\ \/ /\ script[a] = "grant"
          /\ server' = [server EXCEPT !.granted = TRUE]
          /\ script' = [script EXCEPT ![a] = "own"]
       \/ /\ script[a] = "own"
          /\ server' = [server EXCEPT !.owned = TRUE]
          /\ script' = [script EXCEPT ![a] = "done"]
    /\ UNCHANGED dbaasVars

\* The connection is lost or the pod dies; what was executed stays.
AttemptDies(a) ==
    /\ script[a] \in Statements
    /\ Failure
    /\ script' = [script EXCEPT ![a] = "failed"]
    /\ UNCHANGED <<cfg, databases, granted, credential, server>>

AttemptRepeated(a) ==
    /\ script[a] = "failed"
    /\ script' = [script EXCEPT ![a] = "checkDb"]
    /\ UNCHANGED <<dbaasVars, server>>

Script(a) ==
    \/ CheckDb(a) \/ CreateDatabaseStatement(a) \/ CheckUser(a)
    \/ CreateUserStatement(a) \/ GrantStatements(a) \/ AttemptRepeated(a)

------------------------------------------------------------------------------
(* Properties. *)

\* An attempt that ends without an exception leaves a database whose owner is
\* the user, wherever an earlier or a concurrent attempt stopped.
DoneMeansReady ==
    \A a \in Attempts : script[a] = "done" =>
        server = [db |-> TRUE, user |-> TRUE, granted |-> TRUE, owned |-> TRUE]

==============================================================================
