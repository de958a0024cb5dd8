------------------------------ MODULE Bootstrap -------------------------------
(***************************************************************************)
(* An installation from its pre-install hook to running Airflow pods: the  *)
(* job (PreinstallJob, or CreateDb without DBaaS) and the secrets backend  *)
(* of the pods (SecretsBackend) on one DBaaS.                              *)
(***************************************************************************)
EXTENDS PreinstallJob, SecretsBackend, CreateDb

vars == <<dbaasVars, jobVars, backendVars, createDbVars>>

TypeOK == DbaasTypeOK /\ JobTypeOK /\ BackendTypeOK /\ CreateDbTypeOK

Init == DbaasInit /\ JobInit /\ BackendInit /\ CreateDbInit

\* Helm installs the pods when the hook has succeeded, or when there is none.
HookPassed == cfg.installation = "dbaas" /\ job \in {"off", "succeeded"}

AskAfterHook(p, k) == HookPassed /\ Ask(p, k)

Started == {p \in Pods : p <= cfg.replicas}

JobStep == JobSteps /\ UNCHANGED <<backendVars, createDbVars>>
PodStep(p) ==
    /\ Serve(p) \/ PodRestarts(p) \/ \E k \in MainKeys : AskAfterHook(p, k)
    /\ UNCHANGED <<jobVars, createDbVars>>
TaskStep(p) == (\E k \in ConnKeys : AskAfterHook(p, k)) /\ UNCHANGED <<jobVars, createDbVars>>
OperatorStep(k) == OperatorWrites(k) /\ UNCHANGED <<jobVars, createDbVars>>
ScriptStep(a) == Script(a) /\ UNCHANGED <<jobVars, backendVars>>
Disturbance ==
    \/ Rotate /\ UNCHANGED <<jobVars, backendVars, createDbVars>>
    \/ JobKilled /\ UNCHANGED <<backendVars, createDbVars>>
    \/ (\E k \in MountKeys : ClaimRepaired(k) \/ \E j \in MountKeys : ClaimOther(k, j))
        /\ UNCHANGED <<jobVars, createDbVars>>
    \/ (\E p \in Started : HookPassed /\ PodKilled(p)) /\ UNCHANGED <<jobVars, createDbVars>>
    \/ (\E a \in Attempts : AttemptDies(a)) /\ UNCHANGED <<jobVars, backendVars>>

Next ==
    \/ JobStep
    \/ \E p \in Started : PodStep(p) \/ TaskStep(p)
    \/ \E k \in MountKeys : OperatorStep(k)
    \/ \E a \in Attempts : ScriptStep(a)
    \/ Disturbance

\* Kubernetes runs the job, the pods and the scripts, and the dbaas-operator
\* writes Secrets; nothing makes a task ask or something fail.  That some pod,
\* some script and some Secret makes progress is enough.
Fairness ==
    /\ WF_vars(JobStep)
    /\ WF_vars(\E p \in Started : PodStep(p))
    /\ WF_vars(\E k \in MountKeys : OperatorStep(k))
    /\ WF_vars(\E a \in Attempts : ScriptStep(a))

Spec == Init /\ [][Next]_vars /\ Fairness

------------------------------------------------------------------------------
(* Properties of the whole. *)

Up(p) == \A k \in MainNeeded : Session(p, k) /\ main[p][k].credential = credential

\* What no retry repairs: the hook gave up, a policy was refused in the attempt
\* that succeeded or never asked for, a main database is claimed with the wrong
\* type, or the properties of the metadata database hold no name.
Excused ==
    \/ job = "failed"
    \/ cfg.m2m /\ ~cfg.operator /\ (job = "off" \/ refusals # {})
    \/ cfg.operator /\ \E k \in MainNeeded : claimed[k].type # Type(k)
    \/ "postgresql" \in cfg.unnamed

\* Whatever fails while an installation starts - requests refused or lost, the
\* job or pods killed, passwords rotated, databases the job could not create,
\* claims mistaken and repaired - every pod ends up connected with the password in force.
PodsConnect ==
    <>[](cfg.installation = "direct" \/ Excused \/ \A p \in Started : Up(p))

\* Every attempt to create a database directly ends well in the end, although a
\* concurrent attempt may make a statement fail.
CreateDbEnds == cfg.installation = "direct" ~> \A a \in Attempts : script[a] = "done"

==============================================================================
