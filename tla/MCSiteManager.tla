---------------------------- MODULE MCSiteManager ----------------------------
(***************************************************************************)
(* Instances of SiteManager for TLC: a scheduler Deployment, a Celery      *)
(* worker StatefulSet and, in some runs, a component that the site         *)
(* manager's replica settings do not mention (like redis).                 *)
(***************************************************************************)
EXTENDS SiteManager, TLC

MCReplicaMap == "scheduler" :> 1 @@ "api-server" :> 1 @@ "worker" :> 1
MCTwoSchedulers == "scheduler" :> 2 @@ "worker" :> 1
==============================================================================
