--------------------------- MODULE MCAirflowHealth ---------------------------
(***************************************************************************)
(* An instance of AirflowHealth for TLC: a scheduler that should have two  *)
(* replicas, an API server, Celery workers that share their label with     *)
(* Kubernetes executor workers, statsd, and a flower that is not deployed. *)
(***************************************************************************)
EXTENDS AirflowHealth, TLC

MCReplicaMap == "scheduler" :> 2 @@ "api-server" :> 1 @@ "worker" :> 1
                  @@ "flower" :> 1 @@ "statsd" :> 1
==============================================================================
