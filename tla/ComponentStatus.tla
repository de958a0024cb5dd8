--------------------------- MODULE ComponentStatus ---------------------------
(***************************************************************************)
(* How the Airflow site manager classifies one component from the number   *)
(* of its ready pods: getComponentStatus and isComponentUp of              *)
(* site-manager/pkg/disasterrecovery/airflow/manager.go.  The mode         *)
(* switcher (SiteManager) and the health endpoint (AirflowHealth) both     *)
(* use it.                                                                 *)
(***************************************************************************)
EXTENDS Integers

\* The integers the code uses as verdicts.
Up == 1
Down == 0
Degraded == -10
Unknown == 10000

(***************************************************************************)
(* The verdict on a component that has readyPods ready pods and should     *)
(* have wanted.  More pods than wanted is neither up, down nor degraded:   *)
(* the initial value 10000 survives.  A pod listing that fails leaves the  *)
(* same 10000 behind.                                                      *)
(***************************************************************************)
GetComponentStatus(readyPods, wanted) ==
    CASE readyPods = 0                         -> Down
      [] readyPods > 0 /\ readyPods < wanted   -> Degraded
      [] readyPods > 0 /\ readyPods = wanted   -> Up
      [] OTHER                                 -> Unknown

IsComponentUp(readyPods, wanted) == GetComponentStatus(readyPods, wanted) = Up
==============================================================================
