----------------------------- MODULE MCDrSyncDag ------------------------------
(***************************************************************************)
(* Instances of DrSyncDag for TLC; the bounds are in the .cfg file.        *)
(***************************************************************************)
EXTENDS DrSyncDag
==============================================================================
