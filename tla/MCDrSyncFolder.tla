--------------------------- MODULE MCDrSyncFolder ----------------------------
(***************************************************************************)
(* Instances of DrSyncFolder for TLC; the bounds are in the .cfg files.    *)
(***************************************************************************)
EXTENDS DrSyncFolder
==============================================================================
