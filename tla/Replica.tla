------------------------------- MODULE Replica -------------------------------
(***************************************************************************)
(* What disaster recovery synchronisation promises for one folder          *)
(* (docs/public/dr-sync-dag.md, HDFS Part): the DR site can always be      *)
(* taken back to a complete copy of the folder as it once was on the main  *)
(* site, the copy only becomes newer, and it disappears only when an       *)
(* operator clears the DR site to start over.                              *)
(***************************************************************************)
EXTENDS Integers

CONSTANT MaxVersion  \* bound: number of changes on the main site

NoCopy == -1

VARIABLES
    source,  \* version of the folder on the main site
    copy     \* version the DR site can be restored to

Init == source \in 0..MaxVersion /\ copy = NoCopy

Write == source < MaxVersion /\ source' = source + 1 /\ UNCHANGED copy

Synchronise == copy' \in copy..source /\ UNCHANGED source

StartOver == copy' = NoCopy /\ UNCHANGED source

Next == Write \/ Synchronise \/ StartOver

Spec == Init /\ [][Next]_<<source, copy>>
==============================================================================
