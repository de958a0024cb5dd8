---------------------------- MODULE DrSyncFolder -----------------------------
(***************************************************************************)
(* The HDFS part of the DR synchronisation DAG for one folder              *)
(* (tests_dags_image/dags/dr_sync_folderv2.py): the tasks verify_...,      *)
(* initialize_folder_... or update_folder_..., and post_update_....        *)
(*                                                                         *)
(* The main site's folder has a version that its users increase; what a    *)
(* site's folder or snapshot holds is a content (below).  Every HDFS call  *)
(* that changes something is a step of its own, so that a task can fail or *)
(* its pod can be killed between any two of them.  HDFS, distcp and the    *)
(* operator who follows docs/public/dr-sync-dag.md are not code of this    *)
(* repository; they are modelled as the tasks use them.                    *)
(***************************************************************************)
EXTENDS Integers

CONSTANTS
    MaxVersion,  \* bound: number of changes on the main site
    MaxNumber,   \* bound: highest snapshot number
    MaxRuns,     \* bound: number of DAG runs
    KillFirst    \* whether a distcp that outlived its task is gone before the next run

ASSUME FolderAssumption ==
    /\ MaxVersion \in Nat
    /\ MaxNumber \in Nat
    /\ MaxRuns \in Nat
    /\ KillFirst \in BOOLEAN

Versions == 0..MaxVersion
Numbers == 1..MaxNumber

\* Contents: all files of a version, some of its files, or a mixture of
\* versions.  Version 0 is the empty folder.
Full(v) == [kind |-> "full", version |-> v]
Part(v) == [kind |-> "part", version |-> v]
Mixed == [kind |-> "mixed", version |-> 0]
Empty == Full(0)
Contents == {Full(v) : v \in Versions} \cup {Part(v) : v \in Versions} \cup {Mixed}
None == [kind |-> "none", version |-> 0]  \* no snapshot of that number

VARIABLES
    mainLive,   \* version of the main site's folder
    mainSnap,   \* mainSnap[n]: content of snapshot_n of the main site
    drLive,     \* content of the DR site's folder
    drSnap,     \* drSnap[n]: content of snapshot_n of the DR site
    task,       \* what the DAG run does next
    base,       \* snapshot number the running tasks copy from
    target,     \* snapshot number the running tasks copy
    runs,       \* number of DAG runs started
    leftover,   \* snapshot number a distcp without a task copies, or -1
    startedAt   \* history: mainLive when the run started

vars == <<mainLive, mainSnap, drLive, drSnap, task, base, target, runs,
          leftover, startedAt>>
sites == <<mainLive, mainSnap, drLive, drSnap>>

\* "deleteLatest", "recreate": verify_... is about to delete the latest main
\* snapshot, or has deleted it.
Busy == {"verify", "deleteLatest", "recreate", "initialize", "update", "postUpdate", "compare",
         "deleteMain", "deleteDr"}
Tasks == Busy \cup {"idle", "failed", "initializeFailed", "succeeded"}

\* Snapshots of the main site are whole versions, and a run copies from and to
\* snapshot numbers that exist.
TypeOK ==
    /\ mainLive \in Versions
    /\ mainSnap \in [Numbers -> {Full(v) : v \in Versions} \cup {None}]
    /\ drLive \in Contents
    /\ drSnap \in [Numbers -> Contents \cup {None}]
    /\ task \in Tasks
    /\ base \in Numbers \cup {-1}
    /\ target \in Numbers \cup {-1}
    /\ runs \in 0..MaxRuns
    /\ leftover \in Numbers \cup {-1}
    /\ startedAt \in Versions

Init ==
    /\ mainLive \in Versions
    /\ mainSnap = [n \in Numbers |-> None]
    /\ drLive = Empty
    /\ drSnap = [n \in Numbers |-> None]
    /\ task = "idle"
    /\ base = -1
    /\ target = -1
    /\ runs = 0
    /\ leftover = -1
    /\ startedAt = mainLive

------------------------------------------------------------------------------
(* verify_...: check_folder_state. *)

Taken(snap) == {n \in Numbers : snap[n] # None}

\* Bug variant: the numbers start at 0.
LatestOrZero(snap) == IF Taken(snap) = {} THEN 0
                      ELSE CHOOSE n \in Taken(snap) : \A m \in Taken(snap) : m <= n

\* get_latest_snapshot_number
Latest(snap) == IF Taken(snap) = {} THEN -1
                ELSE CHOOSE n \in Taken(snap) : \A m \in Taken(snap) : m <= n

Without(snap, n) == [m \in Numbers |-> IF m = n THEN None ELSE snap[m]]

StartRun ==
    /\ task \notin Busy
    /\ runs < MaxRuns
    /\ KillFirst => leftover = -1
    /\ runs' = runs + 1
    /\ task' = "verify"
    /\ base' = -1
    /\ target' = -1
    /\ startedAt' = mainLive
    /\ UNCHANGED <<sites, leftover>>

CreateMainSnapshot(n) == mainSnap' = [mainSnap EXCEPT ![n] = Full(mainLive)]

\* No snapshot on the main site: the first copy.
VerifyFirst ==
    /\ task = "verify"
    /\ Latest(mainSnap) = -1
    /\ drLive = Empty /\ Latest(drSnap) = -1
    /\ 1 \in Numbers
    /\ CreateMainSnapshot(1)
    /\ base' = -1
    /\ target' = 1
    /\ task' = "initialize"
    /\ UNCHANGED <<mainLive, drLive, drSnap, runs, leftover, startedAt>>

\* Bug variant: the latest main snapshot is copied as it is.
VerifyAgainAsItIs ==
    /\ task = "verify"
    /\ Latest(mainSnap) # -1
    /\ Latest(drSnap) = -1 /\ drLive = Empty
    /\ target' = Latest(mainSnap)
    /\ base' = -1
    /\ task' = "initialize"
    /\ UNCHANGED <<sites, runs, leftover, startedAt>>

\* Snapshots on the main site only, and nothing on the DR site: delete the
\* latest snapshot ...
VerifyAgain ==
    /\ task = "verify"
    /\ Latest(mainSnap) # -1
    /\ Latest(drSnap) = -1 /\ drLive = Empty
    /\ target' = Latest(mainSnap)
    /\ base' = -1
    /\ task' = "deleteLatest"
    /\ UNCHANGED <<sites, runs, leftover, startedAt>>

DeleteLatest ==
    /\ task = "deleteLatest"
    /\ mainSnap' = Without(mainSnap, target)
    /\ task' = "recreate"
    /\ UNCHANGED <<mainLive, drLive, drSnap, base, target, runs, leftover,
                   startedAt>>

\* ... and create it again with what the folder holds now.
Recreate ==
    /\ task = "recreate"
    /\ CreateMainSnapshot(target)
    /\ task' = "initialize"
    /\ UNCHANGED <<mainLive, drLive, drSnap, base, target, runs, leftover,
                   startedAt>>

\* Bug variant: the main snapshot that is the base is deleted before the copy.
VerifyUpdateAndForget ==
    /\ task = "verify"
    /\ Latest(mainSnap) # -1
    /\ Latest(mainSnap) = Latest(drSnap)
    /\ base' = Latest(mainSnap)
    /\ target' = base' + 1
    /\ target' \in Numbers
    /\ mainSnap' = [Without(mainSnap, base') EXCEPT ![target'] = Full(mainLive)]
    /\ task' = "update"
    /\ UNCHANGED <<mainLive, drLive, drSnap, runs, leftover, startedAt>>

\* The latest numbers agree: copy what has changed since.
VerifyUpdate ==
    /\ task = "verify"
    /\ Latest(mainSnap) # -1
    /\ Latest(mainSnap) = Latest(drSnap)
    /\ base' = Latest(mainSnap)
    /\ target' = base' + 1
    /\ target' \in Numbers
    /\ CreateMainSnapshot(target')
    /\ task' = "update"
    /\ UNCHANGED <<mainLive, drLive, drSnap, runs, leftover, startedAt>>

\* The states check_folder_state refuses.
VerifyRefuses ==
    /\ task = "verify"
    /\ \/ Latest(drSnap) = -1 /\ drLive # Empty
       \/ Latest(mainSnap) = -1 /\ Latest(drSnap) # -1
       \/ Latest(drSnap) # -1 /\ Latest(mainSnap) # Latest(drSnap)
    /\ task' = "failed"
    /\ UNCHANGED <<sites, base, target, runs, leftover, startedAt>>

------------------------------------------------------------------------------
(* initialize_folder_... and update_folder_...: distcp over ssh. *)

\* distcp -update without -delete: files of other versions stay.
Copied(v) ==
    IF drLive \in {Empty, Part(v)} THEN Full(v)
    ELSE IF v = 0 \/ drLive = Full(v) THEN drLive ELSE Mixed
PartlyCopied(v) ==
    IF v = 0 \/ drLive = Full(v) THEN drLive
    ELSE IF drLive \in {Empty, Part(v)} THEN Part(v) ELSE Mixed

SourceVersion == mainSnap[target].version

Initialize ==
    /\ task = "initialize"
    /\ drLive' = Copied(SourceVersion)
    /\ task' = "postUpdate"
    /\ UNCHANGED <<mainLive, mainSnap, drSnap, base, target, runs, leftover,
                   startedAt>>

InitializeFails ==
    /\ task = "initialize"
    /\ drLive' \in {drLive, PartlyCopied(SourceVersion)}
    /\ task' = "initializeFailed"
    /\ UNCHANGED <<mainLive, mainSnap, drSnap, base, target, runs, leftover,
                   startedAt>>

\* distcp -diff refuses a target that is not what its base snapshot holds.
Unmodified == drSnap[base] # None /\ drLive = drSnap[base]

\* The difference between two main snapshots makes the newer content only of
\* the older one.
Patched ==
    IF drSnap[base] = mainSnap[base] THEN mainSnap[target]
    ELSE IF mainSnap[base] = mainSnap[target] THEN drLive ELSE Mixed

Update ==
    /\ task = "update"
    /\ Unmodified
    /\ drLive' = Patched
    /\ task' = "postUpdate"
    /\ UNCHANGED <<mainLive, mainSnap, drSnap, base, target, runs, leftover,
                   startedAt>>

\* Bug variant: post_update_... runs after a copy that failed.
UpdateFailsUnnoticed ==
    /\ task = "update"
    /\ drLive' \in IF Unmodified THEN {drLive, Mixed} ELSE {drLive}
    /\ task' = "postUpdate"
    /\ UNCHANGED <<mainLive, mainSnap, drSnap, base, target, runs, leftover,
                   startedAt>>

UpdateFails ==
    /\ task = "update"
    /\ drLive' \in IF Unmodified THEN {drLive, Mixed} ELSE {drLive}
    /\ task' = "failed"
    /\ UNCHANGED <<mainLive, mainSnap, drSnap, base, target, runs, leftover,
                   startedAt>>

\* The pod of the task is killed, distcp goes on without it.
CopyOrphaned ==
    /\ task \in {"initialize", "update"}
    /\ leftover = -1
    /\ leftover' = target
    /\ task' = IF task = "initialize" THEN "initializeFailed" ELSE "failed"
    /\ UNCHANGED <<sites, base, target, runs, startedAt>>

\* It reads the snapshot by its path, so what it copies is what the snapshot of
\* that number holds now, and it stops when there is none.  Its files mix with
\* those of another version or, once every file is replaced, are all there is.
LeftoverWrites ==
    /\ leftover # -1 /\ mainSnap[leftover] # None
    /\ LET v == mainSnap[leftover].version IN
        drLive' \in IF v = 0 THEN {drLive} ELSE {PartlyCopied(v), Full(v)}
    /\ UNCHANGED <<mainLive, mainSnap, drSnap, task, base, target, runs, leftover,
                   startedAt>>

LeftoverEnds ==
    /\ leftover # -1
    /\ leftover' = -1
    /\ UNCHANGED <<sites, task, base, target, runs, startedAt>>

------------------------------------------------------------------------------
(* post_update_...: validate_distcp_successful. *)

\* HDFS refuses to create a snapshot that exists.
CreateDrSnapshot ==
    LET n == Latest(mainSnap) IN
    /\ task = "postUpdate"
    /\ n # -1 /\ drSnap[n] = None
    /\ drSnap' = [drSnap EXCEPT ![n] = drLive]
    /\ task' = "compare"
    /\ UNCHANGED <<mainLive, mainSnap, drLive, base, target, runs, leftover,
                   startedAt>>

\* Only the names at the top of the two snapshots are compared: different
\* contents may have the same ones.
Compare ==
    LET n == Latest(mainSnap) IN
    /\ task = "compare"
    /\ \/ task' = "deleteMain"
       \/ drSnap[n] # mainSnap[n] /\ task' = "failed"
    /\ UNCHANGED <<sites, base, target, runs, leftover, startedAt>>

DeleteMainSnapshot ==
    /\ task = "deleteMain"
    /\ mainSnap' = Without(mainSnap, Latest(mainSnap) - 1)
    /\ task' = "deleteDr"
    /\ UNCHANGED <<mainLive, drLive, drSnap, base, target, runs, leftover,
                   startedAt>>

\* Bug variant: deletes the snapshot that was just created.
DeleteDrLatest ==
    /\ task = "deleteDr"
    /\ drSnap' = Without(drSnap, Latest(mainSnap))
    /\ task' = "succeeded"
    /\ UNCHANGED <<mainLive, mainSnap, drLive, base, target, runs, leftover,
                   startedAt>>

DeleteDrSnapshot ==
    /\ task = "deleteDr"
    /\ drSnap' = Without(drSnap, Latest(mainSnap) - 1)
    /\ task' = "succeeded"
    /\ UNCHANGED <<mainLive, mainSnap, drLive, base, target, runs, leftover,
                   startedAt>>

------------------------------------------------------------------------------
(* An HDFS call fails or the pod of the task is killed between two calls. *)

TaskFails ==
    /\ task \in Busy \ {"initialize", "update"}
    /\ task' = "failed"
    /\ UNCHANGED <<sites, base, target, runs, leftover, startedAt>>

------------------------------------------------------------------------------
(* The users of the main site, and the operator between two runs. *)

MainWrites ==
    /\ mainLive < MaxVersion
    /\ mainLive' = mainLive + 1
    /\ UNCHANGED <<mainSnap, drLive, drSnap, task, base, target, runs, leftover,
                   startedAt>>

\* Delete everything in the DR folder; distcp is killed first.
OperatorStartsOver ==
    /\ task \notin Busy
    /\ drLive' = Empty
    /\ drSnap' = [n \in Numbers |-> None]
    /\ leftover' = -1
    /\ UNCHANGED <<mainLive, mainSnap, task, base, target, runs, startedAt>>

Common == Taken(mainSnap) \cap Taken(drSnap)

\* Restore the latest snapshot that both sites have on the DR site and remove
\* the others; distcp is killed first.
OperatorRestores ==
    /\ task = "failed"
    /\ \E n \in Common :
        /\ \A m \in Common : m <= n
        /\ drLive' = drSnap[n]
        /\ drSnap' = [m \in Numbers |-> IF m = n THEN drSnap[n] ELSE None]
        /\ mainSnap' = [m \in Numbers |-> IF m = n THEN mainSnap[n] ELSE None]
    /\ leftover' = -1
    /\ UNCHANGED <<mainLive, task, base, target, runs, startedAt>>

\* Clear the state of initialize_..., so that Airflow runs it again.
OperatorClears ==
    /\ task = "initializeFailed"
    /\ leftover' = -1
    /\ task' = "initialize"
    /\ UNCHANGED <<sites, base, target, runs, startedAt>>

------------------------------------------------------------------------------
Verify == VerifyFirst \/ VerifyAgain \/ DeleteLatest \/ Recreate
          \/ VerifyUpdate \/ VerifyRefuses
Copy == Initialize \/ InitializeFails \/ Update \/ UpdateFails
        \/ CopyOrphaned \/ LeftoverWrites \/ LeftoverEnds
PostUpdate == CreateDrSnapshot \/ Compare \/ DeleteMainSnapshot \/ DeleteDrSnapshot
Operator == OperatorStartsOver \/ OperatorRestores \/ OperatorClears

Next == StartRun \/ Verify \/ Copy \/ PostUpdate \/ TaskFails \/ MainWrites
        \/ Operator

Spec == Init /\ [][Next]_vars

------------------------------------------------------------------------------
(* Properties. *)

\* "the contents of the snapshot on the main site is the same as on the DR
\* site" (docs/public/dr-sync-dag.md, HDFS Part, step 3): the next run copies
\* only a difference, which is right only if this holds, and the numbers are
\* all that check_folder_state compares.
MatchingSnapshotsAgree == \A n \in Common : drSnap[n] = mainSnap[n]

\* However a run was interrupted, a DR site with snapshots has one that the
\* main site has too: the manual resolution the documentation describes is
\* always possible.
AlwaysABase == Taken(drSnap) # {} => Common # {}

\* A run that succeeded has left on the DR site, in the folder and in its
\* latest snapshot, everything the main site held when the run started.
SuccessIsFresh ==
    (task = "succeeded" /\ Taken(drSnap) # {}) =>
        \E v \in startedAt..MaxVersion :
            drLive = Full(v) /\ drSnap[Latest(drSnap)] = Full(v)

\* Seen as a replica, the DR site can be taken back to what its latest
\* snapshot holds; a snapshot that is not a complete version is none at all.
RestorableVersion ==
    LET n == Latest(drSnap) IN
    IF n = -1 THEN -1 ELSE IF drSnap[n].kind = "full" THEN drSnap[n].version ELSE -2

ReplicaOf == INSTANCE Replica WITH source <- mainLive, copy <- RestorableVersion

\* The DR site is a replica that only becomes newer, whatever fails on the way
\* and however the operator repairs it, unless the operator starts over.
IsReplica == ReplicaOf!Spec

==============================================================================
