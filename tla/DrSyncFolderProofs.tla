-------------------------- MODULE DrSyncFolderProofs --------------------------
(***************************************************************************)
(* Proofs about DrSyncFolder, for any number of changes, snapshots and     *)
(* runs.  What the sites hold agrees only if a distcp that outlived its    *)
(* task is gone before the next run (KillFirst).                           *)
(***************************************************************************)
EXTENDS DrSyncFolder, WellFoundedInduction, TLAPS

------------------------------------------------------------------------------
(* The inductive invariant. *)

\* The tasks from the moment the snapshot to copy exists.
Copying == {"initialize", "initializeFailed", "update", "postUpdate", "compare",
            "deleteMain", "deleteDr"}
\* ... and from the moment the DR site has it too, until somebody clears the site.
OnBothSites ==
    \/ task \in {"compare", "deleteMain", "deleteDr"}
    \/ task = "succeeded" /\ Taken(drSnap) # {}

\* Which snapshots there are.  The latest one of the DR site is always one of
\* the main site too.
Snapshots ==
    /\ Taken(drSnap) # {} => Latest(drSnap) \in Taken(mainSnap)
    /\ task \in {"deleteLatest", "recreate", "initialize", "initializeFailed"} =>
        Taken(drSnap) = {} /\ target \in Numbers
    /\ task = "recreate" => \A m \in Taken(mainSnap) : m < target
    /\ task \in Copying \cup {"deleteLatest"} \/ OnBothSites =>
        target \in Taken(mainSnap) /\ \A m \in Taken(mainSnap) : m <= target
    /\ task = "update" =>
        /\ base \in Taken(mainSnap) \cap Taken(drSnap) /\ target = base + 1
        /\ \A m \in Taken(drSnap) : m <= base
    /\ task = "postUpdate" => \A m \in Taken(drSnap) : m < target
    /\ OnBothSites => target \in Taken(drSnap) /\ \A m \in Taken(drSnap) : m <= target

\* Versions only become newer.
Newer ==
    /\ startedAt <= mainLive
    /\ \A n \in Taken(mainSnap) : mainSnap[n].version <= mainLive
    /\ task \in Copying \/ OnBothSites => startedAt <= mainSnap[target].version

\* What the DR site holds.
Held ==
    /\ leftover # -1 => /\ task \in {"failed", "initializeFailed"}
                        /\ task = "initializeFailed" => leftover = target
    /\ \A n \in Taken(drSnap) : drSnap[n].kind = "full" /\ drSnap[n].version <= mainLive
    /\ MatchingSnapshotsAgree
    /\ task \in {"deleteLatest", "recreate"} => drLive = Empty
    /\ task \in {"initialize", "initializeFailed"} =>
        drLive \in {Empty, Part(SourceVersion), Full(SourceVersion)}
    /\ task = "postUpdate" \/ OnBothSites => drLive = mainSnap[target]
    /\ task \in {"update", "postUpdate"} =>
        \A n \in Taken(drSnap) : drSnap[n].version <= mainSnap[target].version

IInv == TypeOK /\ Snapshots /\ Newer /\ (KillFirst => Held)

------------------------------------------------------------------------------
(* Snapshot numbers. *)

\* A set of snapshot numbers that is not empty has a highest one.
LEMMA MaxExists ==
    ASSUME NEW S \in SUBSET Numbers, S # {}
    PROVE  \E n \in S : \A m \in S : m <= n
<1> DEFINE R == {ss \in Nat \X Nat : ss[1] < ss[2]}
           T == {MaxNumber - n : n \in S}
<1>1. T \subseteq Nat /\ T # {}
  <2>1. \A n \in S : MaxNumber - n \in Nat
      BY FolderAssumption DEF Numbers
  <2>2. PICK n \in S : TRUE
      OBVIOUS
  <2>3. MaxNumber - n \in T
      BY <2>2
  <2> QED
      BY <2>1, <2>3
<1>2. IsWellFoundedOn(R, Nat)
    BY NatLessThanWellFounded, Zenon DEF OpToRel
<1>3. PICK x \in T : \A y \in T : ~(<<y, x>> \in R)
  <2> HIDE DEF R, T
  <2> QED
      BY <1>1, <1>2, WFMin
<1>4. \A y \in T : x <= y
  <2> SUFFICES ASSUME NEW y \in T PROVE x <= y
      OBVIOUS
  <2>1. x \in Nat /\ y \in Nat
      BY <1>1
  <2>2. ~(y < x)
      BY <1>3, <2>1
  <2> QED
      BY <2>1, <2>2
<1>5. PICK n \in S : x = MaxNumber - n
    OBVIOUS
<1>6. ASSUME NEW m \in S PROVE m <= n
  <2>1. m \in Int /\ n \in Int /\ MaxNumber \in Int
      BY FolderAssumption DEF Numbers
  <2>2. MaxNumber - n <= MaxNumber - m
      BY <1>4, <1>5
  <2> QED
      BY <2>1, <2>2
<1> QED
    BY <1>6

\* get_latest_snapshot_number returns the highest number, or -1.
LEMMA LatestIsMax ==
    ASSUME NEW snap
    PROVE  /\ Taken(snap) = {} <=> Latest(snap) = -1
           /\ Taken(snap) # {} =>
                /\ Latest(snap) \in Taken(snap)
                /\ \A m \in Taken(snap) : m <= Latest(snap)
           /\ \A n \in Taken(snap) : (\A m \in Taken(snap) : m <= n) => Latest(snap) = n
<1>1. Taken(snap) \in SUBSET Numbers /\ \A n \in Numbers : n \in Int /\ n > 0
    BY FolderAssumption DEF Taken, Numbers
<1>2. CASE Taken(snap) = {}
    BY <1>2 DEF Latest
<1>3. CASE Taken(snap) # {}
  <2>1. \E n \in Taken(snap) : \A m \in Taken(snap) : m <= n
      BY <1>1, <1>3, MaxExists
  <2>2. Latest(snap) \in Taken(snap) /\ \A m \in Taken(snap) : m <= Latest(snap)
      BY <1>3, <2>1 DEF Latest
  <2> QED
      BY <1>1, <1>3, <2>2
<1> QED
    BY <1>2, <1>3

\* Creating a snapshot adds its number and leaves the others alone.
LEMMA TakenCreate ==
    ASSUME NEW S, NEW snap \in [Numbers -> S], NEW n \in Numbers, NEW c, c # None
    PROVE  /\ Taken([snap EXCEPT ![n] = c]) = Taken(snap) \cup {n}
           /\ [snap EXCEPT ![n] = c][n] = c
           /\ \A m \in Numbers \ {n} : [snap EXCEPT ![n] = c][m] = snap[m]
BY DEF Taken

\* Deleting one removes its number, if there is one.
LEMMA TakenDelete ==
    ASSUME NEW snap, NEW n
    PROVE  /\ Taken(Without(snap, n)) = Taken(snap) \ {n}
           /\ \A m \in Numbers \ {n} : Without(snap, n)[m] = snap[m]
BY DEF Taken, Without

\* A complete content is no missing snapshot, and the three kinds differ.
LEMMA Kinds ==
    ASSUME NEW v
    PROVE  /\ Full(v) # None /\ Full(v).kind = "full" /\ Full(v).version = v
           /\ Part(v) # None /\ Mixed # None
           /\ \A w : Full(v) # Part(w) /\ Full(v) # Mixed /\ Part(v) # Mixed
                     /\ (Full(v) = Full(w) <=> v = w) /\ (Part(v) = Part(w) <=> v = w)
BY DEF Full, Part, Mixed, None

\* A snapshot of the main site is a complete version.
LEMMA MainIsFull ==
    ASSUME TypeOK, NEW n \in Taken(mainSnap)
    PROVE  /\ n \in Numbers
           /\ mainSnap[n].version \in Versions /\ mainSnap[n] = Full(mainSnap[n].version)
           /\ mainSnap[n] # None
BY Kinds DEF TypeOK, Taken

\* The types of the arguments of the actions.
LEMMA Ranges ==
    /\ Versions \subseteq Int /\ Numbers \subseteq Int /\ -1 \notin Numbers
    /\ Empty \in Contents /\ Empty = Full(0) /\ Mixed \in Contents
    /\ \A v \in Versions : Full(v) \in Contents /\ Part(v) \in Contents
BY FolderAssumption DEF Versions, Numbers, Contents, Empty

------------------------------------------------------------------------------
(* The first state, and the steps that leave the snapshots alone. *)

\* Nothing has been copied at first.
LEMMA InvInit == Init => IInv
<1> SUFFICES ASSUME Init PROVE IInv
    OBVIOUS
<1>1. Taken(mainSnap) = {} /\ Taken(drSnap) = {}
    BY DEF Init, Taken
<1>2. TypeOK
    BY Ranges, FolderAssumption DEF Init, TypeOK, Tasks, Busy
<1>3. ~OnBothSites /\ task \notin Copying
    BY <1>1 DEF Init, OnBothSites, Copying
<1>4. Snapshots
    BY <1>1, <1>3 DEF Init, Snapshots
<1>5. Newer
    BY <1>1, <1>3, FolderAssumption DEF Init, Newer, Versions
<1>6. Held
    BY <1>1, <1>3 DEF Init, Held, MatchingSnapshotsAgree, Common
<1> QED
    BY <1>2, <1>4, <1>5, <1>6 DEF IInv

\* A run may always end, or a new one begin: the tasks it is about are over.
LEMMA InvRest ==
    ASSUME IInv, TypeOK', UNCHANGED <<mainSnap, drSnap, drLive>>,
           task' \in {"verify", "failed"}, mainLive' = mainLive,
           startedAt' \in {startedAt, mainLive},
           KillFirst /\ leftover' # -1 => task' = "failed"
    PROVE  IInv'
<1>1. ~OnBothSites' /\ task' \notin Copying
    BY DEF OnBothSites, Copying
<1>2. Snapshots'
    BY <1>1 DEF IInv, Snapshots, Latest, Taken
<1>3. Newer'
    BY <1>1, Ranges DEF IInv, Newer, Taken, TypeOK
<1>4. ASSUME KillFirst PROVE Held'
    BY <1>1, <1>4 DEF IInv, Held, MatchingSnapshotsAgree, Common, Taken
<1> QED
    BY <1>2, <1>3, <1>4 DEF IInv

\* StartRun, and the failures of the tasks that have copied nothing meanwhile.
LEMMA InvStartOrFail ==
    ASSUME IInv, StartRun \/ VerifyRefuses \/ TaskFails
    PROVE  IInv'
<1>1. CASE StartRun
  <2>1. TypeOK'
      BY <1>1, FolderAssumption DEF IInv, TypeOK, StartRun, sites, Tasks, Busy
  <2> QED
      BY <1>1, <2>1, InvRest DEF StartRun, sites
<1>2. CASE VerifyRefuses \/ TaskFails
  <2>1. TypeOK'
      BY <1>2 DEF IInv, TypeOK, VerifyRefuses, TaskFails, sites, Tasks
  <2> QED
      BY <1>2, <2>1, InvRest DEF VerifyRefuses, TaskFails, sites
<1> QED
    BY <1>1, <1>2

\* The users of the main site make its folder newer.
LEMMA InvMainWrites ==
    ASSUME IInv, MainWrites
    PROVE  IInv'
<1>1. /\ mainLive' = mainLive + 1 /\ mainLive' \in Versions /\ mainLive \in Int
      /\ UNCHANGED <<mainSnap, drLive, drSnap, task, base, target, runs, leftover, startedAt>>
    BY FolderAssumption DEF MainWrites, IInv, TypeOK, Versions
<1>2. TypeOK'
    BY <1>1 DEF IInv, TypeOK
<1>3. Snapshots'
    BY <1>1 DEF IInv, Snapshots, Latest, Taken, OnBothSites
<1>4. Newer'
  <2>1. /\ startedAt \in Int
        /\ \A n \in Taken(mainSnap) : mainSnap[n].version \in Int
      BY MainIsFull, Ranges DEF IInv, TypeOK
  <2> QED
      BY <1>1, <2>1 DEF IInv, Newer, Taken, OnBothSites
<1>5. ASSUME KillFirst PROVE Held'
  <2>1. \A n \in Taken(drSnap) : drSnap[n] = Full(drSnap[n].version) => drSnap[n].version \in Int
      BY Kinds, Ranges DEF IInv, TypeOK, Taken, Contents, Full, Part, Mixed, None
  <2>2. \A n \in Taken(drSnap) : drSnap[n].kind = "full" => drSnap[n].version \in Int
      BY Kinds, Ranges DEF IInv, TypeOK, Taken, Contents, Full, Part, Mixed, None
  <2>3. \A n \in Taken(drSnap)' : drSnap'[n].kind = "full" /\ drSnap'[n].version <= mainLive'
      BY <1>1, <1>5, <2>2 DEF IInv, Held, Taken
  <2> QED
      BY <1>1, <1>5, <2>3 DEF IInv, Held, MatchingSnapshotsAgree, Common, Taken, OnBothSites, SourceVersion
<1> QED
    BY <1>2, <1>3, <1>4, <1>5 DEF IInv

------------------------------------------------------------------------------
(* verify_... *)

\* The first copy.
LEMMA InvVerifyFirst ==
    ASSUME IInv, VerifyFirst
    PROVE  IInv'
<1>1. /\ mainSnap' = [mainSnap EXCEPT ![1] = Full(mainLive)] /\ 1 \in Numbers
      /\ target' = 1 /\ base' = -1 /\ task' = "initialize" /\ drLive = Empty
      /\ UNCHANGED <<mainLive, drLive, drSnap, runs, leftover, startedAt>>
      /\ Taken(mainSnap) = {} /\ Taken(drSnap) = {}
    BY LatestIsMax DEF VerifyFirst, CreateMainSnapshot
<1>2. /\ Taken(mainSnap') = {1} /\ mainSnap'[1] = Full(mainLive)
      /\ Taken(drSnap') = {} /\ mainLive \in Versions
    BY <1>1 DEF IInv, TypeOK, Taken, Full, None
<1>3. TypeOK'
    BY <1>1 DEF IInv, TypeOK, Tasks, Busy
<1>4. ~OnBothSites'
    BY <1>1 DEF OnBothSites
<1>5. Snapshots'
  <2>1. \A m \in Taken(mainSnap') : m <= 1
      BY <1>2
  <2> QED
      BY <1>1, <1>2, <1>4, <2>1 DEF Snapshots, Copying
<1>6. Newer'
  <2>1. mainSnap'[1].version = mainLive /\ mainLive <= mainLive
      BY <1>2, Ranges DEF Full
  <2> QED
      BY <1>1, <1>2, <1>4, <2>1 DEF IInv, Newer
<1>7. ASSUME KillFirst PROVE Held'
  <2>1. leftover = -1
      BY <1>7 DEF IInv, Held, VerifyFirst
  <2> QED
      BY <1>1, <1>2, <1>4, <2>1 DEF Held, MatchingSnapshotsAgree, Common
<1> QED
    BY <1>3, <1>5, <1>6, <1>7 DEF IInv

\* A second try of the first copy, before the old snapshot is deleted.
LEMMA InvVerifyAgain ==
    ASSUME IInv, VerifyAgain
    PROVE  IInv'
<1>1. /\ target' = Latest(mainSnap) /\ base' = -1 /\ task' = "deleteLatest" /\ drLive = Empty
      /\ UNCHANGED <<mainLive, mainSnap, drLive, drSnap, runs, leftover, startedAt>>
      /\ Taken(drSnap) = {} /\ target' \in Taken(mainSnap)
      /\ \A m \in Taken(mainSnap) : m <= target'
    BY LatestIsMax DEF VerifyAgain, sites
<1>2. target' \in Numbers
    BY <1>1 DEF Taken
<1>3. TypeOK'
    BY <1>1, <1>2 DEF IInv, TypeOK, Tasks, Busy
<1>4. ~OnBothSites' /\ task' \notin Copying
    BY <1>1 DEF OnBothSites, Copying
<1>5. Snapshots'
    BY <1>1, <1>2, <1>4 DEF Snapshots
<1>6. Newer'
    BY <1>1, <1>4 DEF IInv, Newer
<1>7. ASSUME KillFirst PROVE Held'
  <2>1. leftover = -1
      BY <1>7 DEF IInv, Held, VerifyAgain
  <2> QED
      BY <1>1, <1>4, <2>1 DEF Held, MatchingSnapshotsAgree, Common
<1> QED
    BY <1>3, <1>5, <1>6, <1>7 DEF IInv

\* The old snapshot is deleted ...
LEMMA InvDeleteLatest ==
    ASSUME IInv, DeleteLatest
    PROVE  IInv'
<1>1. /\ mainSnap' = Without(mainSnap, target) /\ task = "deleteLatest" /\ task' = "recreate"
      /\ UNCHANGED <<mainLive, drLive, drSnap, base, target, runs, leftover, startedAt>>
    BY DEF DeleteLatest
<1>2. /\ Taken(drSnap) = {} /\ target \in Numbers
      /\ \A m \in Taken(mainSnap) : m <= target
      /\ Taken(mainSnap') = Taken(mainSnap) \ {target}
      /\ \A m \in Taken(mainSnap') : mainSnap'[m] = mainSnap[m]
    BY <1>1, TakenDelete DEF IInv, Snapshots, Taken
<1>3. TypeOK'
    BY <1>1 DEF IInv, TypeOK, Tasks, Busy, Without
<1>4. ~OnBothSites' /\ task' \notin Copying
    BY <1>1 DEF OnBothSites, Copying
<1>5. Snapshots'
  <2>1. \A m \in Taken(mainSnap') : m < target
      BY <1>2, Ranges DEF Taken
  <2> QED
      BY <1>1, <1>2, <1>4, <2>1 DEF Snapshots
<1>6. Newer'
    BY <1>1, <1>2, <1>4 DEF IInv, Newer
<1>7. ASSUME KillFirst PROVE Held'
  <2>1. leftover = -1 /\ drLive = Empty
      BY <1>1, <1>7 DEF IInv, Held
  <2> QED
      BY <1>1, <1>2, <1>4, <2>1 DEF Held, MatchingSnapshotsAgree, Common
<1> QED
    BY <1>3, <1>5, <1>6, <1>7 DEF IInv

\* ... and created again.
LEMMA InvRecreate ==
    ASSUME IInv, Recreate
    PROVE  IInv'
<1>1. /\ mainSnap' = [mainSnap EXCEPT ![target] = Full(mainLive)]
      /\ task = "recreate" /\ task' = "initialize"
      /\ UNCHANGED <<mainLive, drLive, drSnap, base, target, runs, leftover, startedAt>>
    BY DEF Recreate, CreateMainSnapshot
<1>2. /\ Taken(drSnap) = {} /\ target \in Numbers /\ mainLive \in Versions
      /\ \A m \in Taken(mainSnap) : m < target
    BY <1>1 DEF IInv, Snapshots, TypeOK
<1>3. /\ Taken(mainSnap') = Taken(mainSnap) \cup {target} /\ mainSnap'[target] = Full(mainLive)
      /\ \A m \in Taken(mainSnap') \ {target} : mainSnap'[m] = mainSnap[m]
  <2>1. mainSnap \in [Numbers -> {Full(v) : v \in Versions} \cup {None}]
      BY DEF IInv, TypeOK
  <2> QED
      BY <1>1, <1>2, <2>1, TakenCreate, Kinds DEF Taken
<1>4. TypeOK'
    BY <1>1, <1>2 DEF IInv, TypeOK, Tasks, Busy
<1>5. ~OnBothSites'
    BY <1>1 DEF OnBothSites
<1>6. Snapshots'
  <2>1. \A m \in Taken(mainSnap') : m <= target
      BY <1>2, <1>3, Ranges DEF Taken
  <2> QED
      BY <1>1, <1>2, <1>3, <1>5, <2>1 DEF Snapshots, Copying
<1>7. Newer'
  <2>1. mainSnap'[target].version = mainLive /\ mainLive <= mainLive
      BY <1>2, <1>3, Ranges DEF Full
  <2> QED
      BY <1>1, <1>2, <1>3, <1>5, <2>1 DEF IInv, Newer
<1>8. ASSUME KillFirst PROVE Held'
  <2>1. leftover = -1 /\ drLive = Empty
      BY <1>1, <1>8 DEF IInv, Held
  <2> QED
      BY <1>1, <1>2, <1>5, <2>1 DEF Held, MatchingSnapshotsAgree, Common
<1> QED
    BY <1>4, <1>6, <1>7, <1>8 DEF IInv

\* A snapshot to copy the difference to.  Its number is new on both sites.
LEMMA InvVerifyUpdate ==
    ASSUME IInv, VerifyUpdate
    PROVE  IInv'
<1>1. /\ base' = Latest(mainSnap) /\ target' = base' + 1 /\ target' \in Numbers
      /\ mainSnap' = [mainSnap EXCEPT ![target'] = Full(mainLive)]
      /\ task = "verify" /\ task' = "update"
      /\ UNCHANGED <<mainLive, drLive, drSnap, runs, leftover, startedAt>>
      /\ Latest(mainSnap) = Latest(drSnap) /\ Latest(mainSnap) # -1
    BY DEF VerifyUpdate, CreateMainSnapshot
<1>2. /\ base' \in Taken(mainSnap) /\ base' \in Taken(drSnap) /\ base' \in Numbers
      /\ \A m \in Taken(mainSnap) : m <= base'
      /\ \A m \in Taken(drSnap) : m <= base'
    BY <1>1, LatestIsMax DEF Taken
<1>3. mainLive \in Versions /\ mainSnap \in [Numbers -> {Full(v) : v \in Versions} \cup {None}]
    BY DEF IInv, TypeOK
<1>4. /\ Taken(mainSnap') = Taken(mainSnap) \cup {target'} /\ mainSnap'[target'] = Full(mainLive)
      /\ \A m \in Numbers \ {target'} : mainSnap'[m] = mainSnap[m]
    BY <1>1, <1>3 DEF Taken, Full, None
<1>5. target' \notin Taken(drSnap) /\ target' # base' /\ Taken(drSnap) \subseteq Numbers \ {target'}
    BY <1>1, <1>2, Ranges DEF Taken
<1>6. TypeOK'
    BY <1>1, <1>2, <1>3 DEF IInv, TypeOK, Tasks, Busy
<1>7. ~OnBothSites'
    BY <1>1 DEF OnBothSites
<1>8. Snapshots'
  <2>1. \A m \in Taken(mainSnap') : m <= target'
      BY <1>1, <1>2, <1>4, Ranges DEF Taken
  <2>2. Latest(drSnap') \in Taken(mainSnap')
      BY <1>1, <1>2, <1>4
  <2> QED
      BY <1>1, <1>2, <1>4, <1>7, <2>1, <2>2 DEF Snapshots
<1>9. Newer'
  <2>1. \A n \in Taken(mainSnap') : mainSnap'[n].version <= mainLive
      BY <1>3, <1>4, Kinds, Ranges DEF IInv, Newer, Taken
  <2>2. mainSnap'[target'].version = mainLive
      BY <1>4 DEF Full
  <2> QED
      BY <1>1, <1>7, <2>1, <2>2 DEF IInv, Newer
<1>10. ASSUME KillFirst PROVE Held'
  <2>1. leftover = -1
      BY <1>1, <1>10 DEF IInv, Held
  <2>2. \A n \in Common' : n \in Common /\ mainSnap'[n] = mainSnap[n]
      BY <1>1, <1>4, <1>5 DEF Common, Taken
  <2> QED
      BY <1>1, <1>4, <1>7, <1>10, <2>1, <2>2, Kinds DEF IInv, Held, MatchingSnapshotsAgree
<1> QED
    BY <1>6, <1>8, <1>9, <1>10 DEF IInv

------------------------------------------------------------------------------
(* initialize_... and update_... *)

\* distcp of a first copy brings all files of the snapshot.
LEMMA InvInitialize ==
    ASSUME IInv, Initialize \/ InitializeFails
    PROVE  IInv'
<1>1. /\ task = "initialize" /\ task' \in {"postUpdate", "initializeFailed"}
      /\ UNCHANGED <<mainLive, mainSnap, drSnap, base, target, runs, leftover, startedAt>>
    BY DEF Initialize, InitializeFails
<1>2. /\ Taken(drSnap) = {} /\ target \in Taken(mainSnap)
      /\ \A m \in Taken(mainSnap) : m <= target
    BY <1>1 DEF IInv, Snapshots, Copying
<1>3. SourceVersion \in Versions /\ mainSnap[target] = Full(SourceVersion)
    BY <1>2, MainIsFull DEF IInv, SourceVersion
<1>4. drLive \in Contents
    BY DEF IInv, TypeOK
<1>5. Copied(SourceVersion) \in Contents /\ PartlyCopied(SourceVersion) \in Contents
    BY <1>3, <1>4, Ranges DEF Copied, PartlyCopied
<1>6. drLive' \in Contents
    BY <1>4, <1>5 DEF Initialize, InitializeFails
<1>7. TypeOK'
    BY <1>1, <1>6 DEF IInv, TypeOK, Tasks, Busy
<1>8. ~OnBothSites' /\ task' \in Copying /\ task \in Copying
    BY <1>1 DEF OnBothSites, Copying
<1>9. Snapshots'
    BY <1>1, <1>2, <1>8 DEF IInv, Snapshots
<1>10. Newer'
    BY <1>1, <1>8 DEF IInv, Newer
<1>11. ASSUME KillFirst PROVE Held'
  <2>1. leftover = -1 /\ drLive \in {Empty, Part(SourceVersion), Full(SourceVersion)}
      BY <1>1, <1>11 DEF IInv, Held
  <2>2. CASE Initialize
    <3>1. Copied(SourceVersion) = Full(SourceVersion)
        BY <2>1, Ranges DEF Copied
    <3> QED
        BY <1>1, <1>2, <1>3, <1>8, <2>1, <2>2, <3>1
        DEF Initialize, Held, MatchingSnapshotsAgree, Common
  <2>3. CASE InitializeFails
    <3>1. PartlyCopied(SourceVersion) \in {Empty, Part(SourceVersion), Full(SourceVersion)}
        BY <2>1, Ranges DEF PartlyCopied
    <3>2. drLive' \in {Empty, Part(SourceVersion), Full(SourceVersion)} /\ task' = "initializeFailed"
        BY <2>1, <2>3, <3>1 DEF InitializeFails
    <3>3. SourceVersion' = SourceVersion
        BY <1>1 DEF SourceVersion
    <3> QED
        BY <1>1, <1>2, <1>8, <2>1, <3>2, <3>3 DEF Held, MatchingSnapshotsAgree, Common
  <2> QED
      BY <2>2, <2>3
<1> QED
    BY <1>7, <1>9, <1>10, <1>11 DEF IInv

\* distcp of a difference: right because the base agrees.
LEMMA InvUpdate ==
    ASSUME IInv, Update
    PROVE  IInv'
<1>1. /\ task = "update" /\ task' = "postUpdate" /\ Unmodified /\ drLive' = Patched
      /\ UNCHANGED <<mainLive, mainSnap, drSnap, base, target, runs, leftover, startedAt>>
    BY DEF Update
<1>2. /\ base \in Taken(mainSnap) \cap Taken(drSnap) /\ target = base + 1 /\ base \in Int
      /\ \A m \in Taken(drSnap) : m <= base /\ m \in Int
      /\ target \in Taken(mainSnap) /\ \A m \in Taken(mainSnap) : m <= target
    BY <1>1, Ranges DEF IInv, Snapshots, Copying, Taken
<1>3. mainSnap[target] \in Contents
    BY <1>2, MainIsFull, Ranges DEF IInv
<1>4. TypeOK'
    BY <1>1, <1>3, Ranges DEF IInv, TypeOK, Tasks, Busy, Patched
<1>5. ~OnBothSites' /\ task' \in Copying /\ task \in Copying
    BY <1>1 DEF OnBothSites, Copying
<1>6. Snapshots'
  <2>1. \A m \in Taken(drSnap) : m < target
      BY <1>2
  <2> QED
      BY <1>1, <1>2, <1>5, <2>1 DEF IInv, Snapshots
<1>7. Newer'
    BY <1>1, <1>5 DEF IInv, Newer
<1>8. ASSUME KillFirst PROVE Held'
  <2>1. drSnap[base] = mainSnap[base] /\ leftover = -1
      BY <1>1, <1>2, <1>8 DEF IInv, Held, MatchingSnapshotsAgree, Common
  <2>2. drLive' = mainSnap[target]
      BY <1>1, <2>1 DEF Patched
  <2> QED
      BY <1>1, <1>5, <1>8, <2>1, <2>2 DEF IInv, Held, MatchingSnapshotsAgree, Common
<1> QED
    BY <1>4, <1>6, <1>7, <1>8 DEF IInv

\* A failing copy leaves the DR folder behind in some state; nobody but the
\* operator, or the check that it is unmodified, meets it again.
LEMMA InvUpdateFails ==
    ASSUME IInv, UpdateFails
    PROVE  IInv'
<1>1. /\ task = "update" /\ task' = "failed" /\ drLive' \in {drLive, Mixed}
      /\ UNCHANGED <<mainLive, mainSnap, drSnap, base, target, runs, leftover, startedAt>>
    BY DEF UpdateFails
<1>2. TypeOK'
    BY <1>1, Ranges DEF IInv, TypeOK, Tasks
<1>3. ~OnBothSites' /\ task' \notin Copying
    BY <1>1 DEF OnBothSites, Copying
<1>4. Snapshots' /\ Newer'
    BY <1>1, <1>3 DEF IInv, Snapshots, Newer
<1>5. ASSUME KillFirst PROVE Held'
    BY <1>1, <1>3, <1>5 DEF IInv, Held, MatchingSnapshotsAgree, Common
<1> QED
    BY <1>2, <1>4, <1>5 DEF IInv

\* A distcp that goes on without its task.
LEMMA InvCopyOrphaned ==
    ASSUME IInv, CopyOrphaned
    PROVE  IInv'
<1>1. /\ task \in {"initialize", "update"}
      /\ task' = IF task = "initialize" THEN "initializeFailed" ELSE "failed"
      /\ leftover' = target
      /\ UNCHANGED <<mainLive, mainSnap, drLive, drSnap, base, target, runs, startedAt>>
    BY DEF CopyOrphaned, sites
<1>2. TypeOK'
    BY <1>1 DEF IInv, TypeOK, Tasks
<1>3. /\ ~OnBothSites' /\ task \in Copying
      /\ task' = "initializeFailed" \/ (task' = "failed" /\ task' \notin Copying)
      /\ task' = "initializeFailed" => task = "initialize"
    BY <1>1 DEF OnBothSites, Copying
<1>4. Snapshots'
    BY <1>1, <1>3 DEF IInv, Snapshots
<1>5. Newer'
    BY <1>1, <1>3 DEF IInv, Newer
<1>6. SourceVersion' = SourceVersion
    BY <1>1 DEF SourceVersion
<1>7. ASSUME KillFirst PROVE Held'
    BY <1>1, <1>3, <1>6, <1>7 DEF IInv, Held, MatchingSnapshotsAgree, Common
<1> QED
    BY <1>2, <1>4, <1>5, <1>7 DEF IInv

\* It writes files of the snapshot it was started for, if a first copy may be
\* tried again.
LEMMA InvLeftoverWrites ==
    ASSUME IInv, LeftoverWrites
    PROVE  IInv'
<1> DEFINE v == mainSnap[leftover].version
<1>1. /\ leftover # -1 /\ mainSnap[leftover] # None
      /\ drLive' \in {drLive, PartlyCopied(v), Full(v)}
      /\ UNCHANGED <<mainLive, mainSnap, drSnap, task, base, target, runs, leftover, startedAt>>
    BY DEF LeftoverWrites
<1>2. leftover \in Taken(mainSnap)
    BY <1>1 DEF IInv, TypeOK, Taken
<1>3. v \in Versions
    BY <1>2, MainIsFull DEF IInv
<1>4. drLive' \in Contents
    BY <1>1, <1>3, Ranges DEF IInv, TypeOK, PartlyCopied
<1>5. TypeOK'
    BY <1>1, <1>4 DEF IInv, TypeOK
<1>6. Snapshots' /\ Newer'
    BY <1>1 DEF IInv, Snapshots, Newer, OnBothSites
<1>7. ASSUME KillFirst PROVE Held'
  <2>1. task \in {"failed", "initializeFailed"} /\ (task = "initializeFailed" => leftover = target)
      BY <1>1, <1>7 DEF IInv, Held
  <2>2. ~OnBothSites'
      BY <1>1, <2>1 DEF OnBothSites
  <2>3. SourceVersion' = SourceVersion
      BY <1>1 DEF SourceVersion
  <2>4. task = "initializeFailed" =>
          drLive' \in {Empty, Part(SourceVersion), Full(SourceVersion)}
    <3> SUFFICES ASSUME task = "initializeFailed"
                 PROVE  drLive' \in {Empty, Part(SourceVersion), Full(SourceVersion)}
        OBVIOUS
    <3>1. v = SourceVersion /\ drLive \in {Empty, Part(SourceVersion), Full(SourceVersion)}
        BY <1>7, <2>1 DEF IInv, Held, SourceVersion
    <3>2. PartlyCopied(SourceVersion) \in {Empty, Part(SourceVersion), Full(SourceVersion)}
        BY <3>1, Ranges DEF PartlyCopied
    <3> QED
        BY <1>1, <3>1, <3>2
  <2> QED
      BY <1>1, <1>7, <2>1, <2>2, <2>3, <2>4 DEF IInv, Held, MatchingSnapshotsAgree, Common
<1> QED
    BY <1>5, <1>6, <1>7 DEF IInv

\* It ends, or the operator kills it and has the task run again.
LEMMA InvLeftoverGone ==
    ASSUME IInv, LeftoverEnds \/ OperatorClears
    PROVE  IInv'
<1>1. /\ leftover' = -1
      /\ task' = task \/ (task = "initializeFailed" /\ task' = "initialize")
      /\ UNCHANGED <<mainLive, mainSnap, drLive, drSnap, base, target, runs, startedAt>>
    BY DEF LeftoverEnds, OperatorClears, sites
<1>2. TypeOK'
    BY <1>1 DEF IInv, TypeOK, Tasks, Busy
<1>3. /\ OnBothSites' <=> OnBothSites
      /\ task' \in Copying <=> task \in Copying
      /\ task' # "initialize" => task' = task
      /\ task' = "initialize" => task \in {"initialize", "initializeFailed"}
    BY <1>1 DEF OnBothSites, Copying
<1>4. Snapshots'
    BY <1>1, <1>3 DEF IInv, Snapshots
<1>5. Newer'
    BY <1>1, <1>3 DEF IInv, Newer
<1>6. SourceVersion' = SourceVersion
    BY <1>1 DEF SourceVersion
<1>7. ASSUME KillFirst PROVE Held'
    BY <1>1, <1>3, <1>6, <1>7 DEF IInv, Held, MatchingSnapshotsAgree, Common
<1> QED
    BY <1>2, <1>4, <1>5, <1>7 DEF IInv

------------------------------------------------------------------------------
(* post_update_... *)

\* The DR site gets the snapshot of what was copied.
LEMMA InvCreateDrSnapshot ==
    ASSUME IInv, CreateDrSnapshot
    PROVE  IInv'
<1>1. task = "postUpdate" /\ task' = "compare"
    BY DEF CreateDrSnapshot
<1>2. /\ target \in Taken(mainSnap) /\ \A m \in Taken(mainSnap) : m <= target
      /\ \A m \in Taken(drSnap) : m < target
    BY <1>1 DEF IInv, Snapshots, Copying
<1>3. Latest(mainSnap) = target /\ target \in Numbers
    BY <1>2, LatestIsMax DEF Taken
<1>4. /\ drSnap' = [drSnap EXCEPT ![target] = drLive]
      /\ UNCHANGED <<mainLive, mainSnap, drLive, base, target, runs, leftover, startedAt>>
    BY <1>3 DEF CreateDrSnapshot
<1>5. drLive \in Contents /\ drLive # None /\ drSnap \in [Numbers -> Contents \cup {None}]
    BY DEF IInv, TypeOK, Contents, Full, Part, Mixed, None
<1>6. /\ Taken(drSnap') = Taken(drSnap) \cup {target} /\ drSnap'[target] = drLive
      /\ \A m \in Taken(drSnap) \ {target} : drSnap'[m] = drSnap[m]
    BY <1>3, <1>4, <1>5 DEF Taken
<1>7. TypeOK'
    BY <1>1, <1>3, <1>4, <1>5 DEF IInv, TypeOK, Tasks, Busy
<1>8. OnBothSites' /\ task' \in Copying /\ task \in Copying
    BY <1>1 DEF OnBothSites, Copying
<1>9. Snapshots'
  <2>1. target \in Taken(drSnap') /\ \A m \in Taken(drSnap') : m <= target
      BY <1>2, <1>3, <1>6, Ranges DEF Taken
  <2>2. Latest(drSnap') = target
      BY <2>1, LatestIsMax
  <2> QED
      BY <1>1, <1>2, <1>4, <1>8, <2>1, <2>2 DEF Snapshots
<1>10. Newer'
    BY <1>4, <1>8 DEF IInv, Newer
<1>11. ASSUME KillFirst PROVE Held'
  <2>1. drLive = mainSnap[target] /\ leftover = -1
      BY <1>1, <1>11 DEF IInv, Held
  <2>2. drLive.kind = "full" /\ drLive.version <= mainLive
      BY <1>2, <2>1, MainIsFull, Kinds DEF IInv, Newer
  <2>3. \A n \in Taken(drSnap') : drSnap'[n].kind = "full" /\ drSnap'[n].version <= mainLive
      BY <1>6, <1>11, <2>2 DEF IInv, Held
  <2>4. \A n \in Taken(mainSnap) \cap Taken(drSnap') : drSnap'[n] = mainSnap[n]
      BY <1>6, <1>11, <2>1 DEF IInv, Held, MatchingSnapshotsAgree, Common
  <2> QED
      BY <1>1, <1>4, <2>1, <2>3, <2>4 DEF Held, MatchingSnapshotsAgree, Common
<1> QED
    BY <1>7, <1>9, <1>10, <1>11 DEF IInv

\* The comparison.
LEMMA InvCompare ==
    ASSUME IInv, Compare
    PROVE  IInv'
<1>1. /\ task = "compare" /\ task' \in {"deleteMain", "failed"}
      /\ UNCHANGED <<mainLive, mainSnap, drLive, drSnap, base, target, runs, leftover, startedAt>>
    BY DEF Compare, sites
<1>2. TypeOK'
    BY <1>1 DEF IInv, TypeOK, Tasks, Busy
<1>3. OnBothSites /\ task \in Copying /\ (task' = "failed" => ~OnBothSites' /\ task' \notin Copying)
    BY <1>1 DEF OnBothSites, Copying
<1>4. Snapshots'
    BY <1>1, <1>3 DEF IInv, Snapshots
<1>5. Newer'
    BY <1>1, <1>3 DEF IInv, Newer
<1>6. ASSUME KillFirst PROVE Held'
    BY <1>1, <1>3, <1>6 DEF IInv, Held, MatchingSnapshotsAgree, Common
<1> QED
    BY <1>2, <1>4, <1>5, <1>6 DEF IInv

\* The old snapshots are deleted on both sites, never the latest.
LEMMA InvDeleteOld ==
    ASSUME IInv, DeleteMainSnapshot \/ DeleteDrSnapshot
    PROVE  IInv'
<1>1. /\ task \in {"deleteMain", "deleteDr"} /\ task' \in {"deleteDr", "succeeded"}
      /\ UNCHANGED <<mainLive, drLive, base, target, runs, leftover, startedAt>>
    BY DEF DeleteMainSnapshot, DeleteDrSnapshot
<1>2. OnBothSites /\ task \in Copying
    BY <1>1 DEF OnBothSites, Copying
<1>3. /\ target \in Taken(mainSnap) /\ target \in Taken(drSnap)
      /\ \A m \in Taken(mainSnap) : m <= target
      /\ \A m \in Taken(drSnap) : m <= target
    BY <1>2 DEF IInv, Snapshots
<1>4. Latest(mainSnap) = target
    BY <1>3, LatestIsMax
<1> DEFINE old == target - 1
<1>5. \/ mainSnap' = Without(mainSnap, old) /\ UNCHANGED drSnap
      \/ drSnap' = Without(drSnap, old) /\ UNCHANGED mainSnap
    BY <1>4 DEF DeleteMainSnapshot, DeleteDrSnapshot
<1>6. old # target /\ target \in Numbers
    BY <1>3, Ranges DEF Taken
<1>7. /\ Taken(mainSnap') \subseteq Taken(mainSnap) /\ target \in Taken(mainSnap')
      /\ \A m \in Taken(mainSnap') : mainSnap'[m] = mainSnap[m]
      /\ Taken(drSnap') \subseteq Taken(drSnap) /\ target \in Taken(drSnap')
      /\ \A m \in Taken(drSnap') : drSnap'[m] = drSnap[m]
    BY <1>3, <1>5, <1>6 DEF Taken, Without
<1>8. TypeOK'
    BY <1>1, <1>5 DEF IInv, TypeOK, Tasks, Busy, Without
<1>9. OnBothSites' /\ (task' \in Copying \/ OnBothSites') /\ task' \notin {"deleteLatest", "recreate",
          "initialize", "initializeFailed", "update", "postUpdate"}
    BY <1>1, <1>7 DEF OnBothSites
<1>10. Snapshots'
  <2>1. Latest(drSnap') = target
      BY <1>3, <1>7, LatestIsMax
  <2> QED
      BY <1>1, <1>3, <1>7, <1>9, <2>1 DEF Snapshots
<1>11. Newer'
    BY <1>1, <1>2, <1>7 DEF IInv, Newer
<1>12. ASSUME KillFirst PROVE Held'
  <2>1. leftover = -1 /\ drLive = mainSnap[target]
      BY <1>1, <1>2, <1>12 DEF IInv, Held
  <2>2. \A n \in Taken(drSnap') : drSnap'[n].kind = "full" /\ drSnap'[n].version <= mainLive
      BY <1>7, <1>12 DEF IInv, Held
  <2>3. \A n \in Taken(mainSnap') \cap Taken(drSnap') : drSnap'[n] = mainSnap'[n]
      BY <1>7, <1>12 DEF IInv, Held, MatchingSnapshotsAgree, Common
  <2> QED
      BY <1>1, <1>7, <1>9, <2>1, <2>2, <2>3 DEF Held, MatchingSnapshotsAgree, Common
<1> QED
    BY <1>8, <1>10, <1>11, <1>12 DEF IInv

------------------------------------------------------------------------------
(* The operator. *)

\* Everything on the DR site is deleted.
LEMMA InvStartsOver ==
    ASSUME IInv, OperatorStartsOver
    PROVE  IInv'
<1>1. /\ task \notin Busy /\ drLive' = Empty /\ drSnap' = [n \in Numbers |-> None] /\ leftover' = -1
      /\ UNCHANGED <<mainLive, mainSnap, task, base, target, runs, startedAt>>
    BY DEF OperatorStartsOver
<1>2. Taken(drSnap') = {}
    BY <1>1 DEF Taken
<1>3. TypeOK'
    BY <1>1, Ranges DEF IInv, TypeOK
<1>4. ~OnBothSites' /\ (task \in Copying => task = "initializeFailed") /\ task # "initialize"
      /\ task \notin {"deleteLatest", "recreate", "update", "postUpdate"}
    BY <1>1, <1>2 DEF OnBothSites, Copying, Busy
<1>5. Snapshots'
    BY <1>1, <1>2, <1>4 DEF IInv, Snapshots
<1>6. Newer'
    BY <1>1, <1>4 DEF IInv, Newer
<1>7. ASSUME KillFirst PROVE Held'
    BY <1>1, <1>2, <1>4 DEF Held, MatchingSnapshotsAgree, Common
<1> QED
    BY <1>3, <1>5, <1>6, <1>7 DEF IInv

\* The latest snapshot that both sites have is the latest of the DR site.
LEMMA RestoresLatest ==
    ASSUME IInv, NEW n \in Common, \A m \in Common : m <= n
    PROVE  n = Latest(drSnap) /\ n \in Taken(drSnap) /\ n \in Numbers
<1>1. n \in Taken(drSnap) /\ n \in Numbers
    BY DEF Common, Taken
<1>2. Latest(drSnap) \in Common /\ \A m \in Taken(drSnap) : m <= Latest(drSnap)
    BY <1>1, LatestIsMax DEF IInv, Snapshots, Common
<1>3. Latest(drSnap) \in Int /\ n \in Int
    BY <1>1, <1>2, Ranges DEF Common, Taken
<1> QED
    BY <1>1, <1>2, <1>3

\* Both sites are taken back to it.
LEMMA InvRestores ==
    ASSUME IInv, OperatorRestores
    PROVE  IInv'
<1>1. PICK n \in Common :
        /\ \A m \in Common : m <= n
        /\ drLive' = drSnap[n]
        /\ drSnap' = [m \in Numbers |-> IF m = n THEN drSnap[n] ELSE None]
        /\ mainSnap' = [m \in Numbers |-> IF m = n THEN mainSnap[n] ELSE None]
    BY DEF OperatorRestores
<1>2. task = "failed" /\ leftover' = -1 /\ UNCHANGED <<mainLive, task, base, target, runs, startedAt>>
    BY DEF OperatorRestores
<1>3. n \in Numbers /\ n \in Taken(mainSnap) /\ n \in Taken(drSnap)
    BY DEF Common, Taken
<1>4. /\ Taken(mainSnap') = {n} /\ mainSnap'[n] = mainSnap[n]
      /\ Taken(drSnap') = {n} /\ drSnap'[n] = drSnap[n]
    BY <1>1, <1>3 DEF Taken
<1>5. drSnap[n] \in Contents
    BY <1>3 DEF IInv, TypeOK, Taken
<1>6. TypeOK'
    BY <1>1, <1>2, <1>3, <1>5 DEF IInv, TypeOK
<1>7. ~OnBothSites' /\ task' \notin Copying
    BY <1>2 DEF OnBothSites, Copying
<1>8. Latest(drSnap') = n
  <2>1. \A m \in Taken(drSnap') : m <= n
      BY <1>3, <1>4, Ranges
  <2> QED
      BY <1>4, <2>1, LatestIsMax
<1>9. Snapshots'
    BY <1>2, <1>4, <1>7, <1>8 DEF Snapshots
<1>10. Newer'
    BY <1>2, <1>3, <1>4, <1>7 DEF IInv, Newer
<1>11. ASSUME KillFirst PROVE Held'
    BY <1>2, <1>3, <1>4, <1>7, <1>11 DEF IInv, Held, MatchingSnapshotsAgree, Common
<1> QED
    BY <1>6, <1>9, <1>10, <1>11 DEF IInv

------------------------------------------------------------------------------
(* The theorems. *)

\* Every step preserves the invariant.
LEMMA InvStep == IInv /\ [Next]_vars => IInv'
<1> SUFFICES ASSUME IInv, [Next]_vars PROVE IInv'
    OBVIOUS
<1>1. CASE StartRun \/ TaskFails
    BY <1>1, InvStartOrFail
<1>2. CASE Verify
    BY <1>2, InvVerifyFirst, InvVerifyAgain, InvDeleteLatest, InvRecreate, InvVerifyUpdate,
       InvStartOrFail DEF Verify
<1>3. CASE Copy
    BY <1>3, InvInitialize, InvUpdate, InvUpdateFails, InvCopyOrphaned, InvLeftoverWrites,
       InvLeftoverGone DEF Copy
<1>4. CASE PostUpdate
    BY <1>4, InvCreateDrSnapshot, InvCompare, InvDeleteOld DEF PostUpdate
<1>5. CASE MainWrites
    BY <1>5, InvMainWrites
<1>6. CASE Operator
    BY <1>6, InvStartsOver, InvRestores, InvLeftoverGone DEF Operator
<1>7. CASE UNCHANGED vars
  <2>1. UNCHANGED <<mainLive, mainSnap, drLive, drSnap, task, base, target, runs, leftover, startedAt>>
      BY <1>7 DEF vars
  <2> QED
      BY <2>1 DEF IInv, TypeOK, Snapshots, Newer, Held, OnBothSites, MatchingSnapshotsAgree,
                  Common, SourceVersion
<1> QED
    BY <1>1, <1>2, <1>3, <1>4, <1>5, <1>6, <1>7 DEF Next

(***************************************************************************)
(* The inductive invariant holds in every reachable state.                 *)
(***************************************************************************)
THEOREM Invariance == Spec => []IInv
BY InvInit, InvStep, PTL DEF Spec

(***************************************************************************)
(* Every variable keeps its type.                                          *)
(***************************************************************************)
THEOREM TypeInvariance == Spec => []TypeOK
<1>1. IInv => TypeOK
    BY DEF IInv
<1> QED
    BY <1>1, Invariance, PTL

(***************************************************************************)
(* A DR site with snapshots has one in common with the main site, and so   *)
(* the documented repair is possible.  This holds whatever distcp does.    *)
(***************************************************************************)
THEOREM CommonBase == Spec => []AlwaysABase
<1>1. IInv => AlwaysABase
    BY LatestIsMax DEF IInv, Snapshots, AlwaysABase, Common
<1> QED
    BY <1>1, Invariance, PTL

(***************************************************************************)
(* Snapshots with the same number are the same on both sites, if no distcp *)
(* outlives its task into the next run.                                    *)
(***************************************************************************)
THEOREM Agreement ==
    ASSUME KillFirst
    PROVE  Spec => []MatchingSnapshotsAgree
<1>1. IInv => MatchingSnapshotsAgree
    BY DEF IInv, Held
<1> QED
    BY <1>1, Invariance, PTL

(***************************************************************************)
(* A run that succeeded has copied what the main site held at its start.   *)
(***************************************************************************)
THEOREM Freshness ==
    ASSUME KillFirst
    PROVE  Spec => []SuccessIsFresh
<1>1. IInv => SuccessIsFresh
  <2> SUFFICES ASSUME IInv, task = "succeeded", Taken(drSnap) # {}
               PROVE  \E v \in startedAt..MaxVersion :
                        drLive = Full(v) /\ drSnap[Latest(drSnap)] = Full(v)
      BY DEF SuccessIsFresh
  <2>1. OnBothSites
      BY DEF OnBothSites
  <2>2. target \in Common /\ Latest(drSnap) = target
      BY <2>1, LatestIsMax DEF IInv, Snapshots, Common
  <2>3. drLive = mainSnap[target] /\ drSnap[target] = mainSnap[target]
      BY <2>1, <2>2 DEF IInv, Held, MatchingSnapshotsAgree
  <2>4. mainSnap[target].version \in Versions /\ mainSnap[target] = Full(mainSnap[target].version)
      BY <2>2, MainIsFull DEF IInv, Common
  <2>5. startedAt \in Versions /\ startedAt <= mainSnap[target].version
      BY <2>1 DEF IInv, TypeOK, Newer
  <2>6. mainSnap[target].version \in startedAt..MaxVersion
      BY <2>4, <2>5, FolderAssumption DEF Versions
  <2> QED
      BY <2>2, <2>3, <2>4, <2>6
<1> QED
    BY <1>1, Invariance, PTL

------------------------------------------------------------------------------
(* The DR site is a replica. *)

\* What the DR site can be taken back to.
Restores ==
    /\ mainLive \in 0..MaxVersion /\ mainLive \in Int
    /\ RestorableVersion \in -1..mainLive
    /\ Taken(drSnap) = {} => RestorableVersion = -1
    /\ Taken(drSnap) # {} => RestorableVersion = drSnap[Latest(drSnap)].version

\* ... follows from the invariant.
LEMMA Restorable == IInv /\ KillFirst => Restores
<1> SUFFICES ASSUME IInv, KillFirst PROVE Restores
    OBVIOUS
<1> USE DEF Restores
<1>1. mainLive \in 0..MaxVersion /\ mainLive \in Nat
    BY FolderAssumption DEF IInv, TypeOK, Versions
<1>2. CASE Taken(drSnap) = {}
    BY <1>1, <1>2, LatestIsMax DEF RestorableVersion
<1>3. CASE Taken(drSnap) # {}
  <2>1. Latest(drSnap) \in Taken(drSnap) /\ Latest(drSnap) # -1
      BY <1>3, LatestIsMax
  <2>2. drSnap[Latest(drSnap)] = mainSnap[Latest(drSnap)] /\ Latest(drSnap) \in Taken(mainSnap)
      BY <1>3, <2>1 DEF IInv, Snapshots, Held, MatchingSnapshotsAgree, Common
  <2>3. drSnap[Latest(drSnap)].kind = "full" /\ drSnap[Latest(drSnap)].version <= mainLive
      BY <2>1 DEF IInv, Held
  <2>4. drSnap[Latest(drSnap)].version \in Nat
      BY <2>2, MainIsFull, FolderAssumption DEF IInv, Versions
  <2>5. RestorableVersion = drSnap[Latest(drSnap)].version
      BY <2>1, <2>3 DEF RestorableVersion
  <2> QED
      BY <1>1, <1>3, <2>3, <2>4, <2>5
<1> QED
    BY <1>2, <1>3

\* A run that creates a snapshot makes the replica newer.
LEMMA CreateSynchronises ==
    ASSUME IInv, IInv', KillFirst, CreateDrSnapshot
    PROVE  ReplicaOf!Synchronise
<1>1. /\ task = "postUpdate" /\ task' = "compare"
      /\ UNCHANGED <<mainLive, mainSnap, target>>
    BY DEF CreateDrSnapshot
<1>2. OnBothSites'
    BY <1>1 DEF OnBothSites
<1>3. target \in Taken(drSnap') /\ target \in Taken(mainSnap) /\ \A m \in Taken(drSnap') : m <= target
    BY <1>1, <1>2 DEF IInv, Snapshots
<1>4. Latest(drSnap') = target /\ Taken(drSnap') # {}
    BY <1>3, LatestIsMax
<1>5. drSnap'[target] = mainSnap[target]
    BY <1>1, <1>3 DEF IInv, Held, MatchingSnapshotsAgree, Common
<1>6. RestorableVersion' \in -1..mainLive /\ RestorableVersion' = mainSnap[target].version
  <2>1. IInv' /\ KillFirst => Restores'
      BY Restorable, PTL
  <2> QED
      BY <1>1, <1>4, <1>5, <2>1 DEF Restores
<1>7. RestorableVersion <= mainSnap[target].version
  <2>1. mainSnap[target].version \in Nat
      BY <1>3, MainIsFull, FolderAssumption DEF IInv, Versions
  <2>2. CASE Taken(drSnap) = {}
      BY <2>1, <2>2, Restorable DEF Restores
  <2>3. CASE Taken(drSnap) # {}
    <3>1. RestorableVersion = drSnap[Latest(drSnap)].version /\ Latest(drSnap) \in Taken(drSnap)
        BY <2>3, Restorable, LatestIsMax DEF Restores
    <3> QED
        BY <1>1, <3>1 DEF IInv, Held
  <2> QED
      BY <2>2, <2>3
<1>8. RestorableVersion \in Int /\ mainLive \in Int
    BY Restorable DEF Restores
<1>9. RestorableVersion' \in RestorableVersion..mainLive
    BY <1>6, <1>7, <1>8
<1> QED
    BY <1>1, <1>9 DEF ReplicaOf!Synchronise

\* The old snapshots do not count.
LEMMA DeleteKeepsReplica ==
    ASSUME IInv, IInv', KillFirst, DeleteDrSnapshot
    PROVE  UNCHANGED <<mainLive, RestorableVersion>>
<1>1. /\ task = "deleteDr" /\ task' = "succeeded"
      /\ UNCHANGED <<mainLive, mainSnap, target>>
      /\ drSnap' = Without(drSnap, Latest(mainSnap) - 1)
    BY DEF DeleteDrSnapshot
<1>2. OnBothSites
    BY <1>1 DEF OnBothSites
<1>3. /\ target \in Taken(drSnap) /\ \A m \in Taken(drSnap) : m <= target
      /\ target \in Taken(mainSnap) /\ \A m \in Taken(mainSnap) : m <= target
    BY <1>2 DEF IInv, Snapshots
<1>4. Latest(drSnap) = target /\ Latest(mainSnap) = target /\ target \in Int /\ target \in Numbers
    BY <1>3, LatestIsMax, Ranges DEF Taken
<1>5. /\ Taken(drSnap') = Taken(drSnap) \ {target - 1} /\ target # target - 1
      /\ drSnap'[target] = drSnap[target]
    BY <1>1, <1>4, TakenDelete
<1>6. target \in Taken(drSnap') /\ \A m \in Taken(drSnap') : m <= target
    BY <1>3, <1>5
<1>7. Latest(drSnap') = target
    BY <1>6, LatestIsMax
<1> QED
    BY <1>1, <1>4, <1>5, <1>7 DEF RestorableVersion

\* The operator goes back to what the replica is anyway.
LEMMA RestoreKeepsReplica ==
    ASSUME IInv, OperatorRestores
    PROVE  UNCHANGED <<mainLive, RestorableVersion>>
<1>1. PICK n \in Common :
        /\ \A m \in Common : m <= n
        /\ drSnap' = [m \in Numbers |-> IF m = n THEN drSnap[n] ELSE None]
    BY DEF OperatorRestores
<1>2. n = Latest(drSnap) /\ n \in Taken(drSnap) /\ n \in Numbers
    BY <1>1, RestoresLatest
<1>3. Taken(drSnap') = {n} /\ drSnap'[n] = drSnap[n] /\ n <= n
    BY <1>1, <1>2, Ranges DEF Taken
<1>4. Latest(drSnap') = n
    BY <1>3, LatestIsMax
<1> QED
    BY <1>2, <1>3, <1>4 DEF RestorableVersion, OperatorRestores

\* Every step of the DAG is a step of the replica or none.
LEMMA ReplicaStep ==
    ASSUME IInv, IInv', [Next]_vars, KillFirst
    PROVE  [ReplicaOf!Next]_<<mainLive, RestorableVersion>>
<1>1. CASE MainWrites
  <2>1. mainLive < MaxVersion /\ mainLive' = mainLive + 1 /\ RestorableVersion' = RestorableVersion
      BY <1>1 DEF MainWrites, RestorableVersion
  <2> QED
      BY <2>1 DEF ReplicaOf!Next, ReplicaOf!Write
<1>2. CASE CreateDrSnapshot
    BY <1>2, CreateSynchronises DEF ReplicaOf!Next
<1>3. CASE DeleteDrSnapshot
    BY <1>3, DeleteKeepsReplica
<1>4. CASE OperatorRestores
    BY <1>4, RestoreKeepsReplica
<1>5. CASE OperatorStartsOver
  <2>1. Taken(drSnap') = {} /\ mainLive' = mainLive
      BY <1>5 DEF OperatorStartsOver, Taken
  <2>2. RestorableVersion' = -1
      BY <2>1, LatestIsMax DEF RestorableVersion
  <2> QED
      BY <2>1, <2>2 DEF ReplicaOf!Next, ReplicaOf!StartOver, ReplicaOf!NoCopy
<1>6. CASE UNCHANGED <<mainLive, drSnap>>
    BY <1>6 DEF RestorableVersion
<1>7. \/ MainWrites \/ CreateDrSnapshot \/ DeleteDrSnapshot \/ OperatorRestores \/ OperatorStartsOver
      \/ UNCHANGED <<mainLive, drSnap>>
  <2>1. CASE StartRun \/ TaskFails \/ UNCHANGED vars
      BY <2>1 DEF StartRun, TaskFails, vars, sites
  <2>2. CASE Verify
      BY <2>2 DEF Verify, VerifyFirst, VerifyAgain, DeleteLatest, Recreate, VerifyUpdate,
                  VerifyRefuses, sites
  <2>3. CASE Copy
      BY <2>3 DEF Copy, Initialize, InitializeFails, Update, UpdateFails, CopyOrphaned,
                  LeftoverWrites, LeftoverEnds, sites
  <2>4. CASE PostUpdate
      BY <2>4 DEF PostUpdate, Compare, DeleteMainSnapshot, sites
  <2>5. CASE Operator
      BY <2>5 DEF Operator, OperatorClears, sites
  <2> QED
      BY <2>1, <2>2, <2>3, <2>4, <2>5 DEF Next
<1> QED
    BY <1>1, <1>2, <1>3, <1>4, <1>5, <1>6, <1>7

(***************************************************************************)
(* The DR site implements the abstract replica: what it can be taken back  *)
(* to is a complete copy that only becomes newer, unless the operator      *)
(* starts over.                                                            *)
(***************************************************************************)
THEOREM Refinement ==
    ASSUME KillFirst
    PROVE  Spec => IsReplica
<1>1. Init => ReplicaOf!Init
  <2> SUFFICES ASSUME Init PROVE ReplicaOf!Init
      OBVIOUS
  <2>1. Taken(drSnap) = {} /\ mainLive \in 0..MaxVersion
      BY DEF Init, Taken, Versions
  <2>2. RestorableVersion = -1
      BY <2>1, LatestIsMax DEF RestorableVersion
  <2> QED
      BY <2>1, <2>2 DEF ReplicaOf!Init, ReplicaOf!NoCopy
<1>2. IInv /\ IInv' /\ [Next]_vars => [ReplicaOf!Next]_<<mainLive, RestorableVersion>>
    BY ReplicaStep
<1> QED
    BY <1>1, <1>2, Invariance, PTL DEF Spec, IsReplica, ReplicaOf!Spec
==============================================================================
