------------------------------ MODULE Backups ------------------------------
(* The backups of the database (services/system_backups.py). A copy is made   *)
(* in a temporary directory, verified, published by one rename, and backups  *)
(* beyond the retained ones are pruned. A server runs one worker at a time;  *)
(* two servers may run on the same files, as when one replaces the other.    *)
(* A server may die between two steps, and so may the machine, which then    *)
(* forgets what was not synced. An attempt has one directory, which has its  *)
(* temporary name first and its final name after the rename.                 *)
EXTENDS Integers, FiniteSets

CONSTANTS
  Servers,          \* processes that serve the API
  BackupIds,        \* backup ids: timestamps, which sort as their names do
  MaxRetained,      \* backups kept
  ListLimit,        \* backups a listing returns
  MaxSetbacks       \* bound on setbacks

ASSUME BackupsAssumption ==
  /\ BackupIds \subseteq Nat \ {0} /\ IsFiniteSet(BackupIds)
  /\ MaxRetained \in Nat \ {0} /\ ListLimit \in Nat
  /\ MaxSetbacks \in Nat

VARIABLES
  dirs,             \* id -> its directory: [place, db, manifest]
  disk,             \* id -> for each part, what a power loss may leave of it
  old,              \* temporary directories not changed for a day
  work,             \* server -> its worker: [at, id, todo, tree, removed]
  listing,          \* the listing in progress: [todo, read, shown]
  made,             \* ids whose directory was made
  renamed,          \* history: ids that got their final name
  reported,         \* history: ids whose request was answered "created"
  overran,          \* history: attempts at work for a day
  setbacks          \* counter for the bound

backupVars == <<dirs, disk, old, work, listing, made, renamed, reported, overran, setbacks>>

NoDir == [place |-> "gone", db |-> "none", manifest |-> FALSE]
NothingStored == [place |-> {"gone"}, db |-> {"none"}, manifest |-> {FALSE}]
Idle == [at |-> "idle", id |-> 0, todo |-> {}, tree |-> 0, removed |-> FALSE]
NoListing == [todo |-> {}, read |-> 0, shown |-> {}]

BackupInit ==
  /\ dirs = [i \in BackupIds |-> NoDir] /\ disk = [i \in BackupIds |-> NothingStored]
  /\ work = [s \in Servers |-> Idle] /\ listing = NoListing
  /\ old = {} /\ made = {} /\ renamed = {} /\ reported = {} /\ overran = {}
  /\ setbacks = 0

\* A failure, a crash, a day at work, a clock that was set back.
Setback == setbacks < MaxSetbacks /\ setbacks' = setbacks + 1

TempDirs  == {i \in BackupIds : dirs[i].place = "temp"}
FinalDirs == {i \in BackupIds : dirs[i].place = "final"}

-----------------------------------------------------------------------------
\* The disk: what is written may reach it at once, or not before a sync.

Stores(i, dir) ==
  /\ dirs' = [dirs EXCEPT ![i] = dir]
  /\ disk' = [disk EXCEPT ![i] = [place |-> @.place \cup {dir.place}, db |-> @.db \cup {dir.db},
                                  manifest |-> @.manifest \cup {dir.manifest}]]

UnsyncedRoot == disk

\* The names in the directory of the backups are on the disk.
SyncedRoot ==
  [i \in BackupIds |-> IF dirs[i].place = "gone" THEN NothingStored
                       ELSE [disk[i] EXCEPT !.place = {dirs[i].place}]]

-----------------------------------------------------------------------------
\* A worker removes a directory: its children in any order, then its name.

Goes(s, worker) == work' = [work EXCEPT ![s] = worker]

Removes(s) == work[s].at \in {"scavenge", "prune", "clean"} /\ work[s].tree # 0

RemoveChild(s) ==
  LET i == work[s].tree IN
  /\ Removes(s)
  /\ \/ dirs[i].db # "none" /\ Stores(i, [dirs[i] EXCEPT !.db = "none"])
     \/ dirs[i].manifest /\ Stores(i, [dirs[i] EXCEPT !.manifest = FALSE])
  /\ old' = old \ {i}
  /\ UNCHANGED <<work, listing, made, renamed, reported, overran, setbacks>>

\* The name is removed if it is still there and nothing is left under it.
RemoveName(s) ==
  LET i == work[s].tree IN
  /\ Removes(s) /\ dirs[i].db = "none" /\ ~ dirs[i].manifest
  /\ dirs[i].place = (IF work[s].at = "prune" THEN "final"
                      ELSE IF work[s].at = "scavenge" THEN "temp" ELSE dirs[i].place)
  /\ Stores(i, NoDir) /\ old' = old \ {i}
  /\ Goes(s, [work[s] EXCEPT !.tree = 0, !.removed = TRUE])
  /\ UNCHANGED <<listing, made, renamed, reported, overran, setbacks>>

\* A step of the removal fails; the worker goes on with the next directory.
RemoveFails(s) ==
  /\ Setback /\ Removes(s) /\ Goes(s, [work[s] EXCEPT !.tree = 0])
  /\ UNCHANGED <<dirs, disk, old, listing, made, renamed, reported, overran>>

-----------------------------------------------------------------------------
\* The steps of an attempt.

At(s, step) == work[s].at = step
\* A worker takes the next step of its attempt, which changes only the step.
Steps(s, from, to) == At(s, from) /\ Goes(s, [work[s] EXCEPT !.at = to])

\* An attempt that copies holds the lock in its directory.
Locked(i) == \E s \in Servers :
  work[s].id = i /\ work[s].at \in {"copying", "copied", "written"}

\* A request is admitted when no other is at work in this server.
CreateBackup(s) ==
  /\ At(s, "idle") /\ BackupIds # made
  /\ Goes(s, [Idle EXCEPT !.at = "scavenge", !.todo = TempDirs])
  /\ UNCHANGED <<dirs, disk, old, listing, made, renamed, reported, overran, setbacks>>

\* A crashed attempt is told from one at work by its age, and then by its lock.
ScavengeAge(s, i) ==
  /\ At(s, "scavenge") /\ work[s].tree = 0 /\ i \in work[s].todo
  /\ Goes(s, IF i \in TempDirs \cap old
             THEN [work[s] EXCEPT !.at = "probe", !.tree = i, !.todo = @ \ {i}]
             ELSE [work[s] EXCEPT !.todo = @ \ {i}])
  /\ UNCHANGED <<dirs, disk, old, listing, made, renamed, reported, overran, setbacks>>

ScavengeLock(s) ==
  LET i == work[s].tree IN
  /\ At(s, "probe")
  /\ Goes(s, [work[s] EXCEPT !.at = "scavenge",
                             !.tree = IF Locked(i) \/ i \notin TempDirs THEN 0 ELSE i])
  /\ UNCHANGED <<dirs, disk, old, listing, made, renamed, reported, overran, setbacks>>

ScavengeEnd(s) ==
  /\ At(s, "scavenge") /\ work[s].tree = 0 /\ work[s].todo = {}
  /\ disk' = IF work[s].removed THEN SyncedRoot ELSE disk
  /\ Goes(s, [Idle EXCEPT !.at = "start"])
  /\ UNCHANGED <<dirs, old, listing, made, renamed, reported, overran, setbacks>>

\* The id is the time, and newer than every other unless the clock was set back.
Mkdir(s, i) ==
  LET back == \E j \in made : j > i IN
  /\ At(s, "start") /\ i \in BackupIds \ made
  /\ made' = made \cup {i}
  /\ IF back THEN Setback ELSE UNCHANGED setbacks
  /\ Stores(i, [NoDir EXCEPT !.place = "temp"])
  /\ Goes(s, [Idle EXCEPT !.at = "named", !.id = i])
  /\ UNCHANGED <<old, listing, renamed, reported, overran>>

\* What a worker does in its temporary directory fails if that is gone.
InTemp(s) == work[s].id \in TempDirs

\* It is locked before the copy begins.
CopyBegin(s) ==
  LET i == work[s].id IN
  /\ InTemp(s) /\ Steps(s, "named", "copying")
  /\ Stores(i, [dirs[i] EXCEPT !.db = "partial"]) /\ old' = old \ {i}
  /\ UNCHANGED <<listing, made, renamed, reported, overran, setbacks>>

\* The copy is complete, synced, verified and hashed.
CopyEnd(s) ==
  LET i == work[s].id IN
  /\ InTemp(s) /\ Steps(s, "copying", "copied") /\ dirs[i].db = "partial"
  /\ dirs' = [dirs EXCEPT ![i].db = "whole"]
  /\ disk' = [disk EXCEPT ![i].db = {"none", "whole"}]
  /\ UNCHANGED <<old, listing, made, renamed, reported, overran, setbacks>>

\* The size and the hash of the copy are those of the manifest.
WriteManifest(s) ==
  LET i == work[s].id IN
  /\ InTemp(s) /\ Steps(s, "copied", "written")
  /\ Stores(i, [dirs[i] EXCEPT !.manifest = TRUE]) /\ old' = old \ {i}
  /\ UNCHANGED <<listing, made, renamed, reported, overran, setbacks>>

\* The lock is released and removed, and the directory is synced.
Unlock(s) ==
  LET i == work[s].id IN
  /\ InTemp(s) /\ Steps(s, "written", "unlocked")
  /\ disk' = [disk EXCEPT ![i].db = {dirs[i].db}, ![i].manifest = {dirs[i].manifest}]
  /\ old' = old \ {i}
  /\ UNCHANGED <<dirs, listing, made, renamed, reported, overran, setbacks>>

PublishBackup(s) ==
  LET i == work[s].id IN
  /\ InTemp(s) /\ Steps(s, "unlocked", "published")
  /\ Stores(i, [dirs[i] EXCEPT !.place = "final"])
  /\ renamed' = renamed \cup {i} /\ old' = old \ {i}
  /\ UNCHANGED <<listing, made, reported, overran, setbacks>>

SyncRoot(s) ==
  /\ Steps(s, "published", "durable") /\ disk' = SyncedRoot
  /\ UNCHANGED <<dirs, old, listing, made, renamed, reported, overran, setbacks>>

\* All but the newest of the other backups are to be pruned.
Beyond(others) ==
  {i \in others : Cardinality({j \in others : j > i}) >= MaxRetained - 1}

PruneScan(s) ==
  /\ At(s, "durable")
  /\ Goes(s, [work[s] EXCEPT !.at = "prune", !.todo = Beyond(FinalDirs \ {work[s].id})])
  /\ UNCHANGED <<dirs, disk, old, listing, made, renamed, reported, overran, setbacks>>

\* The newest of them goes first; one that another server removed is passed.
Prune(s, i) ==
  /\ At(s, "prune") /\ work[s].tree = 0
  /\ i \in work[s].todo /\ \A j \in work[s].todo : j <= i
  /\ Goes(s, [work[s] EXCEPT !.todo = @ \ {i}, !.tree = IF i \in FinalDirs THEN i ELSE 0])
  /\ UNCHANGED <<dirs, disk, old, listing, made, renamed, reported, overran, setbacks>>

Created(s) ==
  /\ At(s, "prune") /\ work[s].tree = 0 /\ work[s].todo = {}
  /\ disk' = IF work[s].removed THEN SyncedRoot ELSE disk
  /\ reported' = reported \cup {work[s].id} /\ Goes(s, Idle)
  /\ UNCHANGED <<dirs, old, listing, made, renamed, overran, setbacks>>

\* A step fails: the lock is released and what was made is removed.
Fails(s) ==
  LET i == work[s].id IN
  /\ Setback /\ work[s].at \in {"named", "copying", "copied", "written", "unlocked", "published"}
  /\ Goes(s, [work[s] EXCEPT !.at = "clean", !.tree = IF dirs[i].place = "gone" THEN 0 ELSE i])
  /\ UNCHANGED <<dirs, disk, old, listing, made, renamed, reported, overran>>

FailureCleaned(s) ==
  /\ At(s, "clean") /\ work[s].tree = 0
  /\ disk' = IF work[s].id \in renamed THEN SyncedRoot ELSE disk
  /\ Goes(s, Idle)
  /\ UNCHANGED <<dirs, old, listing, made, renamed, reported, overran, setbacks>>

-----------------------------------------------------------------------------
\* A listing looks at the backups from the newest to the oldest.

ListBegin ==
  /\ listing = NoListing /\ FinalDirs # {}
  /\ listing' = [NoListing EXCEPT !.todo = FinalDirs]
  /\ UNCHANGED <<dirs, disk, old, work, made, renamed, reported, overran, setbacks>>

\* One without a manifest is passed.
ListManifest(i) ==
  /\ listing.read = 0 /\ i \in listing.todo /\ \A j \in listing.todo : j <= i
  /\ Cardinality(listing.shown) <= ListLimit
  /\ listing' = [listing EXCEPT !.todo = @ \ {i},
                   !.read = IF i \in FinalDirs /\ dirs[i].manifest THEN i ELSE 0]
  /\ UNCHANGED <<dirs, disk, old, work, made, renamed, reported, overran, setbacks>>

\* Its copy is there with the size of the manifest, or not: a copy that a power
\* loss cut short may have any size.
ListCopy ==
  LET i == listing.read
      db == IF i \in FinalDirs THEN dirs[i].db ELSE "none" IN
  /\ i # 0
  /\ \E status \in {"verified", "missing", "size_mismatch"} :
       /\ db = "none" => status = "missing"
       /\ db = "partial" => status # "missing"
       /\ db = "whole" => status = "verified"
       /\ listing' = [listing EXCEPT !.read = 0,
            !.shown = @ \cup {[id |-> i, status |-> status, whole |-> db = "whole"]}]
  /\ UNCHANGED <<dirs, disk, old, work, made, renamed, reported, overran, setbacks>>

\* The response has the newest ListLimit of what was found.
ListEnd ==
  /\ listing # NoListing /\ listing.read = 0
  /\ listing.todo = {} \/ Cardinality(listing.shown) > ListLimit
  /\ listing' = NoListing
  /\ UNCHANGED <<dirs, disk, old, work, made, renamed, reported, overran, setbacks>>

-----------------------------------------------------------------------------
\* What happens to the servers.

ServerDies(s) ==
  /\ Setback /\ work[s] # Idle /\ Goes(s, Idle)
  /\ UNCHANGED <<dirs, disk, old, listing, made, renamed, reported, overran>>

\* The machine starts again with what was on the disk.
Left(i) ==
  {IF dir.place = "gone" THEN NoDir ELSE dir :
     dir \in [place : disk[i].place, db : disk[i].db, manifest : disk[i].manifest]}

PowerLoss ==
  /\ Setback /\ made # {}
  /\ dirs' \in {left \in [BackupIds -> UNION {Left(i) : i \in BackupIds}] :
                  \A i \in BackupIds : left[i] \in Left(i)}
  /\ disk' = [i \in BackupIds |-> [place |-> {dirs'[i].place}, db |-> {dirs'[i].db},
                                   manifest |-> {dirs'[i].manifest}]]
  /\ work' = [s \in Servers |-> Idle] /\ listing' = NoListing
  /\ old' = {i \in old : dirs'[i].place = "temp"}
  /\ UNCHANGED <<made, renamed, reported, overran>>

\* A day passes with the attempts as they are.
Day ==
  /\ Setback /\ TempDirs # {}
  /\ old' = TempDirs /\ overran' = overran \cup {work[s].id : s \in Servers}
  /\ UNCHANGED <<dirs, disk, work, listing, made, renamed, reported>>

WorkerStep(s) ==
  \/ CreateBackup(s) \/ ScavengeLock(s) \/ ScavengeEnd(s)
  \/ \E i \in BackupIds : ScavengeAge(s, i) \/ Mkdir(s, i) \/ Prune(s, i)
  \/ CopyBegin(s) \/ CopyEnd(s) \/ WriteManifest(s) \/ Unlock(s)
  \/ PublishBackup(s) \/ SyncRoot(s) \/ PruneScan(s) \/ Created(s)
  \/ Fails(s) \/ FailureCleaned(s)
  \/ RemoveChild(s) \/ RemoveName(s) \/ RemoveFails(s)

BackupNext ==
  \/ \E s \in Servers : WorkerStep(s) \/ ServerDies(s)
  \/ ListBegin \/ ListCopy \/ ListEnd \/ \E i \in BackupIds : ListManifest(i)
  \/ PowerLoss \/ Day

BackupSpec == BackupInit /\ [][BackupNext]_backupVars

-----------------------------------------------------------------------------
\* PROPERTIES

(* What a listing calls verified was a whole copy when it was looked at,     *)
(* though a listing trusts the manifest and opens no copy.                   *)
VerifiedIsWhole == \A b \in listing.shown : b.status = "verified" => b.whole

(* Attempts that may have taken the place of backup i among the retained.    *)
Newer(i) == {j \in renamed : j > i}

(* A backup that was answered "created" stays whole under its final name, on *)
(* the disk too, until as many newer ones were published as are retained     *)
(* next to the current one.                                                  *)
ReportedStays ==
  \A i \in reported :
    \/ i \in overran \/ Cardinality(Newer(i)) >= MaxRetained - 1
    \/ /\ dirs[i] = [place |-> "final", db |-> "whole", manifest |-> TRUE]
       /\ disk[i] = [place |-> {"final"}, db |-> {"whole"}, manifest |-> {TRUE}]

BackupsHold == VerifiedIsWhole /\ ReportedStays
=============================================================================
