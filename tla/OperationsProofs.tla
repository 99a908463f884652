-------------------------- MODULE OperationsProofs --------------------------
(* Backups: what a listing calls verified was whole, and a reported backup   *)
(* stays until enough newer ones were published, for any number of servers,  *)
(* of backups and of setbacks. Start-up: what a start changes is changed     *)
(* once, nothing it rebuilds is lost and writes are tracked, for any         *)
(* statements written as StartUpAssumption says.                             *)
EXTENDS Backups, StartUp, FiniteSetTheorems, TLAPS

-----------------------------------------------------------------------------
\* The backups: the inductive invariant.

Ids == BackupIds \cup {0}
Dirs == [place : {"gone", "temp", "final"}, db : {"none", "partial", "whole"}, manifest : BOOLEAN]
Parts == [place : SUBSET {"gone", "temp", "final"}, db : SUBSET {"none", "partial", "whole"},
          manifest : SUBSET BOOLEAN]
Before == {"idle", "scavenge", "probe", "start"}
During == {"named", "copying", "copied", "written", "unlocked", "published", "durable", "prune"}
Unnamed == {"named", "copying", "copied", "written", "unlocked"}
Workers == [at : Before \cup During \cup {"clean"}, id : Ids, todo : SUBSET BackupIds,
            tree : Ids, removed : BOOLEAN]
Listings == [todo : SUBSET BackupIds, read : Ids,
             shown : SUBSET [id : BackupIds, status : {"verified", "missing", "size_mismatch"},
                             whole : BOOLEAN]]

BackupTypes ==
  /\ dirs \in [BackupIds -> Dirs] /\ disk \in [BackupIds -> Parts]
  /\ work \in [Servers -> Workers] /\ listing \in Listings
  /\ old \subseteq BackupIds /\ made \subseteq BackupIds
  /\ renamed \subseteq made /\ reported \subseteq renamed /\ overran \subseteq Ids

\* A directory is what the disk may hold, and one without a name is empty.
DiskFollows ==
  \A i \in BackupIds :
    /\ dirs[i].place \in disk[i].place /\ dirs[i].db \in disk[i].db
    /\ dirs[i].manifest \in disk[i].manifest
    /\ dirs[i].place = "gone" => dirs[i] = NoDir
    /\ i \notin made => disk[i] = NothingStored
    /\ i \in old => dirs[i].place # "gone"

\* An attempt belongs to one worker, which has it until it was reported or cleaned.
OneWorker ==
  /\ \A s \in Servers : /\ work[s].at \in Before => work[s].id = 0
                        /\ work[s].at \notin Before => work[s].id \in made \ reported
                        /\ work[s].at \in During \ {"prune"} => work[s].tree = 0
                        /\ work[s].at \in Unnamed => work[s].id \notin renamed
                        /\ work[s].at \in During \ Unnamed => work[s].id \in renamed
  /\ \A s, t \in Servers : s # t /\ work[s].id = work[t].id => work[s].id = 0

\* The attempts that are reported, or may be.
Live(i) == i \in reported \/ \E s \in Servers : work[s].id = i /\ work[s].at \in During

\* What may happen to them.
Excused(i) == i \in overran \/ Cardinality(Newer(i)) >= MaxRetained - 1

\* A live attempt that is old has been at work for a day, or was pruned.
OldExcused == \A i \in old : Live(i) => Excused(i)

\* What is removed is dead or may be.
RemovesDead ==
  \A s \in Servers :
    /\ work[s].tree \in made \cup {0}
    /\ work[s].tree # 0 => Excused(work[s].tree) \/ ~ Live(work[s].tree)
    /\ work[s].at = "prune" =>
         \A i \in work[s].todo : Cardinality(Newer(i)) >= MaxRetained - 1

\* A copy that was complete is never seen as a part of one.
Complete(i) ==
  i \in renamed \/ \E s \in Servers :
    work[s].id = i /\ work[s].at \in During \ {"named", "copying"}

NoPartial ==
  \A i \in BackupIds :
    /\ Complete(i) => dirs[i].db # "partial" /\ "partial" \notin disk[i].db
    /\ "final" \in disk[i].place => i \in renamed

\* What an attempt has reached by now is there, on the disk too.
Whole(i) == dirs[i].db = "whole"
WholeOnDisk(i) ==
  /\ dirs[i].db = "whole" /\ dirs[i].manifest
  /\ disk[i].db = {"whole"} /\ disk[i].manifest = {TRUE}
Final(i) == dirs[i].place = "final" /\ WholeOnDisk(i)
FinalOnDisk(i) == Final(i) /\ disk[i].place = {"final"}

Progress(s, i) ==
  /\ work[s].at = "copied" => Whole(i)
  /\ work[s].at = "written" => Whole(i) /\ dirs[i].manifest
  /\ work[s].at = "unlocked" => WholeOnDisk(i)
  /\ work[s].at = "published" => Final(i)
  /\ work[s].at \in {"durable", "prune"} => FinalOnDisk(i)

Progresses ==
  \A i \in BackupIds : ~ Excused(i) =>
    /\ \A s \in Servers : work[s].id = i => Progress(s, i)
    /\ i \in reported => FinalOnDisk(i)

BackupInv ==
  /\ BackupTypes /\ DiskFollows /\ OneWorker /\ OldExcused /\ RemovesDead
  /\ NoPartial /\ Progresses /\ VerifiedIsWhole
-----------------------------------------------------------------------------
\* Facts.

LEMMA IdsAreNumbers == BackupIds \subseteq Nat /\ 0 \notin BackupIds /\ IsFiniteSet(BackupIds)
BY BackupsAssumption

\* What excuses an attempt stays.
LEMMA ExcusedStays ==
  ASSUME BackupTypes, renamed \subseteq renamed', renamed' \subseteq BackupIds,
         overran \subseteq overran', NEW i \in BackupIds, Excused(i)
  PROVE  Excused(i)'
<1>1. Newer(i) \subseteq Newer(i)' /\ Newer(i)' \subseteq BackupIds
  BY DEF Newer
<1>2. IsFiniteSet(Newer(i)') /\ IsFiniteSet(Newer(i))
  BY <1>1, IdsAreNumbers, FS_Subset
<1>3. /\ Cardinality(Newer(i)) <= Cardinality(Newer(i)')
      /\ Cardinality(Newer(i)) \in Nat /\ Cardinality(Newer(i)') \in Nat
  BY <1>1, <1>2, FS_Subset, FS_CardinalityType
<1> QED
  BY <1>3, BackupsAssumption DEF Excused

\* A worker beyond its start has an attempt, and no other worker has it.
LEMMA ItsAttempt ==
  ASSUME BackupInv, NEW s \in Servers, work[s].at \notin Before
  PROVE  /\ work[s].id \in BackupIds /\ work[s].id \in made /\ work[s].id \notin reported
         /\ \A t \in Servers : t # s => work[t].id # work[s].id
<1>1. work[s].id \in made \ reported /\ made \subseteq BackupIds
  BY DEF BackupInv, OneWorker, BackupTypes
<1>2. work[s].id # 0
  BY <1>1, IdsAreNumbers
<1> QED
  BY <1>1, <1>2 DEF BackupInv, OneWorker

LEMMA WorkChanges ==
  ASSUME BackupTypes, NEW s \in Servers, NEW w \in Workers, Goes(s, w)
  PROVE  work' \in [Servers -> Workers] /\ work'[s] = w /\ \A t \in Servers \ {s} : work'[t] = work[t]
BY DEF BackupTypes, Goes

-----------------------------------------------------------------------------
\* Steps of a worker that change no directory, and may sync their names.

\* The disk holds less, but all that is there.
Settles ==
  /\ disk' \in [BackupIds -> Parts]
  /\ \A i \in BackupIds :
       /\ dirs[i].place \in disk'[i].place /\ disk'[i].place \subseteq disk[i].place
       /\ dirs[i].db \in disk'[i].db /\ disk'[i].db \subseteq disk[i].db
       /\ dirs[i].manifest \in disk'[i].manifest /\ disk'[i].manifest \subseteq disk[i].manifest
       /\ i \notin made => disk'[i] = NothingStored

LEMMA SyncSettles ==
  ASSUME BackupInv, disk' \in {disk, SyncedRoot}
  PROVE  Settles
<1>1. CASE disk' = disk
  BY <1>1 DEF Settles, BackupInv, BackupTypes, DiskFollows
<1>2. CASE disk' = SyncedRoot
  <2> SUFFICES ASSUME NEW i \in BackupIds
               PROVE  /\ disk'[i] \in Parts
                      /\ dirs[i].place \in disk'[i].place /\ disk'[i].place \subseteq disk[i].place
                      /\ dirs[i].db \in disk'[i].db /\ disk'[i].db \subseteq disk[i].db
                      /\ dirs[i].manifest \in disk'[i].manifest
                      /\ disk'[i].manifest \subseteq disk[i].manifest
                      /\ i \notin made => disk'[i] = NothingStored
    BY <1>2 DEF Settles, SyncedRoot
  <2>1. /\ dirs[i] \in Dirs /\ disk[i] \in Parts
        /\ dirs[i].place \in disk[i].place /\ dirs[i].db \in disk[i].db
        /\ dirs[i].manifest \in disk[i].manifest
        /\ dirs[i].place = "gone" => dirs[i] = NoDir
        /\ i \notin made => disk[i] = NothingStored
    BY DEF BackupInv, BackupTypes, DiskFollows
  <2>2. CASE dirs[i].place = "gone"
    <3>1. disk'[i] = NothingStored
      BY <1>2, <2>2 DEF SyncedRoot
    <3>2. NothingStored \in Parts
      BY DEF NothingStored, Parts
    <3>3. disk'[i].place = {"gone"} /\ disk'[i].db = {"none"} /\ disk'[i].manifest = {FALSE}
      BY <3>1 DEF NothingStored
    <3>4. dirs[i].place = "gone" /\ dirs[i].db = "none" /\ dirs[i].manifest = FALSE
      BY <2>1, <2>2 DEF NoDir
    <3> QED
      BY <2>1, <3>1, <3>2, <3>3, <3>4
  <2>3. CASE dirs[i].place # "gone"
    <3>1. disk'[i] = [disk[i] EXCEPT !.place = {dirs[i].place}]
      BY <1>2, <2>3 DEF SyncedRoot
    <3>2. i \in made
      BY <2>1, <2>3 DEF NothingStored
    <3> QED
      BY <2>1, <3>1, <3>2 DEF Parts, Dirs
  <2> QED
    BY <2>2, <2>3
<1> QED
  BY <1>1, <1>2

LEMMA WorkerMoves ==
  ASSUME BackupInv, NEW s \in Servers, NEW w \in Workers, Goes(s, w), Settles,
         UNCHANGED <<dirs, old, listing, made, renamed, reported, overran>>,
         w.at \in Before => w.id = 0,
         w.at \notin Before => w.id = work[s].id /\ work[s].at \notin Before,
         w.at \in During => /\ work[s].at \in During
                            /\ \/ w.at = work[s].at
                               \/ {w.at, work[s].at} \subseteq {"durable", "prune"}
                               \/ w.at = "durable" /\ work[s].at = "published" /\ disk' = SyncedRoot,
         w.at \in During \ {"prune"} => w.tree = 0, w.tree \in made \cup {0},
         w.tree # 0 => \/ Excused(w.tree) \/ ~ Live(w.tree)
                       \/ w.at = "clean" /\ w.tree = w.id,
         w.at = "prune" => \A i \in w.todo : Cardinality(Newer(i)) >= MaxRetained - 1
  PROVE  BackupInv'
<1>1. work' \in [Servers -> Workers] /\ work'[s] = w /\ \A t \in Servers \ {s} : work'[t] = work[t]
  BY WorkChanges DEF BackupInv
<1>2. \A i \in BackupIds : Live(i)' => Live(i)
  BY <1>1 DEF Live, During, Before
<1>3. \A i \in BackupIds : Complete(i)' => Complete(i)
  BY <1>1 DEF Complete, During, Before
<1>4. \A i \in BackupIds : Excused(i)' <=> Excused(i)
  BY DEF Excused, Newer
<1>5. \A i \in BackupIds : Newer(i)' = Newer(i)
  BY DEF Newer
<1>6. BackupTypes'
  BY <1>1 DEF BackupInv, BackupTypes, Settles
<1>7. DiskFollows'
  BY DEF BackupInv, DiskFollows, Settles
<1>8. OneWorker'
  <2>1. \A t \in Servers : /\ work'[t].at \in Before => work'[t].id = 0
                           /\ work'[t].at \notin Before => work'[t].id \in made \ reported
                           /\ work'[t].at \in During \ {"prune"} => work'[t].tree = 0
                           /\ work'[t].at \in Unnamed => work'[t].id \notin renamed
                           /\ work'[t].at \in During \ Unnamed => work'[t].id \in renamed
    BY <1>1 DEF BackupInv, OneWorker, Unnamed, During, Before
  <2>2. w.id = 0 \/ w.id = work[s].id
    OBVIOUS
  <2>3. \A t, u \in Servers : t # u /\ work'[t].id = work'[u].id => work'[t].id = 0
    BY <1>1, <2>2 DEF BackupInv, OneWorker
  <2> QED
    BY <2>1, <2>3 DEF OneWorker
<1>9. OldExcused'
  BY <1>2, <1>4 DEF BackupInv, OldExcused, BackupTypes
<1>10. RemovesDead'
  <2>1. CASE w.at = "clean" /\ w.tree = w.id /\ w.tree # 0
    <3>1. /\ w.id = work[s].id /\ w.id \notin reported /\ w.id \in BackupIds
          /\ \A t \in Servers : t # s => work[t].id # w.id
      BY <2>1, ItsAttempt DEF Before
    <3>2. ~ Live(w.tree)'
      BY <1>1, <2>1, <3>1 DEF Live, During
    <3> QED
      BY <1>1, <1>2, <1>4, <1>5, <2>1, <3>1, <3>2 DEF BackupInv, RemovesDead, BackupTypes, Workers, Ids
  <2>2. CASE w.tree # 0 => Excused(w.tree) \/ ~ Live(w.tree)
    BY <1>1, <1>2, <1>4, <1>5, <2>2 DEF BackupInv, RemovesDead, BackupTypes, Workers, Ids
  <2> QED
    BY <2>1, <2>2
<1>11. NoPartial'
  BY <1>3 DEF BackupInv, NoPartial, Settles
<1>12. Progresses'
  <2> SUFFICES ASSUME NEW i \in BackupIds, ~ Excused(i)
               PROVE  /\ \A t \in Servers : work'[t].id = i => Progress(t, i)'
                      /\ i \in reported => FinalOnDisk(i)'
    BY <1>4 DEF Progresses
  <2>1. dirs'[i] = dirs[i] /\ (Whole(i) => Whole(i)')
    BY DEF Whole
  <2>4. WholeOnDisk(i) => WholeOnDisk(i)'
    <3>1. /\ dirs[i].db \in disk'[i].db /\ disk'[i].db \subseteq disk[i].db
          /\ dirs[i].manifest \in disk'[i].manifest /\ disk'[i].manifest \subseteq disk[i].manifest
      BY DEF Settles
    <3> QED
      BY <2>1, <3>1 DEF WholeOnDisk
  <2>5. Final(i) => Final(i)'
    BY <2>4 DEF Final
  <2>6. FinalOnDisk(i) => FinalOnDisk(i)'
    BY <2>5 DEF Settles, FinalOnDisk
  <2>2. i # 0
    BY IdsAreNumbers
  <2>3. ASSUME NEW t \in Servers, work'[t].id = i PROVE Progress(t, i)'
    <3>1. CASE t = s
      <4>1. w.id = i /\ w.at \notin Before /\ work[s].id = i
        BY <1>1, <2>2, <2>3, <3>1
      <4>2. Progress(s, i)
        BY <4>1 DEF BackupInv, Progresses
      <4>3. CASE w.at \in During /\ ~ (w.at = "durable" /\ work[s].at = "published")
        BY <1>1, <2>1, <2>4, <2>5, <2>6, <3>1, <4>2, <4>3 DEF Progress
      <4>5. CASE w.at = "durable" /\ work[s].at = "published"
        <5>1. Final(i) /\ disk' = SyncedRoot
          BY <4>2, <4>5 DEF Progress, During
        <5>2. disk'[i].place = {"final"}
          BY <5>1 DEF Final, SyncedRoot, BackupInv, BackupTypes, Parts
        <5> QED
          BY <1>1, <2>5, <3>1, <4>5, <5>1, <5>2 DEF Progress, FinalOnDisk
      <4>4. CASE w.at \notin During
        BY <1>1, <3>1, <4>4 DEF Progress, During
      <4> QED
        BY <4>3, <4>4, <4>5
    <3>2. CASE t # s
      <4>1. work'[t] = work[t] /\ Progress(t, i)
        BY <1>1, <2>3, <3>2 DEF BackupInv, Progresses
      <4> QED
        BY <2>1, <2>4, <2>5, <2>6, <4>1 DEF Progress
    <3> QED
      BY <3>1, <3>2
  <2> QED
    BY <2>3, <2>6 DEF BackupInv, Progresses
<1>13. VerifiedIsWhole'
  BY DEF BackupInv, VerifiedIsWhole
<1> QED
  BY <1>6, <1>7, <1>8, <1>9, <1>10, <1>11, <1>12, <1>13 DEF BackupInv
\* The attempt is reported, and is beyond what its worker may fail at.
LEMMA CreatedKeeps ==
  ASSUME BackupInv, NEW s \in Servers, Created(s)
  PROVE  BackupInv'
<1> DEFINE i == work[s].id
<1>1. /\ work[s].at = "prune" /\ Goes(s, Idle) /\ disk' \in {disk, SyncedRoot}
      /\ reported' = reported \cup {i}
      /\ UNCHANGED <<dirs, old, listing, made, renamed, overran, setbacks>>
  BY DEF Created, At
<1>2. Settles
  BY <1>1, SyncSettles
<1>3. /\ i \in BackupIds /\ i \in made /\ i \notin reported
      /\ \A t \in Servers : t # s => work[t].id # i
  BY <1>1, ItsAttempt DEF Before
<1>4. Idle \in Workers
  BY DEF Idle, Workers, Ids, Before
<1>5. work' \in [Servers -> Workers] /\ work'[s] = Idle /\ \A t \in Servers \ {s} : work'[t] = work[t]
  BY <1>1, <1>4, WorkChanges DEF BackupInv
<1>6. \A j \in BackupIds : Live(j)' => Live(j)
  BY <1>1, <1>5 DEF Live, During, Idle
<1>7. i \in renamed
  BY <1>1 DEF BackupInv, OneWorker, During, Unnamed
<1>8. \A j \in BackupIds : (Excused(j)' <=> Excused(j)) /\ Newer(j)' = Newer(j)
  BY <1>1 DEF Excused, Newer
<1>9. BackupTypes'
  BY <1>1, <1>2, <1>5, <1>7 DEF BackupInv, BackupTypes, Settles
<1>10. DiskFollows'
  BY <1>1, <1>2 DEF BackupInv, DiskFollows, Settles
<1>11. OneWorker'
  <2>1. Idle.at \in Before /\ Idle.at \notin Unnamed /\ Idle.at \notin During /\ Idle.id = 0
    BY DEF Idle, Before, Unnamed, During
  <2>2. \A t \in Servers : /\ work'[t].at \in Before => work'[t].id = 0
                           /\ work'[t].at \notin Before => work'[t].id \in made \ (reported \cup {i})
                           /\ work'[t].at \in During \ {"prune"} => work'[t].tree = 0
                           /\ work'[t].at \in Unnamed => work'[t].id \notin renamed
                           /\ work'[t].at \in During \ Unnamed => work'[t].id \in renamed
    BY <1>3, <1>5, <2>1 DEF BackupInv, OneWorker
  <2>3. \A t, u \in Servers : t # u /\ work'[t].id = work'[u].id => work'[t].id = 0
    BY <1>5, <2>1 DEF BackupInv, OneWorker
  <2> QED
    BY <1>1, <2>2, <2>3 DEF OneWorker
<1>12. OldExcused'
  BY <1>1, <1>6, <1>8 DEF BackupInv, OldExcused, BackupTypes
<1>13. RemovesDead'
  BY <1>1, <1>5, <1>6, <1>8 DEF BackupInv, RemovesDead, BackupTypes, Workers, Ids, Idle
<1>14. NoPartial'
  <2>1. \A j \in BackupIds : Complete(j)' => Complete(j)
    BY <1>1, <1>5 DEF Complete, During, Idle
  <2> QED
    BY <1>1, <1>2, <2>1 DEF BackupInv, NoPartial, Settles
<1>15. Progresses'
  <2> SUFFICES ASSUME NEW j \in BackupIds, ~ Excused(j)
               PROVE  /\ \A t \in Servers : work'[t].id = j => Progress(t, j)'
                      /\ j \in reported' => FinalOnDisk(j)'
    BY <1>8 DEF Progresses
  <2>1. dirs'[j] = dirs[j] /\ (Whole(j) => Whole(j)')
    BY <1>1 DEF Whole
  <2>2. WholeOnDisk(j) => WholeOnDisk(j)'
    BY <1>1, <1>2 DEF Settles, WholeOnDisk
  <2>3. Final(j) => Final(j)'
    BY <1>1, <2>2 DEF Final
  <2>4. FinalOnDisk(j) => FinalOnDisk(j)'
    BY <1>2, <2>3 DEF Settles, FinalOnDisk
  <2>5. j # 0
    BY IdsAreNumbers
  <2>6. ASSUME NEW t \in Servers, work'[t].id = j PROVE Progress(t, j)'
    <3>1. work'[t] = work[t] /\ Progress(t, j)
      BY <1>5, <2>5, <2>6 DEF BackupInv, Progresses, Idle
    <3> QED
      BY <2>1, <2>2, <2>3, <2>4, <3>1 DEF Progress
  <2>7. ASSUME j \in reported' PROVE FinalOnDisk(j)
    <3>1. CASE j = i
      BY <1>1, <3>1 DEF BackupInv, Progresses, Progress
    <3>2. CASE j # i
      BY <1>1, <2>7, <3>2 DEF BackupInv, Progresses
    <3> QED
      BY <3>1, <3>2
  <2> QED
    BY <2>4, <2>6, <2>7
<1>16. VerifiedIsWhole'
  BY <1>1 DEF BackupInv, VerifiedIsWhole
<1> QED
  BY <1>9, <1>10, <1>11, <1>12, <1>13, <1>14, <1>15, <1>16 DEF BackupInv

-----------------------------------------------------------------------------
\* Steps of an attempt in its own directory.

LEMMA AttemptSteps ==
  ASSUME BackupInv, NEW s \in Servers, NEW i, i = work[s].id, work[s].at \in Unnamed,
         NEW to \in Unnamed \cup {"published"}, Goes(s, [work[s] EXCEPT !.at = to]),
         NEW dir \in Dirs, NEW part \in Parts,
         dirs' = [dirs EXCEPT ![i] = dir], disk' = [disk EXCEPT ![i] = part],
         dir.place # "gone", dir.place \in part.place, dir.db \in part.db,
         dir.manifest \in part.manifest,
         to \notin {"named", "copying"} => dir.db # "partial" /\ "partial" \notin part.db,
         "final" \in part.place => to = "published",
         ~ Excused(i) => Progress(s, i)',
         old' \subseteq old, renamed' = (IF to = "published" THEN renamed \cup {i} ELSE renamed),
         UNCHANGED <<listing, made, reported, overran>>
  PROVE  BackupInv'
<1>1. /\ i \in BackupIds /\ i \in made /\ i \notin reported /\ i \notin renamed
      /\ \A t \in Servers : t # s => work[t].id # i
  BY ItsAttempt DEF Before, Unnamed, BackupInv, OneWorker
<1> DEFINE w == [work[s] EXCEPT !.at = to]
<1>2. w \in Workers /\ w.at = to /\ w.id = i /\ w.tree = work[s].tree
  BY DEF BackupInv, BackupTypes, Workers, Unnamed, During
<1>3. work[s].tree = 0
  BY DEF BackupInv, OneWorker, Unnamed, During
<1> HIDE DEF w
<1>4. work' \in [Servers -> Workers] /\ work'[s] = w /\ \A t \in Servers \ {s} : work'[t] = work[t]
  BY <1>2, WorkChanges DEF BackupInv, w
<1>5. \A j \in BackupIds : Live(j)' => Live(j)
  BY <1>2, <1>4 DEF Live, During, Unnamed
<1>6. renamed' \subseteq BackupIds /\ renamed \subseteq renamed'
  BY <1>1 DEF BackupInv, BackupTypes
<1>7. \A j \in BackupIds : Excused(j) => Excused(j)'
  BY <1>6, ExcusedStays DEF BackupInv
<1>8. /\ dirs' \in [BackupIds -> Dirs] /\ dirs'[i] = dir
      /\ disk' \in [BackupIds -> Parts] /\ disk'[i] = part
      /\ \A j \in BackupIds \ {i} : dirs'[j] = dirs[j] /\ disk'[j] = disk[j]
  BY <1>1 DEF BackupInv, BackupTypes
<1>9. BackupTypes'
  BY <1>1, <1>4, <1>6, <1>8 DEF BackupInv, BackupTypes
<1>10. DiskFollows'
  BY <1>1, <1>8 DEF BackupInv, DiskFollows
<1>11. OneWorker'
  <2>1. \A t \in Servers : /\ work'[t].at \in Before => work'[t].id = 0
                           /\ work'[t].at \notin Before => work'[t].id \in made \ reported
                           /\ work'[t].at \in During \ {"prune"} => work'[t].tree = 0
                           /\ work'[t].at \in Unnamed => work'[t].id \notin renamed'
                           /\ work'[t].at \in During \ Unnamed => work'[t].id \in renamed'
    <3> SUFFICES ASSUME NEW t \in Servers
                 PROVE  /\ work'[t].at \in Before => work'[t].id = 0
                        /\ work'[t].at \notin Before => work'[t].id \in made \ reported
                        /\ work'[t].at \in During \ {"prune"} => work'[t].tree = 0
                        /\ work'[t].at \in Unnamed => work'[t].id \notin renamed'
                        /\ work'[t].at \in During \ Unnamed => work'[t].id \in renamed'
      OBVIOUS
    <3>1. CASE t = s
      BY <1>1, <1>2, <1>3, <1>4, <3>1 DEF Unnamed, Before
    <3>2. CASE t # s
      BY <1>1, <1>4, <3>2 DEF BackupInv, OneWorker
    <3> QED
      BY <3>1, <3>2
  <2>2. \A t, u \in Servers : t # u /\ work'[t].id = work'[u].id => work'[t].id = 0
    BY <1>2, <1>4 DEF BackupInv, OneWorker
  <2> QED
    BY <2>1, <2>2 DEF OneWorker
<1>12. OldExcused'
  BY <1>5, <1>7 DEF BackupInv, OldExcused, BackupTypes
<1>13. RemovesDead'
  <2>1. ASSUME NEW t \in Servers, NEW j \in BackupIds, work'[t].at = "prune", j \in work'[t].todo
        PROVE  Cardinality(Newer(j)') >= MaxRetained - 1
    <3>1. work'[t] = work[t]
      BY <1>2, <1>4, <2>1 DEF Unnamed
    <3>2. Cardinality(Newer(j)) >= MaxRetained - 1
      BY <2>1, <3>1 DEF BackupInv, RemovesDead
    <3>3. Newer(j) \subseteq Newer(j)' /\ IsFiniteSet(Newer(j)')
      BY <1>6, IdsAreNumbers, FS_Subset DEF Newer
    <3>4. /\ Cardinality(Newer(j)) <= Cardinality(Newer(j)') /\ Cardinality(Newer(j)) \in Nat
          /\ Cardinality(Newer(j)') \in Nat
      BY <3>3, FS_Subset, FS_CardinalityType
    <3> QED
      BY <3>2, <3>4, BackupsAssumption
  <2>2. ASSUME NEW t \in Servers, NEW j, j = work'[t].tree, j # 0
        PROVE  Excused(j)' \/ ~ Live(j)'
    <3>1. work'[t] = work[t]
      BY <1>2, <1>3, <1>4, <2>2
    <3>2. Excused(j) \/ ~ Live(j)
      BY <2>2, <3>1 DEF BackupInv, RemovesDead
    <3>3. j \in BackupIds
      BY <2>2, <3>1 DEF BackupInv, BackupTypes, Workers, Ids
    <3> QED
      BY <1>5, <1>7, <3>2, <3>3
  <2>3. \A t \in Servers : work'[t].todo \subseteq BackupIds
    BY <1>9 DEF BackupTypes, Workers
  <2>4. \A t \in Servers : work'[t].tree \in made \cup {0}
    BY <1>2, <1>3, <1>4 DEF BackupInv, RemovesDead
  <2> QED
    BY <2>1, <2>2, <2>3, <2>4 DEF RemovesDead
<1>14. NoPartial'
  <2>1. ASSUME NEW j \in BackupIds \ {i}
        PROVE  /\ Complete(j)' => dirs'[j].db # "partial" /\ "partial" \notin disk'[j].db
               /\ "final" \in disk'[j].place => j \in renamed'
    <3>1. Complete(j)' => Complete(j)
      BY <1>2, <1>4 DEF Complete
    <3> QED
      BY <1>6, <1>8, <3>1 DEF BackupInv, NoPartial
  <2>2. Complete(i)' => to \notin {"named", "copying"}
    BY <1>1, <1>2, <1>4 DEF Complete
  <2>3. /\ Complete(i)' => dirs'[i].db # "partial" /\ "partial" \notin disk'[i].db
        /\ "final" \in disk'[i].place => i \in renamed'
    BY <1>8, <2>2
  <2> QED
    BY <2>1, <2>3 DEF NoPartial
<1>15. Progresses'
  <2> SUFFICES ASSUME NEW j \in BackupIds, ~ Excused(j)
               PROVE  /\ \A t \in Servers : work'[t].id = j => Progress(t, j)'
                      /\ j \in reported => FinalOnDisk(j)'
    BY <1>7 DEF Progresses
  <2>1. CASE j = i
    <3>1. \A t \in Servers : work'[t].id = i => t = s
      BY <1>1, <1>4
    <3> QED
      BY <1>1, <2>1, <3>1
  <2>2. CASE j # i
    <3>1. \A t \in Servers : work'[t].id = j => work'[t] = work[t] /\ Progress(t, j)
      BY <1>2, <1>4, <2>2 DEF BackupInv, Progresses
    <3>2. dirs'[j] = dirs[j] /\ disk'[j] = disk[j]
      BY <1>8, <2>2
    <3>3. \A t \in Servers : work'[t].id = j => Progress(t, j)'
      BY <3>1, <3>2 DEF Progress, Whole, WholeOnDisk, Final, FinalOnDisk
    <3>4. j \in reported => FinalOnDisk(j)'
      BY <3>2 DEF BackupInv, Progresses, WholeOnDisk, Final, FinalOnDisk
    <3> QED
      BY <3>3, <3>4
  <2> QED
    BY <2>1, <2>2
<1>16. VerifiedIsWhole'
  BY DEF BackupInv, VerifiedIsWhole
<1> QED
  BY <1>9, <1>10, <1>11, <1>12, <1>13, <1>14, <1>15, <1>16 DEF BackupInv
LEMMA MkdirKeeps ==
  ASSUME BackupInv, NEW s \in Servers, NEW i \in BackupIds, Mkdir(s, i)
  PROVE  BackupInv'
<1> DEFINE dir == [NoDir EXCEPT !.place = "temp"]
           w == [Idle EXCEPT !.at = "named", !.id = i]
<1>1. /\ work[s].at = "start" /\ i \notin made /\ made' = made \cup {i}
      /\ Stores(i, dir) /\ Goes(s, w)
      /\ UNCHANGED <<old, listing, renamed, reported, overran>>
  BY DEF Mkdir, At
<1>2. disk[i] = NothingStored /\ i \notin renamed /\ i \notin reported
  BY <1>1 DEF BackupInv, DiskFollows, BackupTypes
<1>3. dirs[i].place = "gone"
  BY <1>2 DEF BackupInv, DiskFollows, NothingStored
<1>4. i \notin old
  BY <1>3 DEF BackupInv, DiskFollows
<1>5. dir \in Dirs /\ dir.place = "temp" /\ dir.db = "none" /\ dir.manifest = FALSE
  BY DEF Dirs, NoDir
<1>6. w \in Workers /\ w.at = "named" /\ w.id = i /\ w.tree = 0 /\ w.todo = {}
  BY DEF Workers, Idle, Ids, During
<1> DEFINE part == [place |-> {"gone", "temp"}, db |-> {"none"}, manifest |-> {FALSE}]
<1>7. part \in Parts
  BY DEF Parts
<1>8. dirs' = [dirs EXCEPT ![i] = dir]
  BY <1>1 DEF Stores
<1>9. disk' = [disk EXCEPT ![i] = part]
  <2>1. disk[i].place = {"gone"} /\ disk[i].db = {"none"} /\ disk[i].manifest = {FALSE}
    BY <1>2 DEF NothingStored
  <2>2. disk' = [disk EXCEPT ![i] =
                   [place |-> disk[i].place \cup {dir.place}, db |-> disk[i].db \cup {dir.db},
                    manifest |-> disk[i].manifest \cup {dir.manifest}]]
    BY <1>1 DEF Stores
  <2>3. /\ disk[i].place \cup {dir.place} = {"gone", "temp"}
        /\ disk[i].db \cup {dir.db} = {"none"} /\ disk[i].manifest \cup {dir.manifest} = {FALSE}
    BY <1>5, <2>1
  <2> QED
    BY <2>2, <2>3
<1>10. work' \in [Servers -> Workers] /\ work'[s] = w /\ \A t \in Servers \ {s} : work'[t] = work[t]
  BY <1>1, <1>6, WorkChanges DEF BackupInv
<1>11. /\ dirs' \in [BackupIds -> Dirs] /\ dirs'[i] = dir
       /\ disk' \in [BackupIds -> Parts] /\ disk'[i] = part
       /\ \A j \in BackupIds \ {i} : dirs'[j] = dirs[j] /\ disk'[j] = disk[j]
  BY <1>5, <1>7, <1>8, <1>9 DEF BackupInv, BackupTypes
<1>12. /\ part.place = {"gone", "temp"} /\ part.db = {"none"} /\ part.manifest = {FALSE}
  OBVIOUS
<1> HIDE DEF w, dir, part
<1>13. \A t \in Servers : work[t].id # i
  <2>1. i # 0
    BY IdsAreNumbers
  <2> QED
    BY <1>1, <2>1 DEF BackupInv, OneWorker
<1>14. \A j \in BackupIds \ {i} : Live(j)' => Live(j)
  BY <1>1, <1>6, <1>10 DEF Live
<1>15. \A j \in BackupIds : (Excused(j)' <=> Excused(j)) /\ Newer(j)' = Newer(j)
  BY <1>1 DEF Excused, Newer
<1>16. BackupTypes'
  BY <1>1, <1>10, <1>11 DEF BackupInv, BackupTypes
<1>17. DiskFollows'
  BY <1>1, <1>4, <1>5, <1>11, <1>12 DEF BackupInv, DiskFollows
<1>18. OneWorker'
  <2>1. /\ w.at \notin Before /\ w.at \in During \ {"prune"} /\ w.at \in Unnamed
    BY <1>6 DEF Before, During, Unnamed
  <2>2. \A t \in Servers : /\ work'[t].at \in Before => work'[t].id = 0
                           /\ work'[t].at \notin Before => work'[t].id \in made' \ reported
                           /\ work'[t].at \in During \ {"prune"} => work'[t].tree = 0
                           /\ work'[t].at \in Unnamed => work'[t].id \notin renamed
                           /\ work'[t].at \in During \ Unnamed => work'[t].id \in renamed
    <3> SUFFICES ASSUME NEW t \in Servers
                 PROVE  /\ work'[t].at \in Before => work'[t].id = 0
                        /\ work'[t].at \notin Before => work'[t].id \in made' \ reported
                        /\ work'[t].at \in During \ {"prune"} => work'[t].tree = 0
                        /\ work'[t].at \in Unnamed => work'[t].id \notin renamed
                        /\ work'[t].at \in During \ Unnamed => work'[t].id \in renamed
      OBVIOUS
    <3>1. CASE t = s
      BY <1>1, <1>2, <1>6, <1>10, <2>1, <3>1
    <3>2. CASE t # s
      BY <1>1, <1>10, <3>2 DEF BackupInv, OneWorker
    <3> QED
      BY <3>1, <3>2
  <2>3. \A t, u \in Servers : t # u /\ work'[t].id = work'[u].id => work'[t].id = 0
    BY <1>6, <1>10, <1>13 DEF BackupInv, OneWorker
  <2> QED
    BY <1>1, <2>2, <2>3 DEF OneWorker
<1>19. OldExcused'
  BY <1>1, <1>4, <1>14, <1>15 DEF BackupInv, OldExcused, BackupTypes
<1>20. RemovesDead'
  <2>1. \A t \in Servers : work'[t].tree # i /\ work'[t].tree \in made \cup {0}
    <3>1. i # 0
      BY IdsAreNumbers
    <3> QED
      BY <1>1, <1>6, <1>10, <3>1 DEF BackupInv, RemovesDead
  <2> QED
    BY <1>1, <1>6, <1>10, <1>14, <1>15, <2>1 DEF BackupInv, RemovesDead, BackupTypes, Workers, Ids
<1>21. NoPartial'
  <2>1. ASSUME NEW j \in BackupIds \ {i}
        PROVE  /\ Complete(j)' => dirs'[j].db # "partial" /\ "partial" \notin disk'[j].db
               /\ "final" \in disk'[j].place => j \in renamed'
    <3>1. Complete(j)' => Complete(j)
      BY <1>1, <1>6, <1>10 DEF Complete
    <3> QED
      BY <1>1, <1>11, <3>1 DEF BackupInv, NoPartial
  <2>2. /\ dirs'[i].db # "partial" /\ "partial" \notin disk'[i].db
        /\ "final" \notin disk'[i].place
    BY <1>5, <1>11, <1>12
  <2> QED
    BY <2>1, <2>2 DEF NoPartial
<1>22. Progresses'
  <2> SUFFICES ASSUME NEW j \in BackupIds, ~ Excused(j)
               PROVE  /\ \A t \in Servers : work'[t].id = j => Progress(t, j)'
                      /\ j \in reported => FinalOnDisk(j)'
    BY <1>1, <1>15 DEF Progresses
  <2>1. CASE j = i
    <3>1. \A t \in Servers : work'[t].id = i => t = s
      BY <1>10, <1>13
    <3>2. Progress(s, i)'
      BY <1>6, <1>10 DEF Progress
    <3> QED
      BY <1>2, <2>1, <3>1, <3>2
  <2>2. CASE j # i
    <3>1. \A t \in Servers : work'[t].id = j => work'[t] = work[t] /\ Progress(t, j)
      BY <1>6, <1>10, <2>2 DEF BackupInv, Progresses
    <3>2. dirs'[j] = dirs[j] /\ disk'[j] = disk[j]
      BY <1>11, <2>2
    <3>3. \A t \in Servers : work'[t].id = j => Progress(t, j)'
      BY <3>1, <3>2 DEF Progress, Whole, WholeOnDisk, Final, FinalOnDisk
    <3>4. j \in reported => FinalOnDisk(j)'
      BY <3>2 DEF BackupInv, Progresses, WholeOnDisk, Final, FinalOnDisk
    <3> QED
      BY <3>3, <3>4
  <2> QED
    BY <2>1, <2>2
<1>23. VerifiedIsWhole'
  BY <1>1 DEF BackupInv, VerifiedIsWhole
<1> QED
  BY <1>16, <1>17, <1>18, <1>19, <1>20, <1>21, <1>22, <1>23 DEF BackupInv

-----------------------------------------------------------------------------
\* The removal of a directory.

LEMMA RemovalKeeps ==
  ASSUME BackupInv, NEW s \in Servers, NEW i, i = work[s].tree, i # 0, NEW dir \in Dirs,
         Stores(i, dir), dir.db \in {dirs[i].db, "none"}, dir.place \in {dirs[i].place, "gone"},
         dir.place = "gone" => dir = NoDir,
         old' = old \ {i}, UNCHANGED <<listing, made, renamed, reported, overran>>,
         \/ UNCHANGED work
         \/ Goes(s, [work[s] EXCEPT !.tree = 0, !.removed = TRUE])
  PROVE  BackupInv'
<1>1. i \in BackupIds
  BY DEF BackupInv, BackupTypes, Workers, Ids
<1>2. Excused(i) \/ ~ Live(i)
  BY DEF BackupInv, RemovesDead
<1> DEFINE part == [place |-> disk[i].place \cup {dir.place}, db |-> disk[i].db \cup {dir.db},
                    manifest |-> disk[i].manifest \cup {dir.manifest}]
<1>3. part \in Parts
  BY <1>1 DEF BackupInv, BackupTypes, Parts, Dirs
<1>4. dirs' = [dirs EXCEPT ![i] = dir] /\ disk' = [disk EXCEPT ![i] = part]
  BY DEF Stores
<1>5. /\ part.place = disk[i].place \cup {dir.place} /\ part.db = disk[i].db \cup {dir.db}
      /\ part.manifest = disk[i].manifest \cup {dir.manifest}
  OBVIOUS
<1>6. i \notin made => part = NothingStored
  <2> SUFFICES ASSUME i \notin made PROVE part = NothingStored
    OBVIOUS
  <2>1. disk[i] = NothingStored
    BY <1>1 DEF BackupInv, DiskFollows
  <2>2. dirs[i].place = "gone"
    BY <1>1, <2>1 DEF BackupInv, DiskFollows, NothingStored
  <2>3. dir = NoDir
    BY <2>2
  <2>4. /\ disk[i].place = {"gone"} /\ disk[i].db = {"none"} /\ disk[i].manifest = {FALSE}
        /\ dir.place = "gone" /\ dir.db = "none" /\ dir.manifest = FALSE
    BY <2>1, <2>3 DEF NothingStored, NoDir
  <2>5. /\ disk[i].place \cup {dir.place} = {"gone"} /\ disk[i].db \cup {dir.db} = {"none"}
        /\ disk[i].manifest \cup {dir.manifest} = {FALSE}
    BY <2>4
  <2> QED
    BY <2>5 DEF NothingStored
<1> HIDE DEF part
<1>7. /\ dirs' \in [BackupIds -> Dirs] /\ dirs'[i] = dir
      /\ disk' \in [BackupIds -> Parts] /\ disk'[i] = part
      /\ \A j \in BackupIds \ {i} : dirs'[j] = dirs[j] /\ disk'[j] = disk[j]
  BY <1>1, <1>3, <1>4 DEF BackupInv, BackupTypes
<1>8. /\ work' \in [Servers -> Workers]
      /\ \A t \in Servers : /\ work'[t].at = work[t].at /\ work'[t].id = work[t].id
                            /\ work'[t].todo = work[t].todo /\ work'[t].tree \in {work[t].tree, 0}
  <2>1. CASE UNCHANGED work
    BY <2>1 DEF BackupInv, BackupTypes
  <2>2. CASE Goes(s, [work[s] EXCEPT !.tree = 0, !.removed = TRUE])
    <3> DEFINE w == [work[s] EXCEPT !.tree = 0, !.removed = TRUE]
    <3>1. /\ w \in Workers /\ w.at = work[s].at /\ w.id = work[s].id /\ w.todo = work[s].todo
          /\ w.tree = 0
      BY DEF BackupInv, BackupTypes, Workers, Ids
    <3>2. Goes(s, w)
      BY <2>2
    <3> HIDE DEF w
    <3>3. work' \in [Servers -> Workers] /\ work'[s] = w /\ \A t \in Servers \ {s} : work'[t] = work[t]
      BY <3>1, <3>2, WorkChanges DEF BackupInv
    <3> QED
      BY <3>1, <3>3
  <2> QED
    BY <2>1, <2>2
<1>9. \A j \in BackupIds : /\ Live(j)' <=> Live(j)
                           /\ Complete(j)' <=> Complete(j)
  BY <1>8 DEF Live, Complete
<1>10. \A j \in BackupIds : (Excused(j)' <=> Excused(j)) /\ Newer(j)' = Newer(j)
  BY DEF Excused, Newer
<1>11. BackupTypes'
  BY <1>7, <1>8 DEF BackupInv, BackupTypes
<1>12. DiskFollows'
  BY <1>5, <1>6, <1>7 DEF BackupInv, DiskFollows
<1>13. OneWorker'
  BY <1>8 DEF BackupInv, OneWorker
<1>14. OldExcused'
  BY <1>9, <1>10 DEF BackupInv, OldExcused, BackupTypes
<1>15. RemovesDead'
  BY <1>8, <1>9, <1>10 DEF BackupInv, RemovesDead, BackupTypes, Workers, Ids
<1>16. NoPartial'
  <2>1. ASSUME Complete(i) PROVE dir.db # "partial" /\ "partial" \notin part.db
    BY <1>1, <1>5, <2>1 DEF BackupInv, NoPartial
  <2>2. "final" \in part.place => i \in renamed
    BY <1>1, <1>5 DEF BackupInv, NoPartial, DiskFollows
  <2> QED
    BY <1>7, <1>9, <2>1, <2>2 DEF BackupInv, NoPartial
<1>17. Progresses'
  <2> SUFFICES ASSUME NEW j \in BackupIds, ~ Excused(j)
               PROVE  /\ \A t \in Servers : work'[t].id = j => Progress(t, j)'
                      /\ j \in reported => FinalOnDisk(j)'
    BY <1>10 DEF Progresses
  <2>1. CASE j = i
    <3>1. ~ Live(i)
      BY <1>2, <2>1
    <3>2. j \notin reported /\ \A t \in Servers : work'[t].id = j => work'[t].at \notin During
      BY <1>8, <2>1, <3>1 DEF Live
    <3> QED
      BY <3>2 DEF Progress, During
  <2>2. CASE j # i
    <3>1. dirs'[j] = dirs[j] /\ disk'[j] = disk[j]
      BY <1>7, <2>2
    <3>2. \A t \in Servers : work'[t].id = j => Progress(t, j)
      BY <1>8 DEF BackupInv, Progresses
    <3>3. \A t \in Servers : work'[t].id = j => Progress(t, j)'
      BY <1>8, <3>1, <3>2 DEF Progress, Whole, WholeOnDisk, Final, FinalOnDisk
    <3>4. j \in reported => FinalOnDisk(j)'
      BY <3>1 DEF BackupInv, Progresses, WholeOnDisk, Final, FinalOnDisk
    <3> QED
      BY <3>3, <3>4
  <2> QED
    BY <2>1, <2>2
<1>18. VerifiedIsWhole'
  BY DEF BackupInv, VerifiedIsWhole
<1> QED
  BY <1>11, <1>12, <1>13, <1>14, <1>15, <1>16, <1>17, <1>18 DEF BackupInv
-----------------------------------------------------------------------------
\* What happens to the servers, and the listings.

LEMMA PowerLossKeeps ==
  ASSUME BackupInv, PowerLoss
  PROVE  BackupInv'
<1>1. /\ work' = [s \in Servers |-> Idle] /\ listing' = NoListing
      /\ old' = {i \in old : dirs'[i].place = "temp"}
      /\ disk' = [i \in BackupIds |-> [place |-> {dirs'[i].place}, db |-> {dirs'[i].db},
                                       manifest |-> {dirs'[i].manifest}]]
      /\ UNCHANGED <<made, renamed, reported, overran>>
      /\ dirs' \in [BackupIds -> UNION {Left(i) : i \in BackupIds}]
      /\ \A i \in BackupIds : dirs'[i] \in Left(i)
  BY DEF PowerLoss
<1>2. ASSUME NEW i \in BackupIds
      PROVE  /\ dirs'[i] \in Dirs
             /\ \/ dirs'[i] = NoDir /\ "gone" \in disk[i].place
                \/ /\ dirs'[i].place \in disk[i].place /\ dirs'[i].place # "gone"
                   /\ dirs'[i].db \in disk[i].db /\ dirs'[i].manifest \in disk[i].manifest
  <2>1. PICK dir \in [place : disk[i].place, db : disk[i].db, manifest : disk[i].manifest] :
          dirs'[i] = IF dir.place = "gone" THEN NoDir ELSE dir
    BY <1>1 DEF Left
  <2>2. /\ dir.place \in disk[i].place /\ dir.db \in disk[i].db /\ dir.manifest \in disk[i].manifest
    OBVIOUS
  <2>3. disk[i] \in Parts
    BY DEF BackupInv, BackupTypes
  <2>4. dir \in Dirs /\ NoDir \in Dirs
    BY <2>3 DEF Parts, Dirs, NoDir
  <2> QED
    BY <2>1, <2>2, <2>4
<1>3. dirs' \in [BackupIds -> Dirs]
  BY <1>1, <1>2
<1>4. \A i \in BackupIds : /\ disk'[i].place = {dirs'[i].place} /\ disk'[i].db = {dirs'[i].db}
                           /\ disk'[i].manifest = {dirs'[i].manifest}
  BY <1>1
<1>5. disk' \in [BackupIds -> Parts]
  BY <1>1, <1>3 DEF Dirs, Parts
<1>6. Idle \in Workers /\ Idle.at \in Before /\ Idle.id = 0 /\ Idle.tree = 0 /\ Idle.todo = {}
      /\ Idle.at \notin During /\ Idle.at \notin Unnamed /\ Idle.at # "prune"
  BY DEF Idle, Workers, Ids, Before, During, Unnamed
<1>7. \A s \in Servers : work'[s] = Idle
  BY <1>1
<1>8. \A j \in BackupIds : (Excused(j)' <=> Excused(j)) /\ Newer(j)' = Newer(j)
  BY <1>1 DEF Excused, Newer
<1>9. BackupTypes'
  <2>1. NoListing \in Listings
    BY DEF NoListing, Listings, Ids
  <2> QED
    BY <1>1, <1>3, <1>5, <1>6, <1>7, <2>1 DEF BackupInv, BackupTypes
<1>10. DiskFollows'
  <2> SUFFICES ASSUME NEW i \in BackupIds
               PROVE  /\ dirs'[i].place = "gone" => dirs'[i] = NoDir
                      /\ i \notin made => disk'[i] = NothingStored
    BY <1>1, <1>4 DEF DiskFollows
  <2>1. dirs'[i].place = "gone" => dirs'[i] = NoDir
    BY <1>2
  <2>2. ASSUME i \notin made PROVE disk'[i] = NothingStored
    <3>1. disk[i].place = {"gone"}
      BY <2>2 DEF BackupInv, DiskFollows, NothingStored
    <3>2. dirs'[i] = NoDir
      BY <1>2, <3>1
    <3>3. disk'[i] = [place |-> {dirs'[i].place}, db |-> {dirs'[i].db},
                      manifest |-> {dirs'[i].manifest}]
      BY <1>1
    <3>4. dirs'[i].place = "gone" /\ dirs'[i].db = "none" /\ dirs'[i].manifest = FALSE
      BY <3>2 DEF NoDir
    <3> QED
      BY <3>3, <3>4 DEF NothingStored
  <2> QED
    BY <2>1, <2>2
<1>11. OneWorker'
  BY <1>6, <1>7 DEF OneWorker
<1>12. \A i \in BackupIds : Live(i)' => i \in reported
  BY <1>1, <1>6, <1>7 DEF Live
<1>13. OldExcused'
  BY <1>1, <1>8, <1>12 DEF BackupInv, OldExcused, BackupTypes, Live
<1>14. RemovesDead'
  BY <1>6, <1>7 DEF RemovesDead
<1>15. NoPartial'
  <2> SUFFICES ASSUME NEW i \in BackupIds
               PROVE  /\ Complete(i)' => dirs'[i].db # "partial" /\ "partial" \notin disk'[i].db
                      /\ "final" \in disk'[i].place => i \in renamed'
    BY DEF NoPartial
  <2>1. Complete(i)' => i \in renamed
    BY <1>1, <1>6, <1>7 DEF Complete
  <2>2. i \in renamed => dirs'[i].db # "partial"
    BY <1>2 DEF BackupInv, NoPartial, Complete, NoDir
  <2>3. "final" = dirs'[i].place => i \in renamed
    BY <1>2 DEF BackupInv, NoPartial, NoDir
  <2> QED
    BY <1>1, <1>4, <2>1, <2>2, <2>3
<1>16. Progresses'
  <2> SUFFICES ASSUME NEW i \in BackupIds, ~ Excused(i), i \in reported
               PROVE  FinalOnDisk(i)'
    BY <1>1, <1>6, <1>7, <1>8, IdsAreNumbers DEF Progresses
  <2>1. /\ disk[i].place = {"final"} /\ disk[i].db = {"whole"} /\ disk[i].manifest = {TRUE}
    BY DEF BackupInv, Progresses, FinalOnDisk, Final, WholeOnDisk
  <2>2. dirs'[i].place = "final" /\ dirs'[i].db = "whole" /\ dirs'[i].manifest = TRUE
    BY <1>2, <2>1
  <2>3. disk'[i].place = {"final"} /\ disk'[i].db = {"whole"} /\ disk'[i].manifest = {TRUE}
    BY <1>4, <2>2
  <2> QED
    BY <2>2, <2>3 DEF FinalOnDisk, Final, WholeOnDisk
<1>17. VerifiedIsWhole'
  BY <1>1 DEF VerifiedIsWhole, NoListing
<1> QED
  BY <1>9, <1>10, <1>11, <1>13, <1>14, <1>15, <1>16, <1>17 DEF BackupInv

\* Nothing but the listing, the ages and what overran changes.
LEMMA LookingKeeps ==
  ASSUME BackupInv, UNCHANGED <<dirs, disk, work, made, renamed, reported>>,
         overran \subseteq overran', overran' \subseteq Ids, old' \subseteq BackupIds,
         \A i \in old' : dirs[i].place # "gone" /\ (Live(i) => Excused(i)'),
         VerifiedIsWhole', listing' \in Listings
  PROVE  BackupInv'
<1>1. \A i \in BackupIds : Excused(i) => Excused(i)'
  BY ExcusedStays DEF BackupInv, BackupTypes
<1>2. \A i \in BackupIds : Newer(i)' = Newer(i) /\ (Live(i)' <=> Live(i)) /\ (Complete(i)' <=> Complete(i))
  BY DEF Newer, Live, Complete
<1>3. BackupTypes' /\ DiskFollows' /\ OneWorker'
  BY DEF BackupInv, BackupTypes, DiskFollows, OneWorker
<1>4. OldExcused'
  BY <1>2 DEF OldExcused
<1>5. RemovesDead'
  BY <1>1, <1>2 DEF BackupInv, RemovesDead, BackupTypes, Workers, Ids
<1>6. NoPartial'
  BY <1>2 DEF BackupInv, NoPartial
<1>7. Progresses'
  <2> SUFFICES ASSUME NEW i \in BackupIds, ~ Excused(i)
               PROVE  /\ \A s \in Servers : work[s].id = i => Progress(s, i)'
                      /\ i \in reported => FinalOnDisk(i)'
    BY <1>1 DEF Progresses
  <2>1. \A s \in Servers : Progress(s, i)' <=> Progress(s, i)
    BY DEF Progress, Whole, WholeOnDisk, Final, FinalOnDisk
  <2>2. FinalOnDisk(i)' <=> FinalOnDisk(i)
    BY DEF WholeOnDisk, Final, FinalOnDisk
  <2> QED
    BY <2>1, <2>2 DEF BackupInv, Progresses
<1> QED
  BY <1>3, <1>4, <1>5, <1>6, <1>7 DEF BackupInv

LEMMA DayKeeps ==
  ASSUME BackupInv, Day
  PROVE  BackupInv'
<1>1. /\ old' = TempDirs /\ overran' = overran \cup {work[s].id : s \in Servers}
      /\ UNCHANGED <<dirs, disk, work, listing, made, renamed, reported>>
  BY DEF Day
<1>2. overran' \subseteq Ids /\ overran \subseteq overran'
  BY <1>1 DEF BackupInv, BackupTypes, Workers
<1>3. ASSUME NEW i \in TempDirs, Live(i) PROVE Excused(i)'
  <2>1. CASE i \in reported
    <3>1. Excused(i)
      BY <2>1 DEF TempDirs, BackupInv, Progresses, FinalOnDisk, Final
    <3> QED
      BY <1>1, <1>2, <3>1, ExcusedStays DEF BackupInv, BackupTypes, TempDirs
  <2>2. CASE i \notin reported
    BY <1>1, <1>3, <2>2 DEF Live, Excused
  <2> QED
    BY <2>1, <2>2
<1>4. VerifiedIsWhole'
  BY <1>1 DEF BackupInv, VerifiedIsWhole
<1>5. \A i \in old' : i \in BackupIds /\ dirs[i].place # "gone"
  BY <1>1 DEF TempDirs
<1> QED
  BY <1>1, <1>2, <1>3, <1>4, <1>5, LookingKeeps DEF BackupInv, BackupTypes

LEMMA ListingKeeps ==
  ASSUME BackupInv, ListBegin \/ ListCopy \/ ListEnd \/ \E i \in BackupIds : ListManifest(i)
  PROVE  BackupInv'
<1>1. UNCHANGED <<dirs, disk, old, work, made, renamed, reported, overran>>
  BY DEF ListBegin, ListCopy, ListEnd, ListManifest
<1>2. \A i \in BackupIds : Excused(i)' <=> Excused(i)
  BY <1>1 DEF Excused, Newer
<1>3. \A i \in old : i \in BackupIds /\ dirs[i].place # "gone" /\ (Live(i) => Excused(i))
  BY DEF BackupInv, DiskFollows, OldExcused, BackupTypes
<1>4. listing' \in Listings /\ VerifiedIsWhole'
  <2>1. CASE ListBegin
    <3>1. listing' = [NoListing EXCEPT !.todo = FinalDirs]
      BY <2>1 DEF ListBegin
    <3> QED
      BY <3>1 DEF VerifiedIsWhole, NoListing, FinalDirs, Listings, Ids
  <2>2. CASE ListEnd
    <3>1. listing' = NoListing
      BY <2>2 DEF ListEnd
    <3> QED
      BY <3>1 DEF VerifiedIsWhole, NoListing, Listings, Ids
  <2>3. ASSUME NEW i \in BackupIds, ListManifest(i)
        PROVE  listing' \in Listings /\ VerifiedIsWhole'
    <3>1. PICK r \in Ids : listing' = [listing EXCEPT !.todo = @ \ {i}, !.read = r]
      BY <2>3 DEF ListManifest, Ids
    <3>2. listing \in Listings
      BY DEF BackupInv, BackupTypes
    <3>3. listing'.shown = listing.shown /\ listing' \in Listings
      BY <3>1, <3>2 DEF Listings
    <3> QED
      BY <3>3 DEF BackupInv, VerifiedIsWhole
  <2>4. CASE ListCopy
    <3> DEFINE i == listing.read
               db == IF i \in FinalDirs THEN dirs[i].db ELSE "none"
    <3>1. PICK status \in {"verified", "missing", "size_mismatch"} :
            /\ db = "none" => status = "missing"
            /\ listing' = [listing EXCEPT !.read = 0,
                 !.shown = @ \cup {[id |-> i, status |-> status, whole |-> db = "whole"]}]
      BY <2>4 DEF ListCopy
    <3>2. listing \in Listings /\ i \in BackupIds
      BY <2>4 DEF ListCopy, BackupInv, BackupTypes, Listings, Ids
    <3>3. db \in {"none", "whole"}
      <4>1. CASE i \in FinalDirs
        <5>1. dirs[i].place = "final" /\ dirs[i].place \in disk[i].place /\ dirs[i] \in Dirs
          BY <3>2, <4>1 DEF FinalDirs, BackupInv, DiskFollows, BackupTypes
        <5>2. dirs[i].db # "partial"
          BY <3>2, <5>1 DEF BackupInv, NoPartial, Complete
        <5> QED
          BY <4>1, <5>1, <5>2 DEF Dirs
      <4>2. CASE i \notin FinalDirs
        BY <4>2
      <4> QED
        BY <4>1, <4>2
    <3> DEFINE b == [id |-> i, status |-> status, whole |-> db = "whole"]
    <3>4. b.status = "verified" => b.whole
      BY <3>1, <3>3
    <3>5. b \in [id : BackupIds, status : {"verified", "missing", "size_mismatch"},
                 whole : BOOLEAN]
      BY <3>2
    <3>6. listing' = [listing EXCEPT !.read = 0, !.shown = @ \cup {b}]
      BY <3>1
    <3> HIDE DEF b
    <3>7. listing'.shown = listing.shown \cup {b} /\ listing' \in Listings
      BY <3>2, <3>5, <3>6 DEF Listings, Ids
    <3> QED
      BY <3>4, <3>7 DEF BackupInv, VerifiedIsWhole
  <2> QED
    BY <2>1, <2>2, <2>3, <2>4
<1> QED
  BY <1>1, <1>2, <1>3, <1>4, LookingKeeps DEF BackupInv, BackupTypes
-----------------------------------------------------------------------------
\* The steps of a worker.

\* What a step of an attempt finds.
LEMMA InItsDirectory ==
  ASSUME BackupInv, NEW s \in Servers, NEW i, i = work[s].id, InTemp(s), work[s].at \in Unnamed
  PROVE  /\ i \in BackupIds /\ dirs[i] \in Dirs /\ disk[i] \in Parts
         /\ dirs[i].place = "temp" /\ dirs[i].place \in disk[i].place /\ dirs[i].db \in disk[i].db
         /\ dirs[i].manifest \in disk[i].manifest /\ "final" \notin disk[i].place
         /\ ~ Excused(i) => Progress(s, i)
         /\ work[s].at \notin {"named", "copying"} =>
              dirs[i].db # "partial" /\ "partial" \notin disk[i].db
<1>1. i \in BackupIds /\ dirs[i].place = "temp"
  BY DEF InTemp, TempDirs
<1>2. i \notin renamed
  BY DEF BackupInv, OneWorker
<1>3. work[s].at \notin {"named", "copying"} => Complete(i)
  BY DEF Complete, Unnamed, During
<1> QED
  BY <1>1, <1>2, <1>3 DEF BackupInv, BackupTypes, DiskFollows, NoPartial, Progresses

LEMMA CopyBeginKeeps ==
  ASSUME BackupInv, NEW s \in Servers, NEW i, i = work[s].id, CopyBegin(s)
  PROVE  BackupInv'
<1> DEFINE dir == [dirs[i] EXCEPT !.db = "partial"]
           part == [place |-> disk[i].place \cup {dir.place}, db |-> disk[i].db \cup {dir.db},
                    manifest |-> disk[i].manifest \cup {dir.manifest}]
<1>1. /\ InTemp(s) /\ work[s].at = "named" /\ Goes(s, [work[s] EXCEPT !.at = "copying"])
      /\ Stores(i, dir) /\ old' = old \ {i}
      /\ UNCHANGED <<listing, made, renamed, reported, overran>>
  BY DEF CopyBegin, Steps, At
<1>2. /\ i \in BackupIds /\ dirs[i] \in Dirs /\ disk[i] \in Parts
      /\ dirs[i].place = "temp" /\ "final" \notin disk[i].place
  BY <1>1, InItsDirectory DEF Unnamed
<1>3. /\ dir \in Dirs /\ dir.place = "temp" /\ dir.db = "partial"
  BY <1>2 DEF Dirs
<1>4. dirs' = [dirs EXCEPT ![i] = dir] /\ disk' = [disk EXCEPT ![i] = part]
  BY <1>1 DEF Stores
<1>5. /\ part \in Parts /\ dir.place \in part.place /\ dir.db \in part.db
      /\ dir.manifest \in part.manifest /\ "final" \notin part.place
  BY <1>2, <1>3 DEF Parts, Dirs
<1>6. "copying" \in Unnamed /\ work[s].at \in Unnamed
  BY <1>1 DEF Unnamed
<1>7. Progress(s, i)'
  BY <1>1 DEF Progress, BackupInv, BackupTypes, Goes, Workers
<1> HIDE DEF dir, part
<1> QED
  BY <1>1, <1>3, <1>4, <1>5, <1>6, <1>7, AttemptSteps

LEMMA CopyEndKeeps ==
  ASSUME BackupInv, NEW s \in Servers, NEW i, i = work[s].id, CopyEnd(s)
  PROVE  BackupInv'
<1> DEFINE dir == [dirs[i] EXCEPT !.db = "whole"]
           part == [disk[i] EXCEPT !.db = {"none", "whole"}]
<1>1. /\ InTemp(s) /\ work[s].at = "copying" /\ Goes(s, [work[s] EXCEPT !.at = "copied"])
      /\ dirs' = [dirs EXCEPT ![i].db = "whole"]
      /\ disk' = [disk EXCEPT ![i].db = {"none", "whole"}]
      /\ UNCHANGED <<old, listing, made, renamed, reported, overran>>
  BY DEF CopyEnd, Steps, At
<1>2. /\ i \in BackupIds /\ dirs[i] \in Dirs /\ disk[i] \in Parts
      /\ dirs[i].place = "temp" /\ "final" \notin disk[i].place
      /\ dirs[i].place \in disk[i].place /\ dirs[i].manifest \in disk[i].manifest
  BY <1>1, InItsDirectory DEF Unnamed
<1>3. /\ dir \in Dirs /\ dir.place = "temp" /\ dir.db = "whole" /\ dir.manifest = dirs[i].manifest
  BY <1>2 DEF Dirs
<1>4. dirs' = [dirs EXCEPT ![i] = dir] /\ disk' = [disk EXCEPT ![i] = part]
  BY <1>1
<1>5. /\ part \in Parts /\ part.place = disk[i].place /\ part.db = {"none", "whole"}
      /\ part.manifest = disk[i].manifest
  BY <1>2 DEF Parts
<1>6. "copied" \in Unnamed /\ work[s].at \in Unnamed
  BY <1>1 DEF Unnamed
<1>7. dirs'[i] = dir
  BY <1>2, <1>4 DEF BackupInv, BackupTypes
<1>8. work'[s].at = "copied"
  BY <1>1 DEF BackupInv, BackupTypes, Goes, Workers
<1> HIDE DEF dir, part
<1>9. Progress(s, i)'
  BY <1>3, <1>7, <1>8 DEF Progress, Whole
<1>10. /\ dir.place # "gone" /\ dir.place \in part.place /\ dir.db \in part.db
       /\ dir.manifest \in part.manifest /\ "final" \notin part.place
       /\ dir.db # "partial" /\ "partial" \notin part.db
  BY <1>2, <1>3, <1>4, <1>5
<1>11. renamed' = (IF "copied" = "published" THEN renamed \cup {i} ELSE renamed) /\ old' \subseteq old
  BY <1>1
<1>12. /\ Goes(s, [work[s] EXCEPT !.at = "copied"])
       /\ UNCHANGED <<listing, made, reported, overran>>
  BY <1>1
<1> QED
  BY <1>3, <1>4, <1>5, <1>6, <1>9, <1>10, <1>11, <1>12, AttemptSteps

LEMMA WriteManifestKeeps ==
  ASSUME BackupInv, NEW s \in Servers, NEW i, i = work[s].id, WriteManifest(s)
  PROVE  BackupInv'
<1> DEFINE dir == [dirs[i] EXCEPT !.manifest = TRUE]
           part == [place |-> disk[i].place \cup {dir.place}, db |-> disk[i].db \cup {dir.db},
                    manifest |-> disk[i].manifest \cup {dir.manifest}]
<1>1. /\ InTemp(s) /\ work[s].at = "copied" /\ Goes(s, [work[s] EXCEPT !.at = "written"])
      /\ Stores(i, dir) /\ old' = old \ {i}
      /\ UNCHANGED <<listing, made, renamed, reported, overran>>
  BY DEF WriteManifest, Steps, At
<1>2. /\ i \in BackupIds /\ dirs[i] \in Dirs /\ disk[i] \in Parts
      /\ dirs[i].place = "temp" /\ "final" \notin disk[i].place
      /\ dirs[i].db # "partial" /\ "partial" \notin disk[i].db
      /\ ~ Excused(i) => Progress(s, i)
  BY <1>1, InItsDirectory DEF Unnamed
<1>3. /\ dir \in Dirs /\ dir.place = "temp" /\ dir.db = dirs[i].db /\ dir.manifest = TRUE
  BY <1>2 DEF Dirs
<1>4. dirs' = [dirs EXCEPT ![i] = dir] /\ disk' = [disk EXCEPT ![i] = part]
  BY <1>1 DEF Stores
<1>5. /\ part \in Parts /\ dir.place \in part.place /\ dir.db \in part.db
      /\ dir.manifest \in part.manifest /\ "final" \notin part.place /\ "partial" \notin part.db
  BY <1>2, <1>3 DEF Parts, Dirs
<1>6. "written" \in Unnamed /\ work[s].at \in Unnamed
  BY <1>1 DEF Unnamed
<1>7. dirs'[i] = dir
  BY <1>2, <1>4 DEF BackupInv, BackupTypes
<1>8. work'[s].at = "written"
  BY <1>1 DEF BackupInv, BackupTypes, Goes, Workers
<1> HIDE DEF dir, part
<1>9. ~ Excused(i) => Progress(s, i)'
  BY <1>1, <1>2, <1>3, <1>7, <1>8 DEF Progress, Whole
<1>10. /\ dir.place # "gone" /\ dir.place \in part.place /\ dir.db \in part.db
       /\ dir.manifest \in part.manifest /\ "final" \notin part.place
       /\ dir.db # "partial" /\ "partial" \notin part.db
  BY <1>2, <1>3, <1>4, <1>5
<1>11. renamed' = (IF "written" = "published" THEN renamed \cup {i} ELSE renamed) /\ old' \subseteq old
  BY <1>1
<1> QED
  BY <1>1, <1>2, <1>3, <1>4, <1>5, <1>6, <1>9, <1>10, <1>11, AttemptSteps

LEMMA UnlockKeeps ==
  ASSUME BackupInv, NEW s \in Servers, NEW i, i = work[s].id, Unlock(s)
  PROVE  BackupInv'
<1> DEFINE dir == dirs[i]
           part == [disk[i] EXCEPT !.db = {dirs[i].db}, !.manifest = {dirs[i].manifest}]
<1>1. /\ InTemp(s) /\ work[s].at = "written" /\ Goes(s, [work[s] EXCEPT !.at = "unlocked"])
      /\ disk' = [disk EXCEPT ![i].db = {dirs[i].db}, ![i].manifest = {dirs[i].manifest}]
      /\ old' = old \ {i}
      /\ UNCHANGED <<dirs, listing, made, renamed, reported, overran>>
  BY DEF Unlock, Steps, At
<1>2. /\ i \in BackupIds /\ dirs[i] \in Dirs /\ disk[i] \in Parts
      /\ dirs[i].place = "temp" /\ dirs[i].place \in disk[i].place /\ "final" \notin disk[i].place
      /\ dirs[i].db # "partial"
      /\ ~ Excused(i) => Progress(s, i)
  BY <1>1, InItsDirectory DEF Unnamed
<1>3. dirs' = [dirs EXCEPT ![i] = dir] /\ disk' = [disk EXCEPT ![i] = part]
  BY <1>1, <1>2 DEF BackupInv, BackupTypes
<1>4. /\ part \in Parts /\ part.place = disk[i].place /\ part.db = {dirs[i].db}
      /\ part.manifest = {dirs[i].manifest}
  BY <1>2 DEF Parts, Dirs
<1>5. "unlocked" \in Unnamed /\ work[s].at \in Unnamed
  BY <1>1 DEF Unnamed
<1>6. dirs'[i] = dirs[i] /\ disk'[i] = part
  BY <1>1, <1>2, <1>3 DEF BackupInv, BackupTypes
<1>7. work'[s].at = "unlocked"
  BY <1>1 DEF BackupInv, BackupTypes, Goes, Workers
<1> HIDE DEF part
<1>8. ASSUME ~ Excused(i) PROVE Progress(s, i)'
  <2>1. dirs[i].db = "whole" /\ dirs[i].manifest
    BY <1>1, <1>2, <1>8 DEF Progress, Whole
  <2>2. dirs[i].manifest = TRUE
    BY <1>2, <2>1 DEF Dirs
  <2>3. WholeOnDisk(i)'
    BY <1>4, <1>6, <2>1, <2>2 DEF WholeOnDisk
  <2> QED
    BY <1>7, <2>3 DEF Progress
<1>10. /\ dir.place # "gone" /\ dir.place \in part.place /\ dir.db \in part.db
       /\ dir.manifest \in part.manifest /\ "final" \notin part.place
       /\ dir.db # "partial" /\ "partial" \notin part.db
  BY <1>2, <1>3, <1>4, <1>5
<1>11. renamed' = (IF "unlocked" = "published" THEN renamed \cup {i} ELSE renamed) /\ old' \subseteq old
  BY <1>1
<1>12. ~ Excused(i) => Progress(s, i)'
  BY <1>8
<1>13. PICK d, p : d = dir /\ p = part
  OBVIOUS
<1>14. /\ dirs' = [dirs EXCEPT ![i] = d] /\ disk' = [disk EXCEPT ![i] = p]
       /\ d \in Dirs /\ p \in Parts
       /\ d.place # "gone" /\ d.place \in p.place /\ d.db \in p.db
       /\ d.manifest \in p.manifest /\ "final" \notin p.place
       /\ d.db # "partial" /\ "partial" \notin p.db
  BY <1>2, <1>3, <1>4, <1>10, <1>13
<1>15. /\ Goes(s, [work[s] EXCEPT !.at = "unlocked"]) /\ work[s].at \in Unnamed
       /\ "unlocked" \in Unnamed \cup {"published"} /\ i = work[s].id
       /\ UNCHANGED <<listing, made, reported, overran>>
  BY <1>1, <1>5
<1> QED
  BY <1>11, <1>12, <1>14, <1>15, AttemptSteps

LEMMA PublishKeeps ==
  ASSUME BackupInv, NEW s \in Servers, NEW i, i = work[s].id, PublishBackup(s)
  PROVE  BackupInv'
<1> DEFINE dir == [dirs[i] EXCEPT !.place = "final"]
           part == [place |-> disk[i].place \cup {dir.place}, db |-> disk[i].db \cup {dir.db},
                    manifest |-> disk[i].manifest \cup {dir.manifest}]
<1>1. /\ InTemp(s) /\ work[s].at = "unlocked" /\ Goes(s, [work[s] EXCEPT !.at = "published"])
      /\ Stores(i, dir) /\ old' = old \ {i} /\ renamed' = renamed \cup {i}
      /\ UNCHANGED <<listing, made, reported, overran>>
  BY DEF PublishBackup, Steps, At
<1>2. /\ i \in BackupIds /\ dirs[i] \in Dirs /\ disk[i] \in Parts
      /\ dirs[i].db \in disk[i].db /\ dirs[i].manifest \in disk[i].manifest
      /\ dirs[i].db # "partial" /\ "partial" \notin disk[i].db
      /\ ~ Excused(i) => Progress(s, i)
  BY <1>1, InItsDirectory DEF Unnamed
<1>3. /\ dir \in Dirs /\ dir.place = "final" /\ dir.db = dirs[i].db
      /\ dir.manifest = dirs[i].manifest
  BY <1>2 DEF Dirs
<1>4. dirs' = [dirs EXCEPT ![i] = dir] /\ disk' = [disk EXCEPT ![i] = part]
  BY <1>1 DEF Stores
<1>5. /\ part \in Parts /\ dir.place \in part.place
      /\ part.db = disk[i].db /\ part.manifest = disk[i].manifest
  BY <1>2, <1>3 DEF Parts, Dirs
<1>6. work[s].at \in Unnamed
  BY <1>1 DEF Unnamed
<1>7. dirs'[i] = dir /\ disk'[i] = part
  BY <1>2, <1>3, <1>4 DEF BackupInv, BackupTypes
<1>8. work'[s].at = "published"
  BY <1>1 DEF BackupInv, BackupTypes, Goes, Workers
<1> HIDE DEF dir, part
<1>9. ASSUME ~ Excused(i) PROVE Progress(s, i)'
  <2>1. WholeOnDisk(i)
    BY <1>1, <1>2, <1>9 DEF Progress
  <2>2. Final(i)'
    BY <1>3, <1>5, <1>7, <2>1 DEF WholeOnDisk, Final
  <2> QED
    BY <1>8, <2>2 DEF Progress
<1> QED
  BY <1>1, <1>2, <1>3, <1>4, <1>5, <1>6, <1>9, AttemptSteps

LEMMA SyncRootKeeps ==
  ASSUME BackupInv, NEW s \in Servers, SyncRoot(s)
  PROVE  BackupInv'
<1> DEFINE w == [work[s] EXCEPT !.at = "durable"]
<1>1. /\ work[s].at = "published" /\ Goes(s, w) /\ disk' = SyncedRoot
      /\ UNCHANGED <<dirs, old, listing, made, renamed, reported, overran>>
  BY DEF SyncRoot, Steps, At
<1>2. Settles
  BY <1>1, SyncSettles
<1>3. work[s].tree = 0
  BY <1>1 DEF BackupInv, OneWorker, During
<1>4. /\ w \in Workers /\ w.at = "durable" /\ w.id = work[s].id /\ w.tree = 0
  BY <1>3 DEF BackupInv, BackupTypes, Workers, During
<1>5. w.at \in During \ {"prune"} /\ w.at \notin Before /\ work[s].at \notin Before
      /\ work[s].at \in During
  BY <1>1, <1>4 DEF During, Before
<1> HIDE DEF w
<1> QED
  BY <1>1, <1>2, <1>4, <1>5, WorkerMoves

\* Steps that change only the worker, and may sync what was removed.
LEMMA CreateBackupKeeps ==
  ASSUME BackupInv, NEW s \in Servers, CreateBackup(s)
  PROVE  BackupInv'
<1> DEFINE w == [Idle EXCEPT !.at = "scavenge", !.todo = TempDirs]
<1>1. Goes(s, w) /\ UNCHANGED <<dirs, disk, old, listing, made, renamed, reported, overran>>
  BY DEF CreateBackup
<1>2. Settles
  BY <1>1, SyncSettles
<1>3. w \in Workers /\ w.at = "scavenge" /\ w.id = 0 /\ w.tree = 0
  BY DEF Workers, Idle, TempDirs, Ids, Before
<1>4. w.at \in Before /\ w.at \notin During /\ w.at # "prune"
  BY <1>3 DEF Before, During
<1> HIDE DEF w
<1> QED
  BY <1>1, <1>2, <1>3, <1>4, WorkerMoves

LEMMA ScavengeAgeKeeps ==
  ASSUME BackupInv, NEW s \in Servers, NEW i \in BackupIds, ScavengeAge(s, i)
  PROVE  BackupInv'
<1> DEFINE w == IF i \in TempDirs \cap old
                THEN [work[s] EXCEPT !.at = "probe", !.tree = i, !.todo = @ \ {i}]
                ELSE [work[s] EXCEPT !.todo = @ \ {i}]
<1>1. /\ work[s].at = "scavenge" /\ work[s].tree = 0 /\ Goes(s, w)
      /\ UNCHANGED <<dirs, disk, old, listing, made, renamed, reported, overran>>
  BY DEF ScavengeAge, At
<1>2. Settles
  BY <1>1, SyncSettles
<1>3. /\ w \in Workers /\ w.at \in {"probe", "scavenge"} /\ w.id = work[s].id
      /\ w.tree = 0 \/ (w.tree = i /\ i \in TempDirs \cap old)
  BY <1>1 DEF BackupInv, BackupTypes, Workers, Ids, Before
<1>4. work[s].id = 0
  BY <1>1 DEF BackupInv, OneWorker, Before
<1>5. w.at \in Before /\ w.at \notin During /\ w.at # "prune"
  BY <1>3 DEF Before, During
<1>6. i \in TempDirs \cap old => i \in made /\ (Excused(i) \/ ~ Live(i))
  BY DEF TempDirs, BackupInv, OldExcused, DiskFollows, NothingStored
<1> HIDE DEF w
<1>7. w.tree \in made \cup {0} /\ (w.tree # 0 => Excused(w.tree) \/ ~ Live(w.tree))
  BY <1>3, <1>6
<1> QED
  BY <1>1, <1>2, <1>3, <1>4, <1>5, <1>7, WorkerMoves

LEMMA ScavengeLockKeeps ==
  ASSUME BackupInv, NEW s \in Servers, ScavengeLock(s)
  PROVE  BackupInv'
<1>1. PICK tree \in {0, work[s].tree} :
        Goes(s, [work[s] EXCEPT !.at = "scavenge", !.tree = tree])
  BY DEF ScavengeLock
<1> DEFINE w == [work[s] EXCEPT !.at = "scavenge", !.tree = tree]
<1>2. /\ work[s].at = "probe" /\ Goes(s, w)
      /\ UNCHANGED <<dirs, disk, old, listing, made, renamed, reported, overran>>
  BY <1>1 DEF ScavengeLock, At
<1>3. Settles
  BY <1>2, SyncSettles
<1>4. w \in Workers /\ w.at = "scavenge" /\ w.id = work[s].id /\ w.tree = tree
  BY DEF BackupInv, BackupTypes, Workers, Ids, Before
<1>5. work[s].id = 0
  BY <1>2 DEF BackupInv, OneWorker, Before
<1>6. w.at \in Before /\ w.at \notin During /\ w.at # "prune"
  BY <1>4 DEF Before, During
<1>7. w.tree \in made \cup {0} /\ (w.tree # 0 => Excused(w.tree) \/ ~ Live(w.tree))
  BY <1>4 DEF BackupInv, RemovesDead
<1> HIDE DEF w
<1> QED
  BY <1>2, <1>3, <1>4, <1>5, <1>6, <1>7, WorkerMoves

LEMMA BackToIdle ==
  ASSUME BackupInv, NEW s \in Servers, NEW at \in {"idle", "start"}, Goes(s, [Idle EXCEPT !.at = at]),
         disk' \in {disk, SyncedRoot},
         UNCHANGED <<dirs, old, listing, made, renamed, reported, overran>>
  PROVE  BackupInv'
<1> DEFINE w == [Idle EXCEPT !.at = at]
<1>1. w \in Workers /\ w.at = at /\ w.id = 0 /\ w.tree = 0
  BY DEF Workers, Idle, Ids, Before
<1>2. w.at \in Before /\ w.at \notin During /\ w.at # "prune"
  BY <1>1 DEF Before, During
<1>3. Goes(s, w) /\ Settles
  BY SyncSettles
<1> HIDE DEF w
<1> QED
  BY <1>1, <1>2, <1>3, WorkerMoves

LEMMA PruneScanKeeps ==
  ASSUME BackupInv, NEW s \in Servers, PruneScan(s)
  PROVE  BackupInv'
<1> DEFINE others == FinalDirs \ {work[s].id}
           w == [work[s] EXCEPT !.at = "prune", !.todo = Beyond(others)]
<1>1. /\ work[s].at = "durable" /\ Goes(s, w)
      /\ UNCHANGED <<dirs, disk, old, listing, made, renamed, reported, overran>>
  BY DEF PruneScan, At
<1>2. Settles
  BY <1>1, SyncSettles
<1>3. others \subseteq renamed /\ others \subseteq BackupIds
  BY DEF FinalDirs, BackupInv, DiskFollows, NoPartial
<1>4. ASSUME NEW i \in Beyond(others) PROVE Cardinality(Newer(i)) >= MaxRetained - 1
  <2> DEFINE above == {j \in others : j > i}
  <2>1. Cardinality(above) >= MaxRetained - 1
    BY <1>4 DEF Beyond
  <2>2. above \subseteq Newer(i) /\ IsFiniteSet(Newer(i))
    <3>1. Newer(i) \subseteq BackupIds
      BY DEF Newer, BackupInv, BackupTypes
    <3> QED
      BY <1>3, <3>1, IdsAreNumbers, FS_Subset DEF Newer
  <2>3. /\ Cardinality(above) <= Cardinality(Newer(i))
        /\ Cardinality(above) \in Nat /\ Cardinality(Newer(i)) \in Nat
    BY <2>2, FS_Subset, FS_CardinalityType
  <2> QED
    BY <2>1, <2>3, BackupsAssumption
<1>5. /\ w \in Workers /\ w.at = "prune" /\ w.id = work[s].id /\ w.tree = work[s].tree
      /\ w.todo = Beyond(others)
  BY <1>3 DEF BackupInv, BackupTypes, Workers, During, Beyond
<1>6. work[s].tree = 0
  BY <1>1 DEF BackupInv, OneWorker, During
<1>7. w.at \in During /\ w.at \notin Before /\ work[s].at \notin Before /\ work[s].at \in During
  BY <1>1, <1>5 DEF During, Before
<1> HIDE DEF w
<1> QED
  BY <1>1, <1>2, <1>4, <1>5, <1>6, <1>7, WorkerMoves

LEMMA PruneKeeps ==
  ASSUME BackupInv, NEW s \in Servers, NEW i \in BackupIds, Prune(s, i)
  PROVE  BackupInv'
<1>1. PICK tree \in {0, i} :
        /\ tree = i => i \in FinalDirs \/ i = 0
        /\ Goes(s, [work[s] EXCEPT !.todo = @ \ {i}, !.tree = tree])
  BY DEF Prune
<1> DEFINE w == [work[s] EXCEPT !.todo = @ \ {i}, !.tree = tree]
<1>2. /\ work[s].at = "prune" /\ Goes(s, w) /\ i \in work[s].todo
      /\ UNCHANGED <<dirs, disk, old, listing, made, renamed, reported, overran>>
  BY <1>1 DEF Prune, At
<1>3. Settles
  BY <1>2, SyncSettles
<1>4. /\ w \in Workers /\ w.at = "prune" /\ w.id = work[s].id /\ w.tree = tree
      /\ w.todo = work[s].todo \ {i}
  BY <1>2 DEF BackupInv, BackupTypes, Workers, Ids
<1>5. w.at \in During /\ w.at \notin Before /\ work[s].at \notin Before /\ work[s].at \in During
  BY <1>2, <1>4 DEF During, Before
<1>6. Excused(i) /\ \A j \in work[s].todo : Cardinality(Newer(j)) >= MaxRetained - 1
  BY <1>2 DEF BackupInv, RemovesDead, Excused
<1>7. w.tree \in made \cup {0} /\ (w.tree # 0 => Excused(w.tree))
  BY <1>1, <1>4, <1>6 DEF FinalDirs, BackupInv, DiskFollows, NothingStored
<1> HIDE DEF w
<1> QED
  BY <1>2, <1>3, <1>4, <1>5, <1>6, <1>7, WorkerMoves

LEMMA FailsKeeps ==
  ASSUME BackupInv, NEW s \in Servers, Fails(s)
  PROVE  BackupInv'
<1>1. PICK tree \in {0, work[s].id} : Goes(s, [work[s] EXCEPT !.at = "clean", !.tree = tree])
  BY DEF Fails
<1> DEFINE w == [work[s] EXCEPT !.at = "clean", !.tree = tree]
<1>2. /\ work[s].at \in During /\ Goes(s, w)
      /\ UNCHANGED <<dirs, disk, old, listing, made, renamed, reported, overran>>
  BY <1>1 DEF Fails, During
<1>3. Settles
  BY <1>2, SyncSettles
<1>4. work[s].at \notin Before
  BY <1>2 DEF During, Before
<1>5. work[s].id \in BackupIds /\ work[s].id \in made
  BY <1>4, ItsAttempt
<1>6. w \in Workers /\ w.at = "clean" /\ w.id = work[s].id /\ w.tree = tree
  BY DEF BackupInv, BackupTypes, Workers, Ids
<1>7. w.at \notin Before /\ w.at \notin During /\ w.at # "prune"
  BY <1>6 DEF During, Before
<1> HIDE DEF w
<1> QED
  BY <1>2, <1>3, <1>4, <1>5, <1>6, <1>7, WorkerMoves

LEMMA RemoveFailsKeeps ==
  ASSUME BackupInv, NEW s \in Servers, RemoveFails(s)
  PROVE  BackupInv'
<1> DEFINE w == [work[s] EXCEPT !.tree = 0]
<1>1. /\ Goes(s, w) /\ UNCHANGED <<dirs, disk, old, listing, made, renamed, reported, overran>>
  BY DEF RemoveFails
<1>2. Settles
  BY <1>1, SyncSettles
<1>3. /\ w \in Workers /\ w.at = work[s].at /\ w.id = work[s].id /\ w.tree = 0
      /\ w.todo = work[s].todo
  BY DEF BackupInv, BackupTypes, Workers, Ids
<1>4. /\ work[s].at \in Before => work[s].id = 0
      /\ work[s].at = "prune" => \A i \in work[s].todo : Cardinality(Newer(i)) >= MaxRetained - 1
  BY DEF BackupInv, OneWorker, RemovesDead
<1> HIDE DEF w
<1> QED
  BY <1>1, <1>2, <1>3, <1>4, WorkerMoves

LEMMA RemoveKeeps ==
  ASSUME BackupInv, NEW s \in Servers, RemoveChild(s) \/ RemoveName(s)
  PROVE  BackupInv'
<1>1. PICK i : i = work[s].tree
  OBVIOUS
<1>2. i # 0 /\ i \in BackupIds /\ dirs[i] \in Dirs
  BY <1>1 DEF RemoveChild, RemoveName, Removes, BackupInv, BackupTypes, Workers, Ids
<1>3. dirs[i].place = "gone" => dirs[i] = NoDir
  BY <1>2 DEF BackupInv, DiskFollows
<1>4. CASE RemoveName(s)
  <2>1. /\ Stores(i, NoDir) /\ old' = old \ {i}
        /\ Goes(s, [work[s] EXCEPT !.tree = 0, !.removed = TRUE])
        /\ UNCHANGED <<listing, made, renamed, reported, overran>>
    BY <1>1, <1>4 DEF RemoveName
  <2>2. NoDir \in Dirs /\ NoDir.place = "gone" /\ NoDir.db = "none"
    BY DEF NoDir, Dirs
  <2> QED
    BY <1>1, <1>2, <2>1, <2>2, RemovalKeeps
<1>5. CASE RemoveChild(s)
  <2>1. /\ old' = old \ {i} /\ UNCHANGED <<work, listing, made, renamed, reported, overran>>
        /\ \/ dirs[i].db # "none" /\ Stores(i, [dirs[i] EXCEPT !.db = "none"])
           \/ dirs[i].manifest /\ Stores(i, [dirs[i] EXCEPT !.manifest = FALSE])
    BY <1>1, <1>5 DEF RemoveChild
  <2>2. CASE dirs[i].db # "none" /\ Stores(i, [dirs[i] EXCEPT !.db = "none"])
    <3> DEFINE dir == [dirs[i] EXCEPT !.db = "none"]
    <3>1. dir \in Dirs /\ dir.place = dirs[i].place /\ dir.db = "none" /\ Stores(i, dir)
      BY <1>2, <2>2 DEF Dirs
    <3>2. dirs[i].place # "gone"
      BY <1>3, <2>2 DEF NoDir
    <3> HIDE DEF dir
    <3> QED
      BY <1>1, <1>2, <2>1, <3>1, <3>2, RemovalKeeps
  <2>3. CASE dirs[i].manifest /\ Stores(i, [dirs[i] EXCEPT !.manifest = FALSE])
    <3> DEFINE dir == [dirs[i] EXCEPT !.manifest = FALSE]
    <3>1. dir \in Dirs /\ dir.place = dirs[i].place /\ dir.db = dirs[i].db /\ Stores(i, dir)
      BY <1>2, <2>3 DEF Dirs
    <3>2. dirs[i].place # "gone"
      BY <1>3, <2>3 DEF NoDir
    <3> HIDE DEF dir
    <3> QED
      BY <1>1, <1>2, <2>1, <3>1, <3>2, RemovalKeeps
  <2> QED
    BY <2>1, <2>2, <2>3
<1> QED
  BY <1>4, <1>5

-----------------------------------------------------------------------------
\* The theorem.

LEMMA BackupsStart ==
  ASSUME BackupInit
  PROVE  BackupInv
<1>1. /\ dirs = [i \in BackupIds |-> NoDir] /\ disk = [i \in BackupIds |-> NothingStored]
      /\ work = [s \in Servers |-> Idle] /\ listing = NoListing
      /\ old = {} /\ made = {} /\ renamed = {} /\ reported = {} /\ overran = {}
  BY DEF BackupInit
<1>2. NoDir \in Dirs /\ NothingStored \in Parts /\ Idle \in Workers /\ NoListing \in Listings
  BY DEF NoDir, Dirs, NothingStored, Parts, Idle, Workers, Ids, Before, NoListing, Listings
<1>3. /\ Idle.at \in Before /\ Idle.at \notin During /\ Idle.at \notin Unnamed
      /\ Idle.at # "prune" /\ Idle.id = 0 /\ Idle.tree = 0
  BY DEF Idle, Before, During, Unnamed
<1>4. BackupTypes
  BY <1>1, <1>2 DEF BackupTypes
<1>5. DiskFollows
  BY <1>1 DEF DiskFollows, NoDir, NothingStored
<1>6. OneWorker /\ RemovesDead /\ OldExcused
  BY <1>1, <1>3 DEF OneWorker, RemovesDead, OldExcused
<1>7. NoPartial
  BY <1>1, <1>3 DEF NoPartial, Complete, NothingStored
<1>8. Progresses
  BY <1>1, <1>3, IdsAreNumbers DEF Progresses
<1>9. VerifiedIsWhole
  BY <1>1 DEF VerifiedIsWhole, NoListing
<1> QED
  BY <1>4, <1>5, <1>6, <1>7, <1>8, <1>9 DEF BackupInv

LEMMA BackupsStep ==
  ASSUME BackupInv, [BackupNext]_backupVars
  PROVE  BackupInv'
<1>1. CASE UNCHANGED backupVars
  BY <1>1, LookingKeeps DEF backupVars, BackupInv, BackupTypes, DiskFollows, OldExcused,
     VerifiedIsWhole, Excused, Newer
<1>2. ASSUME NEW s \in Servers, WorkerStep(s)
      PROVE  BackupInv'
  <2>1. CASE ScavengeEnd(s)
    <3>1. /\ disk' \in {disk, SyncedRoot} /\ Goes(s, [Idle EXCEPT !.at = "start"])
          /\ UNCHANGED <<dirs, old, listing, made, renamed, reported, overran>>
      BY <2>1 DEF ScavengeEnd
    <3> QED
      BY <3>1, BackToIdle
  <2>2. CASE FailureCleaned(s)
    <3>1. /\ disk' \in {disk, SyncedRoot} /\ Goes(s, [Idle EXCEPT !.at = "idle"])
          /\ UNCHANGED <<dirs, old, listing, made, renamed, reported, overran>>
      BY <2>2 DEF FailureCleaned, Idle
    <3> QED
      BY <3>1, BackToIdle
  <2>3. CASE \E i \in BackupIds : ScavengeAge(s, i) \/ Mkdir(s, i) \/ Prune(s, i)
    BY <2>3, ScavengeAgeKeeps, MkdirKeeps, PruneKeeps
  <2>4. CASE CreateBackup(s) \/ ScavengeLock(s) \/ SyncRoot(s) \/ PruneScan(s) \/ Created(s)
    BY <2>4, CreateBackupKeeps, ScavengeLockKeeps, SyncRootKeeps, PruneScanKeeps, CreatedKeeps
  <2>5. CASE CopyBegin(s) \/ CopyEnd(s) \/ WriteManifest(s) \/ Unlock(s) \/ PublishBackup(s)
    BY <2>5, CopyBeginKeeps, CopyEndKeeps, WriteManifestKeeps, UnlockKeeps, PublishKeeps
  <2>6. CASE Fails(s) \/ RemoveChild(s) \/ RemoveName(s) \/ RemoveFails(s)
    BY <2>6, FailsKeeps, RemoveKeeps, RemoveFailsKeeps
  <2> QED
    BY <1>2, <2>1, <2>2, <2>3, <2>4, <2>5, <2>6 DEF WorkerStep
<1>3. ASSUME NEW s \in Servers, ServerDies(s)
      PROVE  BackupInv'
  <2>1. /\ disk' \in {disk, SyncedRoot} /\ Goes(s, [Idle EXCEPT !.at = "idle"])
        /\ UNCHANGED <<dirs, old, listing, made, renamed, reported, overran>>
    BY <1>3 DEF ServerDies, Idle
  <2> QED
    BY <2>1, BackToIdle
<1>4. CASE PowerLoss \/ Day
  BY <1>4, PowerLossKeeps, DayKeeps
<1>5. CASE ListBegin \/ ListCopy \/ ListEnd \/ \E i \in BackupIds : ListManifest(i)
  BY <1>5, ListingKeeps
<1> QED
  BY <1>1, <1>2, <1>3, <1>4, <1>5 DEF BackupNext

(* BackupsHold: whatever fails, crashes or loses its power, and in whatever  *)
(* order the servers take their steps, a listing calls only whole copies     *)
(* verified, and a backup that was answered "created" is whole on the disk   *)
(* until its retention ends or its attempt was at work for a day.            *)
THEOREM BackupsAlwaysHold == BackupSpec => []BackupsHold
<1>1. BackupInit => BackupInv
  BY BackupsStart
<1>2. BackupInv /\ [BackupNext]_backupVars => BackupInv'
  BY BackupsStep
<1>3. BackupInv => BackupsHold
  <2> SUFFICES ASSUME BackupInv, NEW i \in reported, ~ Excused(i)
               PROVE  /\ dirs[i] = [place |-> "final", db |-> "whole", manifest |-> TRUE]
                      /\ disk[i] = [place |-> {"final"}, db |-> {"whole"}, manifest |-> {TRUE}]
    BY DEF BackupsHold, ReportedStays, Excused, BackupInv
  <2>1. i \in BackupIds /\ dirs[i] \in Dirs /\ disk[i] \in Parts
    BY DEF BackupInv, BackupTypes
  <2>2. FinalOnDisk(i)
    BY <2>1 DEF BackupInv, Progresses
  <2>3. /\ dirs[i].place = "final" /\ dirs[i].db = "whole" /\ dirs[i].manifest = TRUE
        /\ disk[i].place = {"final"} /\ disk[i].db = {"whole"} /\ disk[i].manifest = {TRUE}
    BY <2>1, <2>2 DEF FinalOnDisk, Final, WholeOnDisk, Dirs
  <2> QED
    BY <2>1, <2>3 DEF Dirs, Parts
<1> QED
  BY <1>1, <1>2, <1>3, PTL DEF BackupSpec

-----------------------------------------------------------------------------
\* The start of the service: the inductive invariant.

StartTypes ==
  /\ stored \in Databases /\ view \in Databases
  /\ begun \in BOOLEAN /\ withPaisa \in BOOLEAN
  /\ line \in 0 .. Len(Script) + 1
  /\ missing \subseteq Columns \cup {"lots"} /\ torn \subseteq Filled
  /\ starts \in Nat

\* Outside a transaction the start sees what is committed.
TransactionKnown ==
  /\ ~ begun => view = stored
  /\ line = 0 \/ Running => ~ begun
  /\ line \in Lines /\ InTransaction(line) => begun

\* What the lines before this one add and mark is there.
ScriptDone ==
  \A i \in 1 .. line - 1, x \in Columns \cup Changes :
    DoesTo(i, "add", x) \/ DoesTo(i, "mark", x) => x \in view.has

ColumnOnce(c) ==
  /\ stored.times[c] <= 1 /\ view.times[c] <= 1
  /\ c \in Filled =>
       /\ c \notin stored.has => stored.times[c] = 0
       /\ c \notin view.has => view.times[c] = 0
       /\ c \in view.has /\ view.times[c] = 0 =>
            c \in torn \cap Early \/ (c \in missing /\ DoesTo(line, "fill", c))
       /\ c \in stored.has /\ stored.times[c] = 0 =>
            c \in Early /\ (c \in torn \/ (c \in missing /\ line # 0))
       /\ c \in missing /\ DoesTo(line, "fill", c) => c \in view.has /\ view.times[c] = 0
       /\ c \in missing /\ line # 0 => \A i \in line .. Len(Script) : ~ DoesTo(i, "add", c)

ChangeOnce(x) ==
  /\ stored.times[x] = IF x \in stored.has THEN 1 ELSE 0
  /\ view.times[x] = IF x \in view.has \/ DoesTo(line, "mark", x) THEN 1 ELSE 0

LotsInPlace ==
  /\ stored.lots \in {"old", "new"}
  /\ view.lots \in {"old", "new"} \/ line \in RebuildLine + 1 .. RebuildLine + 3
  /\ "lots" \in missing /\ line # 0 => line > RebuildLine
  /\ "lots" \in missing =>
       /\ line = RebuildLine + 1 => view.lots = "renamed"
       /\ line = RebuildLine + 2 => view.lots = "empty"
       /\ line = RebuildLine + 3 => view.lots = "copied"
  /\ "lots" \notin missing => view.lots \in {"old", "new"}
  /\ line > RebuildLine => view.lots # "old"

WritesKnown ==
  /\ stored.unseen => stored.row # "clean"
  /\ view.unseen => view.row # "clean"
  /\ \A i \in 1 .. line - 1 : Does(i, "sync row") => (withPaisa <=> view.row # "none")
  /\ \A i \in 1 .. line - 1 :
       Does(i, "triggers") /\ (\A j \in i .. Len(Script) : ~ Does(j, "drop triggers")) /\ withPaisa
         => view.triggers

StartInv ==
  /\ StartTypes /\ TransactionKnown /\ ScriptDone
  /\ \A c \in Columns : ColumnOnce(c)
  /\ \A x \in Changes : ChangeOnce(x)
  /\ LotsInPlace /\ WritesKnown
Ordinary ==
  \/ \E c \in Columns : AddColumn(c) \/ FillColumn(c)
  \/ \E x \in Changes : MakeChange(x) \/ Mark(x)
  \/ CreateTables \/ DropTriggers \/ SeedRows
  \/ RenameLots \/ CreateLots \/ CopyLots \/ DropLots \/ NoRebuild
  \/ SyncRow \/ InstallTriggers

LEMMA ScriptFacts ==
  /\ Len(Script) \in Nat \ {0} /\ Does(Len(Script), "commit") /\ Lines \subseteq Nat \ {0}
  /\ "lots" \notin Columns \cup Changes /\ Columns \cap Changes = {}
  /\ \A i \in Lines : Script[i] \in [do : Kinds, of : Columns \cup Changes \cup {"none"}]
  /\ \A i, kind, x : DoesTo(i, kind, x) => Does(i, kind) /\ Script[i].of = x
<1>1. Script \in Seq([do : Kinds, of : Columns \cup Changes \cup {"none"}])
  BY StartUpAssumption
<1>2. \A i \in Lines : Script[i] \in [do : Kinds, of : Columns \cup Changes \cup {"none"}]
  <2> DEFINE S == [do : Kinds, of : Columns \cup Changes \cup {"none"}]
  <2>1. Script \in Seq(S)
    BY <1>1
  <2> HIDE DEF S
  <2>2. \A i \in Lines : Script[i] \in S
    BY <2>1 DEF Lines
  <2> QED
    BY <2>2 DEF S
<1>3. Len(Script) \in Nat
  <2> DEFINE S == [do : Kinds, of : Columns \cup Changes \cup {"none"}]
  <2>1. Script \in Seq(S)
    BY <1>1
  <2> HIDE DEF S
  <2> QED
    BY <2>1
<1>5. Does(Len(Script), "commit") /\ "lots" \notin Columns \cup Changes /\ Columns \cap Changes = {}
  BY StartUpAssumption
<1>4. \A i, kind, x : DoesTo(i, kind, x) => Does(i, kind) /\ Script[i].of = x
  BY DEF DoesTo, Does
<1> QED
  BY <1>2, <1>3, <1>4, <1>5 DEF Does, Lines

LEMMA TransactionsGoOn ==
  ASSUME NEW i \in Lines
  PROVE  /\ InTransaction(i + 1) => Does(i, "seed") \/ InTransaction(i)
         /\ InTransaction(i + 1) => ~ Does(i, "commit")
         /\ InTransaction(i) /\ ~ Does(i, "commit") => InTransaction(i + 1)
<1>1. i \in Nat \ {0}
  BY ScriptFacts
<1>2. ASSUME NEW j \in 1 .. (i + 1) - 1, Does(j, "seed"),
             \A k \in j .. (i + 1) - 1 : ~ Does(k, "commit")
      PROVE  (Does(i, "seed") \/ InTransaction(i)) /\ ~ Does(i, "commit")
  <2>1. CASE j = i
    BY <1>1, <1>2, <2>1
  <2>2. CASE j \in 1 .. i - 1
    <3>1. \A k \in j .. i - 1 : k \in j .. (i + 1) - 1
      BY <1>1, <2>2
    <3>2. i \in j .. (i + 1) - 1
      BY <1>1, <2>2
    <3> QED
      BY <1>2, <2>2, <3>1, <3>2 DEF InTransaction
  <2> QED
    BY <1>1, <2>1, <2>2
<1>3. ASSUME NEW j \in 1 .. i - 1, Does(j, "seed"),
             \A k \in j .. i - 1 : ~ Does(k, "commit"), ~ Does(i, "commit")
      PROVE  InTransaction(i + 1)
  <2>1. j \in 1 .. (i + 1) - 1
    BY <1>1
  <2>2. \A k \in j .. (i + 1) - 1 : k = i \/ k \in j .. i - 1
    BY <1>1, <2>1
  <2> QED
    BY <1>3, <2>1, <2>2 DEF InTransaction
<1> QED
  BY <1>2, <1>3 DEF InTransaction

LEMMA RebuildInTransaction ==
  /\ RebuildLine \in Nat \ {0} /\ RebuildLine + 3 < Len(Script)
  /\ \A i \in RebuildLine .. RebuildLine + 3 : i \in Lines /\ InTransaction(i) /\ ~ Does(i, "commit")
<1> DEFINE r == RebuildLine
<1>1. /\ r \in Lines /\ InTransaction(r)
      /\ \A i \in Lines : /\ Does(i, "rename lots") <=> i = r
                          /\ Does(i, "create lots") <=> i = r + 1
                          /\ Does(i, "copy lots")   <=> i = r + 2
                          /\ Does(i, "drop lots")   <=> i = r + 3
  BY StartUpAssumption
<1>2. r \in Nat \ {0} /\ Len(Script) \in Nat /\ Len(Script) \in Lines
  BY <1>1, ScriptFacts DEF Does
<1>12. \A i \in Lines : i <= Len(Script)
  BY <1>2 DEF Lines
<1>3. \A i \in Lines : \A kind : Does(i, kind) /\ kind # "commit" => ~ Does(i, "commit")
  BY DEF Does
<1> HIDE DEF r
<1>4. r # Len(Script) /\ r + 1 # Len(Script) /\ r + 2 # Len(Script) /\ r + 3 # Len(Script)
  BY <1>1, <1>2, <1>3, ScriptFacts
<1>5. r + 3 < Len(Script)
  <2>1. r <= Len(Script)
    BY <1>1, <1>12
  <2> QED
    BY <1>2, <1>4, <2>1
<1>6. \A i \in r .. r + 3 : i \in Lines /\ ~ Does(i, "commit")
  <2> SUFFICES ASSUME NEW i \in r .. r + 3 PROVE i \in Lines /\ ~ Does(i, "commit")
    OBVIOUS
  <2>1. i \in Lines
    BY <1>2, <1>5 DEF Lines
  <2>2. i = r \/ i = r + 1 \/ i = r + 2 \/ i = r + 3
    BY <1>2
  <2> QED
    BY <1>1, <1>3, <2>1, <2>2
<1>7. InTransaction(r + 1)
  <2>1. r \in Lines /\ InTransaction(r)
    BY <1>1
  <2>2. ~ Does(r, "commit")
    BY <1>2, <1>6
  <2> QED
    BY <2>1, <2>2, TransactionsGoOn
<1>8. InTransaction((r + 1) + 1)
  <2>1. r + 1 \in Lines /\ ~ Does(r + 1, "commit")
    BY <1>2, <1>6
  <2> QED
    BY <1>7, <2>1, TransactionsGoOn
<1>9. InTransaction(((r + 1) + 1) + 1)
  <2>1. (r + 1) + 1 \in Lines /\ ~ Does((r + 1) + 1, "commit")
    BY <1>2, <1>6
  <2> QED
    BY <1>8, <2>1, TransactionsGoOn
<1>10. (r + 1) + 1 = r + 2 /\ ((r + 1) + 1) + 1 = r + 3
  BY <1>2
<1>11. \A i \in r .. r + 3 : InTransaction(i)
  <2> SUFFICES ASSUME NEW i \in r .. r + 3 PROVE InTransaction(i)
    OBVIOUS
  <2>1. i = r \/ i = r + 1 \/ i = r + 2 \/ i = r + 3
    BY <1>2
  <2> QED
    BY <1>1, <1>7, <1>8, <1>9, <1>10, <2>1
<1> QED
  BY <1>2, <1>5, <1>6, <1>11 DEF r
\* What is known of a statement other than a commit.
Effect(db) == (Schema(db) /\ ~ Does(line, "seed")) \/ Rows(db)

LEMMA MadeToTyped ==
  ASSUME NEW db \in Databases, NEW x \in Columns \cup Changes
  PROVE  /\ MadeTo(db, x) \in Databases
         /\ MadeTo(db, x).times = [db.times EXCEPT ![x] = @ + 1]
         /\ MadeTo(db, x) = [db EXCEPT !.times = [db.times EXCEPT ![x] = @ + 1]]
<1> DEFINE times == [db.times EXCEPT ![x] = @ + 1]
<1>1. MadeTo(db, x) = [db EXCEPT !.times = times]
  BY DEF MadeTo
<1>2. db.times \in [Columns \cup Changes -> Nat]
  BY DEF Databases
<1>3. times \in [Columns \cup Changes -> Nat]
  BY <1>2
<1> HIDE DEF times
<1>4. [db EXCEPT !.times = times] \in Databases /\ [db EXCEPT !.times = times].times = times
  BY <1>3 DEF Databases
<1> QED
  BY <1>1, <1>4 DEF times

LEMMA OrdinaryIs ==
  ASSUME StartTypes, Ordinary
  PROVE  /\ line \in Lines /\ ~ Does(line, "commit")
         /\ missing' \subseteq Columns \cup {"lots"}
         /\ (Skips /\ ~ Does(line, "seed")) \/ \E db \in Databases : Effect(db)
<1> USE DEF Effect
<1>0. line \in Lines => Script[line] \in [do : Kinds, of : Columns \cup Changes \cup {"none"}]
  BY ScriptFacts
<1>1. ASSUME NEW c \in Columns, AddColumn(c) \/ FillColumn(c)
      PROVE  /\ line \in Lines /\ ~ Does(line, "commit") /\ ~ Does(line, "seed")
             /\ missing' \subseteq Columns \cup {"lots"}
             /\ Skips \/ \E db \in Databases : Effect(db)
  <2>1. line \in Lines /\ ~ Does(line, "commit") /\ ~ Does(line, "seed")
    BY <1>1 DEF AddColumn, FillColumn, DoesTo, Does
  <2>2. [view EXCEPT !.has = @ \cup {c}] \in Databases
    BY DEF StartTypes, Databases
  <2>3. MadeTo(view, c) \in Databases
    BY MadeToTyped DEF StartTypes
  <2> QED
    BY <1>1, <2>1, <2>2, <2>3 DEF AddColumn, FillColumn, Skips, StartTypes
<1>2. ASSUME NEW x \in Changes, MakeChange(x) \/ Mark(x)
      PROVE  /\ line \in Lines /\ ~ Does(line, "commit") /\ ~ Does(line, "seed")
             /\ missing' \subseteq Columns \cup {"lots"}
             /\ Skips \/ \E db \in Databases : Effect(db)
  <2>1. line \in Lines /\ ~ Does(line, "commit") /\ ~ Does(line, "seed")
    BY <1>2 DEF MakeChange, Mark, DoesTo, Does
  <2>2. MadeTo(view, x) \in Databases /\ Touched(view) \in {"none", "clean", "dirty"}
    BY MadeToTyped DEF StartTypes, Databases, Touched
  <2>3. /\ [view EXCEPT !.has = @ \cup {x}] \in Databases
        /\ [MadeTo(view, x) EXCEPT !.row = Touched(view)] \in Databases
    BY <2>2 DEF StartTypes, Databases
  <2> QED
    BY <1>2, <2>1, <2>3 DEF MakeChange, Mark, Skips, StartTypes
<1>3. CASE CreateTables \/ DropTriggers \/ InstallTriggers
  <2>1. line \in Lines /\ ~ Does(line, "commit") /\ ~ Does(line, "seed")
    BY <1>3 DEF CreateTables, DropTriggers, InstallTriggers, Does
  <2>2. /\ [view EXCEPT !.lots = IF @ = "renamed" THEN "empty" ELSE @] \in Databases
        /\ [view EXCEPT !.triggers = FALSE] \in Databases
        /\ [view EXCEPT !.triggers = TRUE] \in Databases
    BY DEF StartTypes, Databases
  <2> QED
    BY <1>3, <2>1, <2>2 DEF CreateTables, DropTriggers, InstallTriggers, Skips, StartTypes
<1>4. CASE SeedRows \/ SyncRow
  <2>1. line \in Lines /\ ~ Does(line, "commit")
    BY <1>4 DEF SeedRows, SyncRow, Does
  <2>2. KeptRow(withPaisa, view.row) \in {"none", "clean", "dirty"} /\ view \in Databases
    BY DEF StartTypes, Databases, KeptRow
  <2>3. [view EXCEPT !.row = KeptRow(withPaisa, @)] \in Databases
    BY <2>2 DEF Databases
  <2> QED
    BY <1>4, <2>1, <2>2, <2>3 DEF SeedRows, SyncRow, StartTypes
<1>5. CASE RenameLots \/ CreateLots \/ CopyLots \/ DropLots \/ NoRebuild
  <2>1. line \in Lines /\ ~ Does(line, "commit") /\ ~ Does(line, "seed")
    BY <1>5 DEF RenameLots, CreateLots, CopyLots, DropLots, NoRebuild, Rebuilds, Does
  <2>2. \A lots \in {"renamed", "empty", "copied", "new"} : [view EXCEPT !.lots = lots] \in Databases
    BY DEF StartTypes, Databases
  <2>3. missing' \subseteq Columns \cup {"lots"}
    BY <1>5 DEF RenameLots, CreateLots, CopyLots, DropLots, NoRebuild, Rebuilds, Skips, StartTypes
  <2>4. Skips \/ \E lots \in {"renamed", "empty", "copied", "new"} : Effect([view EXCEPT !.lots = lots])
    BY <1>5, <2>1 DEF RenameLots, CreateLots, CopyLots, DropLots, NoRebuild, Rebuilds
  <2> QED
    BY <2>1, <2>2, <2>3, <2>4
<1> QED
  BY <1>1, <1>2, <1>3, <1>4, <1>5 DEF Ordinary

LEMMA OrdinaryShape ==
  ASSUME StartTypes, TransactionKnown, Ordinary
  PROVE  /\ line \in Lines /\ ~ Does(line, "commit") /\ line' = line + 1 /\ line' # 0
         /\ withPaisa' = withPaisa /\ torn' = torn
         /\ stored' = stored \/ (stored = view /\ stored' = view')
         /\ begun \/ Does(line, "seed") => begun'
         /\ ~ begun' => view' = stored'
         /\ StartTypes'
<1>1. /\ line \in Lines /\ ~ Does(line, "commit")
      /\ missing' \subseteq Columns \cup {"lots"}
      /\ (Skips /\ ~ Does(line, "seed")) \/ \E db \in Databases : Effect(db)
  BY OrdinaryIs
<1>2. line' = line + 1 /\ withPaisa' = withPaisa /\ torn' = torn /\ starts' = starts
  BY <1>1 DEF Effect, Skips, Schema, Rows, Takes
<1>3. stored' = stored \/ (stored = view /\ stored' = view')
  BY <1>1 DEF Effect, Skips, Schema, Rows, TransactionKnown
<1>4. (begun \/ Does(line, "seed") => begun') /\ begun' \in BOOLEAN
  <2>1. begun' = TRUE \/ (begun' = begun /\ ~ Does(line, "seed"))
    BY <1>1 DEF Effect, Skips, Schema, Rows
  <2>2. begun \in BOOLEAN
    BY DEF StartTypes
  <2>3. CASE begun' = TRUE
    BY <2>3
  <2>4. CASE begun' = begun /\ ~ Does(line, "seed")
    <3>1. begun' \in BOOLEAN
      BY <2>2, <2>4
    <3>2. begun => begun'
      BY <2>4
    <3> QED
      BY <2>4, <3>1, <3>2
  <2> QED
    BY <2>1, <2>3, <2>4
<1>5. ~ begun' => view' = stored'
  BY <1>1 DEF Effect, Skips, Schema, Rows, TransactionKnown
<1>6. view' \in Databases
  BY <1>1 DEF Effect, Skips, Schema, Rows, StartTypes
<1>7. line' \in 0 .. Len(Script) + 1 /\ line' # 0
  BY <1>1, <1>2, ScriptFacts DEF Lines
<1> QED
  BY <1>1, <1>2, <1>3, <1>4, <1>5, <1>6, <1>7 DEF StartTypes

LEMMA OrdinaryView ==
  ASSUME StartTypes, Ordinary
  PROVE  /\ view'.unseen = view.unseen
         /\ view.has \subseteq view'.has
         /\ \A x \in view'.has : x \in view.has \/ DoesTo(line, "add", x) \/ DoesTo(line, "mark", x)
         /\ \A x \in Columns \cup Changes :
              view'.times[x] = view.times[x] \/ DoesTo(line, "fill", x) \/ DoesTo(line, "change", x)
         /\ \A x : DoesTo(line, "add", x) \/ DoesTo(line, "mark", x) => x \in view'.has
         /\ missing \subseteq missing'
         /\ \A x \in missing' :
              \/ x \in missing
              \/ DoesTo(line, "add", x) /\ x \notin view.has
              \/ x = "lots" /\ Does(line, "rename lots")
<1> USE DEF Schema, Rows, Takes, Skips
<1>0. view \in Databases
  BY DEF StartTypes
<1> DEFINE ViewGrows ==
         /\ view'.unseen = view.unseen
         /\ view.has \subseteq view'.has
         /\ \A x \in view'.has : x \in view.has \/ DoesTo(line, "add", x) \/ DoesTo(line, "mark", x)
         /\ \A x \in Columns \cup Changes :
              view'.times[x] = view.times[x] \/ DoesTo(line, "fill", x) \/ DoesTo(line, "change", x)
    MissingGrows ==
         /\ \A x : DoesTo(line, "add", x) \/ DoesTo(line, "mark", x) => x \in view'.has
         /\ missing \subseteq missing'
         /\ \A x \in missing' :
              \/ x \in missing
              \/ DoesTo(line, "add", x) /\ x \notin view.has
              \/ x = "lots" /\ Does(line, "rename lots")
<1>6. \A kind, other, x, y : DoesTo(line, kind, x) /\ DoesTo(line, other, y) => kind = other /\ x = y
  BY DEF DoesTo
<1>1. ASSUME NEW c \in Columns, AddColumn(c)
      PROVE  ViewGrows /\ MissingGrows
  <2>1. /\ view'.unseen = view.unseen /\ view'.has = view.has \cup {c} /\ view'.times = view.times
        /\ DoesTo(line, "add", c)
        /\ missing' = missing \/ (missing' = missing \cup {c} /\ c \notin view.has)
    BY <1>0, <1>1 DEF AddColumn, Databases
  <2>2. \A x : DoesTo(line, "add", x) \/ DoesTo(line, "mark", x) => x = c
    BY <1>6, <2>1
  <2>10. ViewGrows
    BY <2>1, <2>2
  <2>11. MissingGrows
    BY <2>1, <2>2
  <2> QED
    BY <2>10, <2>11
<1>2. ASSUME NEW c \in Columns, FillColumn(c)
      PROVE  ViewGrows /\ MissingGrows
  <2>1. DoesTo(line, "fill", c) /\ missing' = missing
    BY <1>2 DEF FillColumn
  <2>2. view' = view \/ view' = [view EXCEPT !.times = [view.times EXCEPT ![c] = @ + 1]]
    BY <1>0, <1>2, MadeToTyped DEF FillColumn
  <2>3. /\ view'.unseen = view.unseen /\ view'.has = view.has
        /\ \A x \in Columns \cup Changes : x # c => view'.times[x] = view.times[x]
    BY <1>0, <2>2 DEF Databases
  <2>4. \A x : ~ DoesTo(line, "add", x) /\ ~ DoesTo(line, "mark", x)
    BY <1>6, <2>1
  <2>10. ViewGrows
    BY <2>1, <2>3, <2>4
  <2>11. MissingGrows
    BY <2>1, <2>3, <2>4
  <2> QED
    BY <2>10, <2>11
<1>3. ASSUME NEW c \in Changes, MakeChange(c)
      PROVE  ViewGrows /\ MissingGrows
  <2>1. DoesTo(line, "change", c) /\ missing' = missing
    BY <1>3 DEF MakeChange
  <2> DEFINE madeTo == MadeTo(view, c)
  <2>2. madeTo \in Databases /\ madeTo = [view EXCEPT !.times = [view.times EXCEPT ![c] = @ + 1]]
    BY <1>0, MadeToTyped
  <2>3. view' = view \/ view' = [madeTo EXCEPT !.row = Touched(view)]
    BY <1>3 DEF MakeChange
  <2>4. /\ madeTo.unseen = view.unseen /\ madeTo.has = view.has
        /\ \A x \in Columns \cup Changes : x # c => madeTo.times[x] = view.times[x]
    BY <1>0, <2>2 DEF Databases
  <2> HIDE DEF madeTo
  <2>5. view' = view \/ (view'.unseen = madeTo.unseen /\ view'.has = madeTo.has /\ view'.times = madeTo.times)
    BY <2>2, <2>3 DEF Databases
  <2>6. \A x : ~ DoesTo(line, "add", x) /\ ~ DoesTo(line, "mark", x)
    BY <1>6, <2>1
  <2>10. ViewGrows
    BY <2>1, <2>4, <2>5, <2>6
  <2>11. MissingGrows
    BY <2>1, <2>4, <2>5, <2>6
  <2> QED
    BY <2>10, <2>11
<1>4. ASSUME NEW c \in Changes, Mark(c)
      PROVE  ViewGrows /\ MissingGrows
  <2>1. /\ view'.unseen = view.unseen /\ view'.has = view.has \cup {c} /\ view'.times = view.times
        /\ DoesTo(line, "mark", c) /\ missing' = missing
    BY <1>0, <1>4 DEF Mark, Databases
  <2>2. \A x : DoesTo(line, "add", x) \/ DoesTo(line, "mark", x) => x = c
    BY <1>6, <2>1
  <2>10. ViewGrows
    BY <2>1, <2>2
  <2>11. MissingGrows
    BY <2>1, <2>2
  <2> QED
    BY <2>10, <2>11
<1>5. ASSUME \/ CreateTables \/ DropTriggers \/ InstallTriggers \/ SeedRows \/ SyncRow
             \/ RenameLots \/ CreateLots \/ CopyLots \/ DropLots \/ NoRebuild
      PROVE  ViewGrows /\ MissingGrows
  <2>1. /\ view'.unseen = view.unseen /\ view'.has = view.has /\ view'.times = view.times
        /\ missing' = missing \/ (missing' = missing \cup {"lots"} /\ Does(line, "rename lots"))
    BY <1>0, <1>5 DEF CreateTables, DropTriggers, InstallTriggers, SeedRows, SyncRow, RenameLots,
       CreateLots, CopyLots, DropLots, NoRebuild, Rebuilds, Databases
  <2>2. line \in Lines /\ Script[line].do \notin {"add", "mark"}
    BY <1>5 DEF CreateTables, DropTriggers, InstallTriggers, SeedRows, SyncRow, RenameLots,
       CreateLots, CopyLots, DropLots, NoRebuild, Rebuilds, Does
  <2>3. \A x : ~ DoesTo(line, "add", x) /\ ~ DoesTo(line, "mark", x)
    BY <2>2, ScriptFacts DEF Does
  <2>10. ViewGrows
    BY <2>1, <2>3
  <2>11. MissingGrows
    BY <2>1, <2>3
  <2> QED
    BY <2>10, <2>11
<1> HIDE DEF ViewGrows, MissingGrows
<1>7. ViewGrows /\ MissingGrows
  <2>1. CASE \E c \in Columns : AddColumn(c) \/ FillColumn(c)
    BY <1>1, <1>2, <2>1
  <2>2. CASE \E x \in Changes : MakeChange(x) \/ Mark(x)
    BY <1>3, <1>4, <2>2
  <2> QED
    BY <1>5, <2>1, <2>2 DEF Ordinary
<1> QED
  BY <1>7 DEF ViewGrows, MissingGrows
\* The action is that of the line.
LEMMA TheStatement ==
  ASSUME Ordinary, NEW x
  PROVE  /\ DoesTo(line, "add", x) => AddColumn(x)
         /\ DoesTo(line, "fill", x) => FillColumn(x)
         /\ DoesTo(line, "change", x) => MakeChange(x)
         /\ DoesTo(line, "mark", x) => Mark(x)
<1>1. \A kind, other, y : DoesTo(line, kind, x) /\ DoesTo(line, other, y) => kind = other /\ x = y
  BY DEF DoesTo
<1>2. ASSUME NEW c, AddColumn(c) \/ FillColumn(c) \/ MakeChange(c) \/ Mark(c)
      PROVE  /\ DoesTo(line, "add", x) => AddColumn(x)
             /\ DoesTo(line, "fill", x) => FillColumn(x)
             /\ DoesTo(line, "change", x) => MakeChange(x)
             /\ DoesTo(line, "mark", x) => Mark(x)
  <2>1. AddColumn(c) => DoesTo(line, "add", c)
    BY DEF AddColumn
  <2>2. FillColumn(c) => DoesTo(line, "fill", c)
    BY DEF FillColumn
  <2>3. MakeChange(c) => DoesTo(line, "change", c)
    BY DEF MakeChange
  <2>4. Mark(c) => DoesTo(line, "mark", c)
    BY DEF Mark
  <2> QED
    BY <1>1, <1>2, <2>1, <2>2, <2>3, <2>4
<1>3. CASE CreateTables \/ DropTriggers \/ InstallTriggers \/ SeedRows \/ SyncRow
             \/ RenameLots \/ CreateLots \/ CopyLots \/ DropLots \/ NoRebuild
  <2>1. Script[line].do \notin {"add", "fill", "change", "mark"}
    BY <1>3 DEF CreateTables, DropTriggers, InstallTriggers, SeedRows, SyncRow, RenameLots,
       CreateLots, CopyLots, DropLots, NoRebuild, Rebuilds, Does
  <2> QED
    BY <2>1, ScriptFacts DEF Does
<1> QED
  BY <1>2, <1>3 DEF Ordinary

LEMMA TransactionKeeps ==
  ASSUME StartInv, Ordinary
  PROVE  StartTypes' /\ TransactionKnown' /\ ScriptDone'
<1>1. StartTypes /\ TransactionKnown /\ ScriptDone
  BY DEF StartInv
<1>2. /\ line \in Lines /\ ~ Does(line, "commit") /\ line' = line + 1
      /\ begun \/ Does(line, "seed") => begun'
      /\ ~ begun' => view' = stored'
      /\ StartTypes'
  BY <1>1, OrdinaryShape
<1>3. line \in Nat \ {0} /\ line' # 0 /\ line # Len(Script)
  BY <1>2, ScriptFacts
<1>4. InTransaction(line') => begun'
  BY <1>1, <1>2, TransactionsGoOn DEF TransactionKnown
<1>5. ~ Running'
  BY <1>2, <1>3, ScriptFacts DEF Running
<1>6. TransactionKnown'
  BY <1>2, <1>3, <1>4, <1>5 DEF TransactionKnown
<1>7. ScriptDone'
  <2> SUFFICES ASSUME NEW i \in 1 .. line' - 1, NEW x \in Columns \cup Changes,
                      DoesTo(i, "add", x) \/ DoesTo(i, "mark", x)
               PROVE  x \in view'.has
    BY DEF ScriptDone
  <2>1. CASE i = line
    BY <1>1, <2>1, OrdinaryView
  <2>2. CASE i # line
    <3>1. i \in 1 .. line - 1
      BY <1>2, <1>3, <2>2
    <3>2. x \in view.has
      BY <1>1, <3>1 DEF ScriptDone
    <3> QED
      BY <1>1, <3>2, OrdinaryView
  <2> QED
    BY <2>1, <2>2
<1> QED
  BY <1>2, <1>6, <1>7

LEMMA ColumnKeeps ==
  ASSUME StartInv, Ordinary, NEW c \in Columns
  PROVE  ColumnOnce(c)'
<1>1. StartTypes /\ TransactionKnown /\ ColumnOnce(c)
  BY DEF StartInv
<1>2. /\ line \in Lines /\ line' = line + 1 /\ line' # 0 /\ torn' = torn
      /\ stored' = stored \/ (stored = view /\ stored' = view')
      /\ line \in Nat \ {0} /\ Len(Script) \in Nat
  BY <1>1, OrdinaryShape, ScriptFacts
<1>3. /\ view.has \subseteq view'.has
      /\ c \in view'.has => c \in view.has \/ DoesTo(line, "add", c)
      /\ view'.times[c] = view.times[c] \/ DoesTo(line, "fill", c)
      /\ c \in missing => c \in missing'
      /\ c \in missing' => c \in missing \/ (DoesTo(line, "add", c) /\ c \notin view.has)
  <2>1. ~ DoesTo(line, "mark", c) /\ ~ DoesTo(line, "change", c) /\ c # "lots"
    <3>1. \A i \in Lines : Script[i].do \in {"change", "mark"} => Script[i].of \in Changes
      BY StartUpAssumption
    <3>2. c \notin Changes /\ c # "lots"
      BY ScriptFacts
    <3>3. \A kind : DoesTo(line, kind, c) => line \in Lines /\ Script[line].do = kind /\ Script[line].of = c
      BY ScriptFacts DEF Does
    <3> QED
      BY <3>1, <3>2, <3>3
  <2> QED
    BY <1>1, <2>1, OrdinaryView
<1>4. view.times[c] \in Nat /\ stored.times[c] \in Nat
  BY <1>1 DEF StartTypes, Databases
<1>5. c \in Filled => \E i \in Lines : \A j \in Lines :
        (DoesTo(j, "add", c) <=> j = i) /\ (DoesTo(j, "fill", c) <=> j = i + 1)
  BY StartUpAssumption
<1>6. \A i \in line' .. Len(Script) : i \in line .. Len(Script) /\ i # line /\ i \in Lines
  BY <1>2 DEF Lines
<1>7. CASE ~ DoesTo(line, "add", c) /\ ~ DoesTo(line, "fill", c)
  <2>1. /\ view'.times[c] = view.times[c] /\ (c \in view'.has <=> c \in view.has)
        /\ (c \in missing' <=> c \in missing)
        /\ stored'.times[c] = stored.times[c] /\ (c \in stored'.has <=> c \in stored.has)
    BY <1>2, <1>3, <1>7
  <2>2. c \in Filled => ~ DoesTo(line', "fill", c)
    <3> SUFFICES ASSUME c \in Filled, DoesTo(line', "fill", c) PROVE FALSE
      OBVIOUS
    <3>1. line' \in Lines
      BY DEF DoesTo
    <3> QED
      BY <1>2, <1>5, <1>7, <3>1
  <2>3. c \in Filled /\ c \in missing' => \A i \in line' .. Len(Script) : ~ DoesTo(i, "add", c)
    BY <1>1, <1>2, <1>6, <2>1 DEF ColumnOnce
  <2>4. /\ stored'.times[c] <= 1 /\ view'.times[c] <= 1
        /\ c \in Filled =>
              /\ c \notin stored'.has => stored'.times[c] = 0
              /\ c \notin view'.has => view'.times[c] = 0
              /\ c \in view'.has /\ view'.times[c] = 0 => c \in torn' \cap Early
    BY <1>1, <1>2, <1>7, <2>1 DEF ColumnOnce
  <2>5. c \in Filled /\ c \in stored'.has /\ stored'.times[c] = 0 =>
          c \in Early /\ (c \in torn' \/ (c \in missing' /\ line' # 0))
    BY <1>1, <1>2, <2>1 DEF ColumnOnce
  <2> QED
    BY <2>2, <2>3, <2>4, <2>5 DEF ColumnOnce
<1>8. CASE DoesTo(line, "add", c) /\ c \in view.has
  <2>1. view' = view /\ stored' = stored /\ missing' = missing
    BY <1>8, TheStatement DEF AddColumn, Skips
  <2>2. line \in line .. Len(Script)
    BY <1>2 DEF Lines
  <2>3. c \in Filled => c \notin missing
    BY <1>1, <1>2, <1>8, <2>2 DEF ColumnOnce
  <2>4. ~ DoesTo(line, "fill", c)
    BY <1>8, ScriptFacts DEF Does
  <2> QED
    BY <1>1, <1>2, <2>1, <2>3, <2>4 DEF ColumnOnce
<1>9. CASE DoesTo(line, "add", c) /\ c \notin view.has
  <2>1. /\ Schema([view EXCEPT !.has = @ \cup {c}]) /\ missing' = missing \cup {c}
    BY <1>9, TheStatement DEF AddColumn
  <2>2. view'.times[c] = view.times[c] /\ c \in view'.has
    BY <1>1, <2>1 DEF Schema, StartTypes, Databases
  <2>3. CASE c \notin Filled
    BY <1>1, <1>2, <2>2, <2>3 DEF ColumnOnce
  <2>4. CASE c \in Filled
    <3>1. PICK i \in Lines : \A j \in Lines :
            (DoesTo(j, "add", c) <=> j = i) /\ (DoesTo(j, "fill", c) <=> j = i + 1)
      BY <1>5, <2>4
    <3>2. i = line
      BY <1>2, <1>9, <3>1
    <3>3. PICK k \in Lines : DoesTo(k, "fill", c)
      BY <2>4 DEF Filled
    <3>4. k = line' /\ DoesTo(line', "fill", c)
      BY <1>2, <3>1, <3>2, <3>3
    <3>5. view.times[c] = 0
      BY <1>1, <1>9, <2>4 DEF ColumnOnce
    <3>6. \A j \in line' .. Len(Script) : ~ DoesTo(j, "add", c)
      BY <1>6, <3>1, <3>2
    <3>7. ~ begun => c \in Early
      <4>1. ~ begun => ~ InTransaction(line')
        <5>1. ~ Does(line, "seed")
          BY <1>9, ScriptFacts DEF Does
        <5> QED
          BY <1>1, <1>2, <5>1, TransactionsGoOn DEF TransactionKnown
      <4> QED
        BY <2>4, <3>3, <3>4, <4>1 DEF Early
    <3>8. stored' = IF begun THEN stored ELSE view'
      BY <2>1 DEF Schema
    <3>9. CASE begun
      BY <1>1, <1>2, <2>1, <2>2, <2>4, <3>4, <3>5, <3>6, <3>8, <3>9 DEF ColumnOnce
    <3>10. CASE ~ begun
      BY <1>1, <1>2, <2>1, <2>2, <2>4, <3>4, <3>5, <3>6, <3>7, <3>8, <3>10 DEF ColumnOnce
    <3> QED
      BY <3>9, <3>10
  <2> QED
    BY <2>3, <2>4
<1>10. CASE DoesTo(line, "fill", c)
  <2>1. c \in Filled
    BY <1>2, <1>10 DEF Filled
  <2>2. ~ DoesTo(line', "fill", c)
    <3> SUFFICES ASSUME DoesTo(line', "fill", c) PROVE FALSE
      OBVIOUS
    <3>1. line' \in Lines
      BY DEF DoesTo
    <3> QED
      BY <1>2, <1>5, <1>10, <2>1, <3>1
  <2>3. CASE c \notin missing
    <3>1. Skips
      BY <1>10, <2>3, TheStatement DEF FillColumn
    <3> QED
      BY <1>1, <2>1, <2>3, <3>1 DEF Skips, Takes, ColumnOnce
  <2>4. CASE c \in missing
    <3>1. Rows(MadeTo(view, c)) /\ missing' = missing
      BY <1>10, <2>4, TheStatement DEF FillColumn
    <3>2. view' = [view EXCEPT !.times = [view.times EXCEPT ![c] = @ + 1]] /\ stored' = stored
      BY <1>1, <3>1, MadeToTyped DEF Rows, StartTypes
    <3>3. view'.times[c] = view.times[c] + 1 /\ view'.has = view.has
      BY <1>1, <3>2 DEF StartTypes, Databases
    <3>4. c \in view.has /\ view.times[c] = 0
      BY <1>1, <1>10, <2>1, <2>4 DEF ColumnOnce
    <3> QED
      BY <1>1, <1>2, <1>6, <2>1, <2>2, <2>4, <3>1, <3>2, <3>3, <3>4 DEF ColumnOnce
  <2> QED
    BY <2>3, <2>4
<1> QED
  BY <1>7, <1>8, <1>9, <1>10
LEMMA ChangeKeeps ==
  ASSUME StartInv, Ordinary, NEW x \in Changes
  PROVE  ChangeOnce(x)'
<1>1. StartTypes /\ TransactionKnown /\ ChangeOnce(x)
  BY DEF StartInv
<1>2. /\ line \in Lines /\ line' = line + 1
      /\ stored' = stored \/ (stored = view /\ stored' = view')
  BY <1>1, OrdinaryShape
<1>3. ~ DoesTo(line, "add", x) /\ ~ DoesTo(line, "fill", x) /\ x # "lots"
  <2>1. \A i \in Lines : Script[i].do \in {"add", "fill"} => Script[i].of \in Columns
    BY StartUpAssumption
  <2>2. \A i \in Lines : Script[i].do \in {"change", "mark"} => Script[i].of \in Changes
    BY StartUpAssumption
  <2>3. x \notin Columns
    BY ScriptFacts
  <2>4. \A kind : DoesTo(line, kind, x) => line \in Lines /\ Script[line].do = kind /\ Script[line].of = x
    BY ScriptFacts DEF Does
  <2>5. ~ DoesTo(line, "add", x) /\ ~ DoesTo(line, "fill", x)
    BY <2>1, <2>3, <2>4
  <2>6. x # "lots"
    BY ScriptFacts
  <2> QED
    BY <2>5, <2>6
<1>4. /\ view.has \subseteq view'.has
      /\ x \in view'.has => x \in view.has \/ DoesTo(line, "mark", x)
      /\ view'.times[x] = view.times[x] \/ DoesTo(line, "change", x)
  BY <1>1, <1>3, OrdinaryView
<1>5. DoesTo(line, "change", x) <=> DoesTo(line', "mark", x)
  BY <1>2, StartUpAssumption
<1>6. ~ (DoesTo(line, "change", x) /\ DoesTo(line, "mark", x))
  BY ScriptFacts DEF Does
<1>7. CASE ~ DoesTo(line, "change", x) /\ ~ DoesTo(line, "mark", x)
  <2>1. /\ view'.times[x] = view.times[x] /\ (x \in view'.has <=> x \in view.has)
        /\ stored'.times[x] = stored.times[x] /\ (x \in stored'.has <=> x \in stored.has)
    BY <1>2, <1>4, <1>7
  <2> QED
    BY <1>1, <1>5, <1>7, <2>1 DEF ChangeOnce
<1>8. CASE DoesTo(line, "change", x)
  <2>1. view.times[x] = IF x \in view.has THEN 1 ELSE 0
    BY <1>1, <1>6, <1>8 DEF ChangeOnce
  <2>2. CASE x \in view.has
    <3>1. Skips
      BY <1>8, <2>2, TheStatement DEF MakeChange
    <3> QED
      BY <1>1, <2>1, <2>2, <3>1 DEF Skips, ChangeOnce
  <2>3. CASE x \notin view.has
    <3> DEFINE madeTo == MadeTo(view, x)
    <3>1. Rows([madeTo EXCEPT !.row = Touched(view)])
      BY <1>8, <2>3, TheStatement DEF MakeChange
    <3>2. madeTo \in Databases /\ madeTo = [view EXCEPT !.times = [view.times EXCEPT ![x] = @ + 1]]
      BY <1>1, MadeToTyped DEF StartTypes
    <3>3. madeTo.times[x] = view.times[x] + 1
      BY <1>1, <3>2 DEF StartTypes, Databases
    <3> HIDE DEF madeTo
    <3>4. view'.times = madeTo.times /\ stored' = stored
      BY <3>1, <3>2 DEF Rows, Databases
    <3> QED
      BY <1>1, <1>5, <1>8, <2>1, <2>3, <3>3, <3>4 DEF ChangeOnce
  <2> QED
    BY <2>2, <2>3
<1>9. CASE DoesTo(line, "mark", x)
  <2>1. view'.times[x] = 1 /\ x \in view'.has
    BY <1>1, <1>4, <1>6, <1>9, OrdinaryView DEF ChangeOnce
  <2>2. stored' = stored
    BY <1>9, TheStatement DEF Mark, Skips, Rows
  <2> QED
    BY <1>1, <2>1, <2>2 DEF ChangeOnce
<1> QED
  BY <1>7, <1>8, <1>9

\* What a statement does to the lots, to the row of the sync state and to the triggers.
LEMMA OrdinaryEffects ==
  ASSUME StartTypes, Ordinary
  PROVE  /\ Does(line, "rename lots") => RenameLots
         /\ Does(line, "create lots") => CreateLots \/ NoRebuild
         /\ Does(line, "copy lots") => CopyLots \/ NoRebuild
         /\ Does(line, "drop lots") => DropLots \/ NoRebuild
         /\ Does(line, "sync row") => SyncRow
         /\ Does(line, "triggers") => InstallTriggers
         /\ view'.lots # view.lots =>
              \/ Does(line, "rename lots") \/ Does(line, "create lots") \/ Does(line, "copy lots")
              \/ Does(line, "drop lots") \/ view.lots = "renamed"
         /\ view'.row \in {view.row, Touched(view), KeptRow(withPaisa, view.row)}
         /\ Does(line, "sync row") \/ view'.row \in {view.row, Touched(view)}
         /\ view'.triggers # view.triggers => Does(line, "drop triggers") \/ view'.triggers = TRUE
<1> USE DEF Skips, Schema, Rows
<1>0. view \in Databases
  BY DEF StartTypes
<1> DEFINE Named ==
         /\ Does(line, "rename lots") => RenameLots
         /\ Does(line, "create lots") => CreateLots \/ NoRebuild
         /\ Does(line, "copy lots") => CopyLots \/ NoRebuild
         /\ Does(line, "drop lots") => DropLots \/ NoRebuild
         /\ Does(line, "sync row") => SyncRow
         /\ Does(line, "triggers") => InstallTriggers
    Moved ==
         /\ view'.lots # view.lots =>
              \/ Does(line, "rename lots") \/ Does(line, "create lots") \/ Does(line, "copy lots")
              \/ Does(line, "drop lots") \/ view.lots = "renamed"
         /\ view'.row \in {view.row, Touched(view), KeptRow(withPaisa, view.row)}
         /\ Does(line, "sync row") \/ view'.row \in {view.row, Touched(view)}
         /\ view'.triggers # view.triggers => Does(line, "drop triggers") \/ view'.triggers = TRUE
<1>1. ASSUME NEW c \in Columns, AddColumn(c) \/ FillColumn(c)
      PROVE  Named /\ Moved
  <2>0. Script[line].do \in {"add", "fill"}
    BY <1>1 DEF AddColumn, FillColumn, DoesTo
  <2>1. Named
    BY <2>0 DEF Does
  <2>2. \/ view' = view \/ view' = [view EXCEPT !.has = @ \cup {c}]
        \/ view' = [view EXCEPT !.times = [view.times EXCEPT ![c] = @ + 1]]
    BY <1>0, <1>1, MadeToTyped DEF AddColumn, FillColumn
  <2>3. view'.lots = view.lots /\ view'.row = view.row /\ view'.triggers = view.triggers
    BY <1>0, <2>2 DEF Databases
  <2> QED
    BY <2>1, <2>3
<1>2. ASSUME NEW x \in Changes, MakeChange(x) \/ Mark(x)
      PROVE  Named /\ Moved
  <2>0. Script[line].do \in {"change", "mark"}
    BY <1>2 DEF MakeChange, Mark, DoesTo
  <2>1. Named
    BY <2>0 DEF Does
  <2> DEFINE madeTo == MadeTo(view, x)
  <2>2. /\ madeTo \in Databases /\ madeTo = [view EXCEPT !.times = [view.times EXCEPT ![x] = @ + 1]]
    BY <1>0, MadeToTyped
  <2>3. madeTo.lots = view.lots /\ madeTo.triggers = view.triggers
    BY <1>0, <2>2 DEF Databases
  <2>4. \/ view' = view \/ view' = [view EXCEPT !.has = @ \cup {x}]
        \/ view' = [madeTo EXCEPT !.row = Touched(view)]
    BY <1>2 DEF MakeChange, Mark
  <2> HIDE DEF madeTo
  <2>5. view'.lots = view.lots /\ view'.row \in {view.row, Touched(view)} /\ view'.triggers = view.triggers
    BY <1>0, <2>2, <2>3, <2>4 DEF Databases
  <2> QED
    BY <2>1, <2>5
<1>3. ASSUME CreateTables \/ DropTriggers \/ InstallTriggers
      PROVE  Named /\ Moved
  <2>1. Named
    BY <1>3 DEF CreateTables, DropTriggers, InstallTriggers, Does
  <2>2. Moved
    BY <1>0, <1>3 DEF CreateTables, DropTriggers, InstallTriggers, Databases
  <2> QED
    BY <2>1, <2>2
<1>4. ASSUME SeedRows \/ SyncRow
      PROVE  Named /\ Moved
  <2>1. Named
    BY <1>4 DEF SeedRows, SyncRow, Does
  <2>2. Moved
    BY <1>0, <1>4 DEF SeedRows, SyncRow, Databases
  <2> QED
    BY <2>1, <2>2
<1>5. ASSUME RenameLots \/ CreateLots \/ CopyLots \/ DropLots \/ NoRebuild
      PROVE  Named /\ Moved
  <2>1. Named
    BY <1>5 DEF RenameLots, CreateLots, CopyLots, DropLots, Rebuilds, NoRebuild, Does
  <2>2. \/ view' = view
        \/ /\ view' \in {[view EXCEPT !.lots = lots] : lots \in {"renamed", "empty", "copied", "new"}}
           /\ \/ Does(line, "rename lots") \/ Does(line, "create lots") \/ Does(line, "copy lots")
              \/ Does(line, "drop lots")
    BY <1>5 DEF RenameLots, CreateLots, CopyLots, DropLots, Rebuilds, NoRebuild
  <2>3. view'.row = view.row /\ view'.triggers = view.triggers
    BY <1>0, <2>2 DEF Databases
  <2> QED
    BY <2>1, <2>2, <2>3
<1> HIDE DEF Named, Moved
<1>6. Named /\ Moved
  <2>1. CASE \E c \in Columns : AddColumn(c) \/ FillColumn(c)
    BY <1>1, <2>1
  <2>2. CASE \E x \in Changes : MakeChange(x) \/ Mark(x)
    BY <1>2, <2>2
  <2> QED
    BY <1>3, <1>4, <1>5, <2>1, <2>2 DEF Ordinary
<1> QED
  BY <1>6 DEF Named, Moved

LEMMA LotsKeep ==
  ASSUME StartInv, Ordinary
  PROVE  LotsInPlace'
<1>1. StartTypes /\ TransactionKnown /\ LotsInPlace /\ view \in Databases
  BY DEF StartInv, StartTypes
<1>2. /\ line \in Lines /\ line' = line + 1 /\ line \in Nat
      /\ stored' = stored \/ (stored = view /\ stored' = view')
  BY <1>1, OrdinaryShape, ScriptFacts
<1>3. PICK r \in Nat \ {0} : r = RebuildLine
  BY RebuildInTransaction
<1>4. line \in r .. r + 3 => begun
  BY <1>1, <1>2, <1>3, RebuildInTransaction DEF TransactionKnown
<1>5. /\ Does(line, "rename lots") <=> line = r
      /\ Does(line, "create lots") <=> line = r + 1
      /\ Does(line, "copy lots")   <=> line = r + 2
      /\ Does(line, "drop lots")   <=> line = r + 3
  BY <1>2, <1>3, StartUpAssumption
<1>6. ~ DoesTo(line, "add", "lots")
  <2>1. \A i \in Lines : Script[i].do \in {"add", "fill"} => Script[i].of \in Columns
    BY StartUpAssumption
  <2>2. "lots" \notin Columns
    BY ScriptFacts
  <2>3. DoesTo(line, "add", "lots") => Script[line].do = "add" /\ Script[line].of = "lots"
    BY ScriptFacts DEF Does
  <2> QED
    BY <1>2, <2>1, <2>2, <2>3
<1> USE DEF Skips, Schema, Rows, Takes
<1>7. CASE line \notin r .. r + 3
  <2>1. view.lots \in {"old", "new"}
    BY <1>1, <1>2, <1>3, <1>7 DEF LotsInPlace
  <2>6. line # r /\ line # r + 1 /\ line # r + 2 /\ line # r + 3
    BY <1>2, <1>7
  <2>2. "lots" \in missing' <=> "lots" \in missing
    BY <1>1, <1>5, <1>6, <2>6, OrdinaryView
  <2>3. view'.lots = view.lots
    BY <1>1, <1>5, <2>1, <2>6, OrdinaryEffects
  <2>4. line' \notin r + 1 .. r + 3 /\ (line' > r <=> line > r) /\ line # 0
        /\ line' # r + 1 /\ line' # r + 2 /\ line' # r + 3
    BY <1>2, <1>7, ScriptFacts
  <2>5. stored'.lots \in {"old", "new"}
    BY <1>1, <1>2, <2>1, <2>3 DEF LotsInPlace
  <2> QED
    BY <1>1, <1>3, <2>1, <2>2, <2>3, <2>4, <2>5 DEF LotsInPlace
<1>8. CASE line = r
  <2>1. view.lots \in {"old", "new"} /\ "lots" \notin missing
    BY <1>1, <1>2, <1>3, <1>8 DEF LotsInPlace
  <2>2. RenameLots
    BY <1>1, <1>5, <1>8, OrdinaryEffects
  <2>3. stored' = stored
    <3>1. begun
      BY <1>4, <1>8
    <3> QED
      BY <2>2, <3>1 DEF RenameLots
  <2>4. \/ view.lots = "new" /\ view' = view /\ missing' = missing
        \/ view' = [view EXCEPT !.lots = "renamed"] /\ missing' = missing \cup {"lots"}
    BY <2>1, <2>2 DEF RenameLots
  <2>5. \/ view'.lots = "new" /\ "lots" \notin missing'
        \/ view'.lots = "renamed" /\ "lots" \in missing'
    BY <1>1, <2>1, <2>4 DEF Databases
  <2> QED
    BY <1>1, <1>2, <1>3, <1>8, <2>3, <2>5 DEF LotsInPlace
<1>9. ASSUME line \in r + 1 .. r + 3,
             NEW lots \in {"empty", "copied", "new"},
             lots = "empty" <=> line = r + 1, lots = "copied" <=> line = r + 2,
             \/ "lots" \in missing /\ view' = [view EXCEPT !.lots = lots]
             \/ "lots" \notin missing /\ view' = view,
             missing' = missing
      PROVE  LotsInPlace'
  <2>1. \/ "lots" \in missing /\ view'.lots = lots
        \/ "lots" \notin missing /\ view'.lots = "new"
    BY <1>1, <1>2, <1>3, <1>9 DEF LotsInPlace, Databases
  <2>2. stored'.lots \in {"old", "new"}
    <3>1. stored.lots \in {"old", "new"} /\ ("lots" \notin missing => view.lots \in {"old", "new"})
      BY <1>1 DEF LotsInPlace
    <3>2. "lots" \in missing => view.lots \notin {"old", "new"}
      BY <1>1, <1>2, <1>3, <1>9 DEF LotsInPlace
    <3> QED
      BY <1>2, <1>9, <3>1, <3>2
  <2>3. /\ line' > r /\ line' # 0 /\ (line' = r + 2 <=> line = r + 1) /\ (line' = r + 3 <=> line = r + 2)
        /\ line' # r + 1 /\ (line' \in r + 1 .. r + 3 <=> line # r + 3)
    BY <1>2, <1>9
  <2>4. lots = "new" <=> line = r + 3
    BY <1>2, <1>9
  <2> QED
    BY <1>3, <1>9, <2>1, <2>2, <2>3, <2>4 DEF LotsInPlace
<1>10. CASE line = r + 1
  <2>1. CreateLots \/ NoRebuild
    BY <1>1, <1>5, <1>10, OrdinaryEffects
  <2>2. /\ \/ "lots" \in missing /\ view' = [view EXCEPT !.lots = "empty"]
           \/ "lots" \notin missing /\ view' = view
        /\ missing' = missing
    BY <2>1 DEF CreateLots, NoRebuild, Rebuilds
  <2>3. line \in r + 1 .. r + 3 /\ line # r + 2 /\ line # r + 3
    BY <1>10
  <2> QED
    BY <1>9, <1>10, <2>2, <2>3
<1>11. CASE line = r + 2
  <2>1. CopyLots \/ NoRebuild
    BY <1>1, <1>5, <1>11, OrdinaryEffects
  <2>2. /\ \/ "lots" \in missing /\ view' = [view EXCEPT !.lots = "copied"]
           \/ "lots" \notin missing /\ view' = view
        /\ missing' = missing
    BY <2>1 DEF CopyLots, NoRebuild, Rebuilds
  <2>3. line \in r + 1 .. r + 3 /\ line # r + 1 /\ line # r + 3
    BY <1>11
  <2> QED
    BY <1>9, <1>11, <2>2, <2>3
<1>12. CASE line = r + 3
  <2>1. DropLots \/ NoRebuild
    BY <1>1, <1>5, <1>12, OrdinaryEffects
  <2>2. /\ \/ "lots" \in missing /\ view' = [view EXCEPT !.lots = "new"]
           \/ "lots" \notin missing /\ view' = view
        /\ missing' = missing
    BY <2>1 DEF DropLots, NoRebuild, Rebuilds
  <2>3. line \in r + 1 .. r + 3 /\ line # r + 1 /\ line # r + 2
    BY <1>12
  <2> QED
    BY <1>9, <1>12, <2>2, <2>3
<1> QED
  BY <1>2, <1>3, <1>7, <1>8, <1>10, <1>11, <1>12

LEMMA WritesKeep ==
  ASSUME StartInv, Ordinary
  PROVE  WritesKnown'
<1>1. StartTypes /\ TransactionKnown /\ WritesKnown /\ view \in Databases
  BY DEF StartInv, StartTypes
<1>2. /\ line \in Lines /\ line' = line + 1 /\ line \in Nat \ {0} /\ withPaisa' = withPaisa
      /\ stored' = stored \/ (stored = view /\ stored' = view')
      /\ view'.unseen = view.unseen
  BY <1>1, OrdinaryShape, OrdinaryView, ScriptFacts
<1>3. view.unseen => view'.row # "clean"
  BY <1>1, OrdinaryEffects DEF WritesKnown, Touched, KeptRow, Databases
<1>4. ASSUME NEW i \in 1 .. line' - 1, Does(i, "sync row")
      PROVE  withPaisa <=> view'.row # "none"
  <2>1. CASE i = line
    <3>1. SyncRow
      BY <1>1, <1>4, <2>1, OrdinaryEffects
    <3>2. view'.row = KeptRow(withPaisa, view.row)
      BY <1>1, <3>1 DEF SyncRow, Rows, Databases
    <3> QED
      BY <1>1, <3>2 DEF KeptRow, Databases
  <2>2. CASE i # line
    <3>1. i \in 1 .. line - 1
      BY <1>2, <2>2
    <3>2. withPaisa <=> view.row # "none"
      BY <1>1, <1>4, <3>1 DEF WritesKnown
    <3> QED
      BY <1>1, <3>2, OrdinaryEffects DEF KeptRow, Touched, Databases
  <2> QED
    BY <2>1, <2>2
<1>5. ASSUME NEW i \in 1 .. line' - 1, Does(i, "triggers"), withPaisa,
             \A j \in i .. Len(Script) : ~ Does(j, "drop triggers")
      PROVE  view'.triggers
  <2>1. CASE i = line
    <3>1. InstallTriggers
      BY <1>1, <1>5, <2>1, OrdinaryEffects
    <3> QED
      BY <1>1, <1>5, <3>1 DEF InstallTriggers, Schema, Databases
  <2>2. CASE i # line
    <3>1. i \in 1 .. line - 1
      BY <1>2, <2>2
    <3>2. view.triggers
      BY <1>1, <1>5, <3>1 DEF WritesKnown
    <3>3. ~ Does(line, "drop triggers")
      <4>1. line \in i .. Len(Script)
        BY <1>2, <3>1 DEF Lines
      <4> QED
        BY <1>5, <4>1
    <3> QED
      BY <1>1, <3>2, <3>3, OrdinaryEffects
  <2> QED
    BY <2>1, <2>2
<1>6. stored'.unseen => stored'.row # "clean"
  BY <1>1, <1>2, <1>3 DEF WritesKnown
<1> QED
  BY <1>2, <1>3, <1>4, <1>5, <1>6 DEF WritesKnown
LEMMA CommitKeeps ==
  ASSUME StartInv, CommitStart
  PROVE  StartInv'
<1>1. /\ StartTypes /\ TransactionKnown /\ ScriptDone /\ LotsInPlace /\ WritesKnown
      /\ \A c \in Columns : ColumnOnce(c)
      /\ \A x \in Changes : ChangeOnce(x)
  BY DEF StartInv
<1>2. /\ Does(line, "commit") /\ line \in Lines /\ line \in Nat \ {0} /\ Len(Script) \in Nat
      /\ line' = line + 1 /\ withPaisa' = withPaisa /\ torn' = torn /\ missing' = missing
      /\ starts' = starts /\ view' = view /\ stored' = view /\ begun' = FALSE
  BY ScriptFacts DEF CommitStart, Takes, Does
<1>3. line' # 0 /\ \A i \in 1 .. line' - 1 : i \in 1 .. line - 1 \/ i = line
  BY <1>2
<1>4. \A kind, x : DoesTo(line, kind, x) => kind = "commit"
  BY <1>2, ScriptFacts DEF Does
<1>5. StartTypes'
  <2>1. line' \in 0 .. Len(Script) + 1
    BY <1>2 DEF Lines
  <2>2. begun' \in BOOLEAN
    BY <1>2
  <2>3. withPaisa' \in BOOLEAN
    BY <1>1, <1>2 DEF StartTypes
  <2> QED
    BY <1>1, <1>2, <2>1, <2>2, <2>3 DEF StartTypes
<1>6. TransactionKnown'
  BY <1>2, <1>3, TransactionsGoOn DEF TransactionKnown
<1>7. ScriptDone'
  BY <1>1, <1>2, <1>3, <1>4 DEF ScriptDone
<1>8. ASSUME NEW c \in Columns
      PROVE  ColumnOnce(c)'
  <2>1. c \in Filled => ~ DoesTo(line', "fill", c)
    <3> SUFFICES ASSUME c \in Filled, DoesTo(line', "fill", c) PROVE FALSE
      OBVIOUS
    <3>1. line' \in Lines
      BY DEF DoesTo
    <3>2. PICK i \in Lines : \A j \in Lines :
            (DoesTo(j, "add", c) <=> j = i) /\ (DoesTo(j, "fill", c) <=> j = i + 1)
      BY StartUpAssumption
    <3>3. i = line
      BY <1>2, <3>1, <3>2, ScriptFacts
    <3> QED
      BY <1>4, <3>2, <3>3
  <2>2. \A i \in line' .. Len(Script) : i \in line .. Len(Script)
    BY <1>2
  <2> QED
    BY <1>1, <1>2, <1>3, <1>4, <2>1, <2>2 DEF ColumnOnce
<1>9. ASSUME NEW x \in Changes
      PROVE  ChangeOnce(x)'
  <2>1. DoesTo(line, "change", x) <=> DoesTo(line', "mark", x)
    BY <1>2, StartUpAssumption
  <2> QED
    BY <1>1, <1>2, <1>4, <2>1 DEF ChangeOnce
<1>10. LotsInPlace'
  <2>1. line \notin RebuildLine .. RebuildLine + 3 /\ RebuildLine \in Nat
    BY <1>2, RebuildInTransaction
  <2>2. /\ line' \notin RebuildLine + 1 .. RebuildLine + 3
        /\ line \notin RebuildLine + 1 .. RebuildLine + 3
        /\ (line' > RebuildLine <=> line > RebuildLine)
        /\ line' # RebuildLine + 1 /\ line' # RebuildLine + 2 /\ line' # RebuildLine + 3
    BY <1>2, <2>1
  <2> QED
    BY <1>1, <1>2, <2>2 DEF LotsInPlace
<1>11. WritesKnown'
  <2>1. ~ Does(line, "sync row") /\ ~ Does(line, "triggers")
    BY <1>2 DEF Does
  <2> QED
    BY <1>1, <1>2, <1>3, <2>1 DEF WritesKnown
<1> QED
  BY <1>5, <1>6, <1>7, <1>8, <1>9, <1>10, <1>11 DEF StartInv

LEMMA NoLine == \A kind, x : ~ DoesTo(0, kind, x) /\ ~ Does(0, kind)
BY DEF DoesTo, Does, Lines

LEMMA BootKeeps ==
  ASSUME StartInv, NEW enabled \in BOOLEAN, Boot(enabled)
  PROVE  StartInv'
<1>1. /\ StartTypes /\ TransactionKnown /\ ScriptDone /\ LotsInPlace /\ WritesKnown
      /\ \A c \in Columns : ColumnOnce(c)
      /\ \A x \in Changes : ChangeOnce(x)
  BY DEF StartInv
<1>2. /\ line = 0 /\ line' = 1 /\ withPaisa' = enabled /\ missing' = {} /\ torn' = torn
      /\ stored' = stored /\ view' = view /\ begun' = begun /\ starts' = starts + 1
      /\ Len(Script) \in Nat \ {0}
  BY ScriptFacts DEF Boot
<1>3. ~ begun /\ view = stored
  BY <1>1, <1>2 DEF TransactionKnown
<1>4. StartTypes'
  BY <1>1, <1>2 DEF StartTypes
<1>5. TransactionKnown'
  BY <1>1, <1>2, <1>3 DEF TransactionKnown, Running, InTransaction
<1>6. ScriptDone' /\ WritesKnown'
  BY <1>1, <1>2 DEF ScriptDone, WritesKnown
<1>7. ASSUME NEW c \in Columns
      PROVE  ColumnOnce(c)'
  BY <1>1, <1>2, NoLine DEF ColumnOnce
<1>8. ASSUME NEW x \in Changes
      PROVE  ChangeOnce(x)'
  <2>1. ~ DoesTo(1, "mark", x)
    BY StartUpAssumption
  <2> QED
    BY <1>1, <1>2, <2>1, NoLine DEF ChangeOnce
<1>9. LotsInPlace'
  BY <1>1, <1>2, <1>3, RebuildInTransaction DEF LotsInPlace
<1> QED
  BY <1>4, <1>5, <1>6, <1>7, <1>8, <1>9 DEF StartInv

LEMMA DownKeeps ==
  ASSUME StartInv, Down
  PROVE  StartInv'
<1>1. /\ StartTypes /\ TransactionKnown /\ ScriptDone /\ LotsInPlace /\ WritesKnown
      /\ \A c \in Columns : ColumnOnce(c)
      /\ \A x \in Changes : ChangeOnce(x)
  BY DEF StartInv
<1>2. /\ line # 0 /\ line' = 0 /\ withPaisa' = withPaisa /\ missing' = missing
      /\ torn' = torn \cup {c \in missing \cap stored.has \cap Filled : stored.times[c] = 0}
      /\ stored' = stored /\ view' = stored /\ begun' = FALSE /\ starts' = starts
      /\ Len(Script) \in Nat \ {0}
  BY ScriptFacts DEF Down
<1>3. StartTypes'
  <2>4. line' \in 0 .. Len(Script) + 1
    BY <1>2
  <2>1. begun' \in BOOLEAN /\ line' \in 0 .. Len(Script) + 1
    BY <1>2, <2>4
  <2>2. withPaisa' \in BOOLEAN
    BY <1>1, <1>2 DEF StartTypes
  <2>3. torn' \subseteq Filled
    BY <1>1, <1>2 DEF StartTypes
  <2> QED
    BY <1>1, <1>2, <2>1, <2>2, <2>3 DEF StartTypes
<1>4. TransactionKnown'
  BY <1>2 DEF TransactionKnown, Running, Lines
<1>5. ScriptDone' /\ WritesKnown'
  <2>1. \A i : i \notin 1 .. line' - 1
    BY <1>2
  <2>2. ScriptDone'
    BY <2>1 DEF ScriptDone
  <2>3. view'.unseen => view'.row # "clean"
    BY <1>1, <1>2 DEF WritesKnown
  <2> QED
    BY <1>1, <1>2, <2>1, <2>2, <2>3 DEF WritesKnown
<1>6. ASSUME NEW c \in Columns
      PROVE  ColumnOnce(c)'
  BY <1>1, <1>2, NoLine DEF ColumnOnce
<1>7. ASSUME NEW x \in Changes
      PROVE  ChangeOnce(x)'
  BY <1>1, <1>2, NoLine DEF ChangeOnce
<1>8. LotsInPlace'
  BY <1>1, <1>2, RebuildInTransaction DEF LotsInPlace
<1> QED
  BY <1>3, <1>4, <1>5, <1>6, <1>7, <1>8 DEF StartInv

LEMMA TrackedWhenRunning ==
  ASSUME StartTypes, WritesKnown, Running
  PROVE  /\ withPaisa <=> view.row # "none"
         /\ withPaisa => view.triggers
<1>1. \A i \in Lines : i \in 1 .. line - 1
  BY ScriptFacts DEF Running, Lines
<1>2. PICK i \in Lines : Does(i, "sync row")
  BY StartUpAssumption
<1>3. PICK k \in Lines : Does(k, "triggers") /\ \A j \in k .. Len(Script) : ~ Does(j, "drop triggers")
  BY StartUpAssumption
<1> QED
  BY <1>1, <1>2, <1>3 DEF WritesKnown

LEMMA RunsKeeps ==
  ASSUME StartInv, WriteTracked \/ ReconcileAll
  PROVE  StartInv'
<1>1. /\ StartTypes /\ TransactionKnown /\ ScriptDone /\ LotsInPlace /\ WritesKnown
      /\ \A c \in Columns : ColumnOnce(c)
      /\ \A x \in Changes : ChangeOnce(x)
      /\ view \in Databases
  BY DEF StartInv, StartTypes
<1>2. /\ Running /\ line' = line /\ withPaisa' = withPaisa /\ missing' = missing
      /\ torn' = torn /\ begun' = begun /\ starts' = starts /\ stored' = view'
      /\ line = Len(Script) + 1 /\ Len(Script) \in Nat \ {0}
  BY ScriptFacts DEF WriteTracked, ReconcileAll, Runs, Running
<1>3. ~ begun /\ view = stored
  BY <1>1, <1>2 DEF TransactionKnown
<1>4. /\ view' \in Databases /\ view'.has = view.has /\ view'.times = view.times
      /\ view'.lots = view.lots /\ view'.triggers = view.triggers
      /\ view'.row # "none" <=> view.row # "none"
  BY <1>1 DEF WriteTracked, ReconcileAll, Runs, Touched, Databases
<1>5. StartTypes' /\ TransactionKnown' /\ ScriptDone'
  BY <1>1, <1>2, <1>3, <1>4 DEF StartTypes, TransactionKnown, ScriptDone, Running
<1>6. ASSUME NEW c \in Columns
      PROVE  ColumnOnce(c)'
  BY <1>1, <1>2, <1>3, <1>4 DEF ColumnOnce
<1>7. ASSUME NEW x \in Changes
      PROVE  ChangeOnce(x)'
  BY <1>1, <1>2, <1>3, <1>4 DEF ChangeOnce
<1>8. LotsInPlace'
  BY <1>1, <1>2, <1>3, <1>4 DEF LotsInPlace
<1>9. view'.unseen => view'.row # "clean"
  <2>1. CASE ReconcileAll
    BY <1>1, <2>1 DEF ReconcileAll, Runs, Databases
  <2>2. CASE WriteTracked
    <3>1. view'.row = Touched(view)
      BY <1>1, <2>2 DEF WriteTracked, Runs, Databases
    <3>2. view.row = "clean" => view.triggers
      BY <1>1, <1>2, TrackedWhenRunning
    <3> QED
      BY <1>1, <3>1, <3>2 DEF Touched, Databases
  <2> QED
    BY <2>1, <2>2
<1>10. WritesKnown'
  BY <1>1, <1>2, <1>4, <1>9 DEF WritesKnown
<1> QED
  BY <1>5, <1>6, <1>7, <1>8, <1>10 DEF StartInv

LEMMA StartUpStarts ==
  ASSUME StartInit
  PROVE  StartInv
<1>1. PICK has \in SUBSET (Columns \cup Changes), lots \in {"old", "new"},
           row \in {"none", "clean", "dirty"}, unseen \in BOOLEAN :
        (unseen => row # "clean") /\ StartsFrom(Version(has, lots, row, unseen))
  BY DEF StartInit
<1>2. PICK times \in [Columns \cup Changes -> {0, 1}] :
        /\ \A x \in Columns \cup Changes : times[x] = IF x \in has THEN 1 ELSE 0
        /\ times = [x \in Columns \cup Changes |-> IF x \in has THEN 1 ELSE 0]
  OBVIOUS
<1>3. PICK db : /\ db = [has |-> has, times |-> times, lots |-> lots, triggers |-> row # "none",
                          row |-> row, unseen |-> unseen]
                /\ stored = db /\ view = db
  BY <1>1, <1>2 DEF StartsFrom, Version
<1>4. db \in Databases /\ db.has = has /\ db.times = times /\ db.lots = lots /\ db.row = row /\ db.unseen = unseen
  BY <1>2, <1>3 DEF Databases
<1>5. begun = FALSE /\ line = 0 /\ missing = {} /\ withPaisa = FALSE /\ torn = {} /\ starts = 0
      /\ Len(Script) \in Nat \ {0}
  BY <1>1, ScriptFacts DEF StartsFrom
<1>6. StartTypes /\ ScriptDone
  <2>1. begun \in BOOLEAN /\ withPaisa \in BOOLEAN
    BY <1>5
  <2>2. StartTypes
    BY <1>3, <1>4, <1>5, <2>1 DEF StartTypes
  <2>3. \A i : i \notin 1 .. line - 1
    BY <1>5
  <2> QED
    BY <2>2, <2>3 DEF ScriptDone
<1>7. TransactionKnown
  BY <1>3, <1>5 DEF TransactionKnown, Running, Lines
<1>8. ASSUME NEW c \in Columns
      PROVE  ColumnOnce(c)
  BY <1>2, <1>3, <1>4, <1>5, NoLine DEF ColumnOnce
<1>9. ASSUME NEW x \in Changes
      PROVE  ChangeOnce(x)
  BY <1>2, <1>3, <1>4, <1>5, NoLine DEF ChangeOnce
<1>10. LotsInPlace
  BY <1>3, <1>4, <1>5, RebuildInTransaction DEF LotsInPlace
<1>11. WritesKnown
  BY <1>1, <1>3, <1>4, <1>5 DEF WritesKnown
<1> QED
  BY <1>6, <1>7, <1>8, <1>9, <1>10, <1>11 DEF StartInv

LEMMA StartUpStep ==
  ASSUME StartInv, [StartNext]_startVars
  PROVE  StartInv'
<1>1. CASE UNCHANGED startVars
  BY <1>1 DEF startVars, StartInv, StartTypes, TransactionKnown, Running, ScriptDone, ColumnOnce,
     ChangeOnce, LotsInPlace, WritesKnown
<1>2. CASE Ordinary
  BY <1>2, TransactionKeeps, ColumnKeeps, ChangeKeeps, LotsKeep, WritesKeep DEF StartInv
<1>3. CASE CommitStart \/ WriteTracked \/ ReconcileAll \/ Down
  BY <1>3, CommitKeeps, RunsKeeps, DownKeeps
<1>4. CASE \E enabled \in BOOLEAN : Boot(enabled)
  BY <1>4, BootKeeps
<1> QED
  BY <1>1, <1>2, <1>3, <1>4 DEF StartNext, Ordinary

(* StartsHold: whatever statements of whatever length a start has, written    *)
(* as StartUpAssumption says, and wherever starts die: each change of rows is *)
(* made once but for early filled columns, the lots are kept, and writes are  *)
(* tracked whenever Paisa is enabled.                                        *)
THEOREM StartsAlwaysHold == StartSpec => []StartsHold
<1>1. StartInit => StartInv
  BY StartUpStarts
<1>2. StartInv /\ [StartNext]_startVars => StartInv'
  BY StartUpStep
<1>3. StartInv => StartsHold
  <2> SUFFICES ASSUME StartInv PROVE StartsHold
    OBVIOUS
  <2>1. /\ StartTypes /\ ScriptDone /\ LotsInPlace /\ WritesKnown
        /\ \A c \in Columns : ColumnOnce(c)
        /\ \A x \in Changes : ChangeOnce(x)
    BY DEF StartInv
  <2>2. Running => /\ line = Len(Script) + 1 /\ \A i \in Lines : i \in 1 .. line - 1
                   /\ \A kind, x : ~ DoesTo(line, kind, x)
    BY ScriptFacts DEF Running, Lines, DoesTo
  <2>3. MadeOnce
    <3>1. \A c \in Columns : view.times[c] \in Nat /\ view.times[c] <= 1
      BY <2>1 DEF StartTypes, Databases, ColumnOnce
    <3>2. \A x \in Changes : view.times[x] <= 1
      BY <2>1 DEF ChangeOnce
    <3>3. ASSUME Running, NEW c \in Filled
          PROVE  view.times[c] = 1 \/ c \in torn \cap Early
      <4>1. c \in Columns
        BY DEF Filled
      <4>2. PICK i \in Lines : DoesTo(i, "add", c)
        BY <4>1, StartUpAssumption
      <4>3. c \in view.has
        BY <2>1, <2>2, <3>3, <4>1, <4>2 DEF ScriptDone
      <4> QED
        BY <2>1, <2>2, <3>1, <3>3, <4>1, <4>3 DEF ColumnOnce
    <3>4. ASSUME Running, NEW x \in Changes
          PROVE  view.times[x] = 1
      <4>1. PICK i \in Lines : DoesTo(i, "mark", x)
        BY StartUpAssumption
      <4>2. x \in view.has
        BY <2>1, <2>2, <3>4, <4>1 DEF ScriptDone
      <4> QED
        BY <2>1, <4>2 DEF ChangeOnce
    <3> QED
      BY <3>1, <3>2, <3>3, <3>4 DEF MadeOnce
  <2>4. LotsKept
    <3>1. PICK r \in Nat : r = RebuildLine /\ r + 3 < Len(Script)
      BY RebuildInTransaction
    <3>2. Running => line \notin r + 1 .. r + 3 /\ line > r
      BY <2>2, <3>1, ScriptFacts
    <3> QED
      BY <2>1, <3>1, <3>2 DEF LotsInPlace, LotsKept
  <2>5. WritesTracked
    <3> SUFFICES ASSUME Running, withPaisa
                 PROVE  view.triggers /\ (view.unseen => view.row = "dirty")
      BY DEF WritesTracked
    <3>1. view.triggers /\ view.row # "none"
      BY <2>1, TrackedWhenRunning
    <3> QED
      BY <2>1, <3>1 DEF WritesKnown, StartTypes, Databases
  <2> QED
    BY <2>3, <2>4, <2>5 DEF StartsHold
<1> QED
  BY <1>1, <1>2, <1>3, PTL DEF StartSpec
=============================================================================
