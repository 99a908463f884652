----------------------------- MODULE PaisaProofs ----------------------------
(***************************************************************************)
(* Type correctness of auto sync, whatever races, crashes or lease         *)
(* expiries occur; the lease: who may change the reconcile outcome, and,   *)
(* when heartbeats keep a working holder's lease alive, that there is one  *)
(* worker at most; and no lost update: a row with nothing left to          *)
(* reconcile means that Paisa shows the dashboard, and so auto sync        *)
(* implements the mirror.  On the clock: the heartbeat keeps the lease of  *)
(* a running attempt alive, attempts keep their distance, and a write      *)
(* waits for an attempt that carries it for a bounded time.                *)
(***************************************************************************)
EXTENDS PaisaReconcile, PaisaSchedule, FiniteSetTheorems, WellFoundedInduction, TLAPS

-----------------------------------------------------------------------------
(* Numbers. *)

(* A set of natural numbers that is not empty has a least element. *)
LEMMA LeastNat ==
  ASSUME NEW T, T \subseteq Nat, T # {}
  PROVE  \E x \in T : \A y \in T : x <= y
<1> DEFINE R == OpToRel(<, Nat)
<1>1. IsWellFoundedOn(R, Nat)
  BY NatLessThanWellFounded
<1>2. \A x, y \in Nat : y < x => <<y, x>> \in R
  BY DEF OpToRel
<1> HIDE DEF R
<1>3. PICK x \in T : \A y \in T : ~ (<<y, x>> \in R)
  BY <1>1, WFMin
<1>4. \A y \in T : ~ (y < x)
  BY <1>2, <1>3
<1> QED
  BY <1>4

(* The largest element of a finite set of numbers that is not empty. *)
LEMMA LargestNat ==
  ASSUME NEW S, S \subseteq Nat, IsFiniteSet(S), S # {}
  PROVE  Max(S) \in S /\ \A x \in S : x <= Max(S)
<1> DEFINE above == [x \in S |-> {y \in S : x < y}]
           size == [x \in S |-> Cardinality(above[x])]
<1>1. ASSUME NEW x \in S PROVE IsFiniteSet(above[x]) /\ size[x] = Cardinality(above[x]) /\ size[x] \in Nat
  <2>1. above[x] \subseteq S
    OBVIOUS
  <2> HIDE DEF above
  <2>2. IsFiniteSet(above[x])
    BY <2>1, FS_Subset
  <2>3. Cardinality(above[x]) \in Nat
    BY <2>2, FS_CardinalityType
  <2> QED
    BY <2>2, <2>3
<1>2. PICK x \in S : \A y \in S : size[x] <= size[y]
  <2> DEFINE sizes == {size[x] : x \in S}
  <2> HIDE DEF size
  <2>1. sizes \subseteq Nat /\ sizes # {}
    BY <1>1
  <2>2. PICK n \in sizes : \A m \in sizes : n <= m
    BY <2>1, LeastNat
  <2> QED
    BY <2>2
<1>3. ASSUME NEW y \in S, x < y PROVE FALSE
  <2>1. above[y] \subseteq above[x] \ {y} /\ y \in above[x]
    <3>1. \A z \in S : z \in Nat
      OBVIOUS
    <3>2. \A z \in S : y < z => x < z /\ z # y
      BY <1>3, <3>1
    <3> QED
      BY <1>3, <3>2
  <2> HIDE DEF above, size
  <2>2. IsFiniteSet(above[x] \ {y}) /\ Cardinality(above[x] \ {y}) = Cardinality(above[x]) - 1
    BY <1>1, <2>1, FS_RemoveElement
  <2>3. Cardinality(above[y]) <= Cardinality(above[x] \ {y})
    BY <2>1, <2>2, FS_Subset
  <2>4. size[x] <= size[y]
    BY <1>2
  <2>5. size[y] <= size[x] - 1
    BY <1>1, <2>2, <2>3
  <2> QED
    BY <1>1, <2>4, <2>5
<1>4. \A y \in S : x >= y
  BY <1>3
<1>5. Max(S) \in S /\ \A y \in S : Max(S) >= y
  BY <1>4 DEF Max
<1> QED
  BY <1>5

-----------------------------------------------------------------------------
(* What the primitives of sync_state.py do to a well-formed row.            *)

(* A row of the right type that satisfies the table's CHECK. *)
RowOK(r) == r \in RowType /\ r.applied_revision <= r.desired_revision

LEMMA BackoffIsNat ==
  ASSUME NEW n \in Nat
  PROVE  BackoffDelta(n) \in Nat
<1> DEFINE last == Len(BackoffSteps)
           k == IF n < 1 THEN 1 ELSE IF n > last THEN last ELSE n
<1>1. BackoffSteps \in Seq(Nat) /\ last \in Nat \ {0}
  BY WindowsAssumption
<1>2. k \in 1 .. last
  BY <1>1
<1>3. BackoffSteps[k] \in Nat
  BY <1>1, <1>2
<1> QED
  BY <1>3 DEF BackoffDelta

LEMMA BumpOK ==
  ASSUME NEW r, RowOK(r), r.desired_revision < MaxRevision
  PROVE  /\ RowOK(Bump(r, Stamp))
         /\ RowOK(BumpSettings(r, Stamp))
<1>1. /\ r.desired_revision + 1 \in 1 .. MaxRevision
      /\ r.applied_revision <= r.desired_revision + 1
  BY WorldAssumption DEF RowOK, RowType
<1>2. RowOK(Bump(r, Stamp))
  BY <1>1 DEF RowOK, RowType, Bump
<1>3. RowOK(BumpSettings(r, Stamp))
  BY <1>2 DEF RowOK, RowType, BumpSettings, Stamp
<1> QED
  BY <1>2, <1>3

LEMMA ClaimOK ==
  ASSUME NEW r, RowOK(r), NEW p \in Procs
  PROVE  RowOK(ClaimLease(r, p, Stamp))
<1>1. Stamp + LeaseTTL = LeaseTTL
  BY WindowsAssumption DEF Stamp
<1> QED
  BY <1>1 DEF RowOK, RowType, ClaimLease

LEMMA ReleaseOK ==
  ASSUME NEW r, RowOK(r), NEW p \in Procs
  PROVE  RowOK(ReleaseLease(r, p))
BY DEF RowOK, RowType, ReleaseLease, Holds

LEMMA ApplyOK ==
  ASSUME NEW r, RowOK(r), NEW target \in 0 .. MaxRevision
  PROVE  RowOK(ApplyCaughtUp(r, target))
<1>1. r.desired_revision \in 0 .. MaxRevision
  BY WorldAssumption DEF RowOK, RowType
<1>2. CASE target >= r.desired_revision
  <2> DEFINE s == [r EXCEPT !.applied_revision = r.desired_revision,
                            !.force_reload     = FALSE,
                            !.first_dirty_at   = Null,
                            !.last_dirty_at    = Null]
  <2>1. ApplyCaughtUp(r, target) = s
    BY <1>2 DEF ApplyCaughtUp, RowOK, RowType
  <2>2. s \in RowType
    BY <1>1 DEF RowOK, RowType
  <2>3. s.applied_revision <= s.desired_revision
    BY <1>1 DEF RowOK, RowType
  <2> QED
    BY <2>1, <2>2, <2>3 DEF RowOK
<1>3. CASE ~ (target >= r.desired_revision)
  <2> DEFINE s == [r EXCEPT !.applied_revision = target]
  <2>1. ApplyCaughtUp(r, target) = s
    BY <1>3 DEF ApplyCaughtUp, RowOK, RowType
  <2>2. s \in RowType
    BY DEF RowOK, RowType
  <2>3. s.applied_revision <= s.desired_revision
    BY <1>1, <1>3 DEF RowOK, RowType
  <2> QED
    BY <2>1, <2>2, <2>3 DEF RowOK
<1> QED
  BY <1>2, <1>3

LEMMA AcceptedOK ==
  ASSUME NEW r, RowOK(r), NEW target \in 0 .. MaxRevision,
         NEW hash \in Contents \union {Null}
  PROVE  RowOK(RecordAcceptedPost(r, target, hash, Stamp))
<1>1. RowOK(ApplyCaughtUp(r, target))
  BY ApplyOK
<1> QED
  BY <1>1 DEF RowOK, RowType, RecordAcceptedPost

LEMMA FailureOK ==
  ASSUME NEW r, RowOK(r)
  PROVE  RowOK(RecordPrePostFailure(r, Stamp))
<1>1. r.failure_count + 1 \in Nat
  BY DEF RowOK, RowType
<1>2. Stamp + BackoffDelta(r.failure_count + 1) \in Nat
  BY <1>1, BackoffIsNat DEF Stamp
<1> QED
  BY <1>1, <1>2 DEF RowOK, RowType, RecordPrePostFailure

LEMMA DiagnosisOK ==
  ASSUME NEW r, RowOK(r), NEW state
  PROVE  RowOK(RecordDiagnosis(r, state, Stamp))
<1>1. r.failure_count + 1 \in Nat
  BY DEF RowOK, RowType
<1>2. Stamp + BackoffDelta(r.failure_count + 1) \in Nat
  BY <1>1, BackoffIsNat DEF Stamp
<1>3. CASE state = "fatal"
  BY <1>1, <1>2, <1>3 DEF RowOK, RowType, RecordDiagnosis
<1>4. CASE state \in {"healthy", "accepted"}
  BY <1>4 DEF RowOK, RowType, RecordDiagnosis
<1>5. CASE state \notin {"fatal", "healthy", "accepted"}
  BY <1>5 DEF RecordDiagnosis
<1> QED
  BY <1>3, <1>4, <1>5

-----------------------------------------------------------------------------

(* The conjuncts of TypeOK no operation step touches on its own. *)
WorldOK ==
  /\ data \in 0 .. MaxData
  /\ config \in Configs
  /\ cache \in Configs
  /\ file \in Contents \union {Null}
  /\ remote \in Contents \union {Null}
  /\ mishaps \in 0 .. MaxMishaps

NeedsConfig(p, at) ==
  \/ at = "generate"
  \/ p \in Coordinators /\ at \in {"claim", "preflight", "capture"}

LEMMA TypeParts ==
  TypeOK <=> /\ RowOK(row)
             /\ WorldOK
             /\ pc \in [Procs -> Stages]
             /\ run \in [Procs -> RunType]
             /\ \A p \in Procs : NeedsConfig(p, pc[p]) => run[p].cfg \in Configs
BY DEF TypeOK, RowOK, WorldOK, NeedsConfig, Procs

LEMMA TypePartsNext ==
  TypeOK' <=> /\ RowOK(row')
              /\ WorldOK'
              /\ pc' \in [Procs -> Stages]
              /\ run' \in [Procs -> RunType]
              /\ \A p \in Procs : NeedsConfig(p, pc'[p]) => run'[p].cfg \in Configs
BY DEF TypeOK, RowOK, WorldOK, NeedsConfig, Procs

(* A step of one operation keeps the types if its own new stage, its own   *)
(* new locals and the shared state are well typed.                         *)
LEMMA StepTypeOK ==
  ASSUME TypeOK, RowOK(row'), WorldOK',
         NEW p \in Procs, NEW at \in Stages, NEW r \in RunType,
         pc' = [pc EXCEPT ![p] = at],
         run' = [run EXCEPT ![p] = r],
         NeedsConfig(p, at) => r.cfg \in Configs
  PROVE  TypeOK'
<1>1. /\ pc \in [Procs -> Stages]
      /\ run \in [Procs -> RunType]
      /\ \A q \in Procs : NeedsConfig(q, pc[q]) => run[q].cfg \in Configs
  BY TypeParts
<1>2. pc' \in [Procs -> Stages] /\ run' \in [Procs -> RunType]
  BY <1>1
<1>3. ASSUME NEW q \in Procs, NeedsConfig(q, pc'[q])
      PROVE  run'[q].cfg \in Configs
  BY <1>1, <1>3
<1> QED
  BY <1>2, <1>3, TypePartsNext

(* The same step when the locals do not change. *)
LEMMA GotoTypeOK ==
  ASSUME TypeOK, RowOK(row'), WorldOK',
         NEW p \in Procs, NEW at \in Stages,
         Goto(p, at), UNCHANGED run,
         NeedsConfig(p, at) => run[p].cfg \in Configs
  PROVE  TypeOK'
<1>1. run \in [Procs -> RunType]
  BY TypeParts
<1>2. run' = [run EXCEPT ![p] = run[p]] /\ run[p] \in RunType
  BY <1>1
<1>3. pc' = [pc EXCEPT ![p] = at]
  BY DEF Goto
<1> QED
  BY <1>2, <1>3, StepTypeOK

LEMMA NoRunType == NoRun \in RunType
BY WorldAssumption DEF NoRun, RunType

LEMMA FinishTypeOK ==
  ASSUME TypeOK, RowOK(row'), WorldOK', NEW p \in Procs, Finish(p)
  PROVE  TypeOK'
<1>1. /\ pc' = [pc EXCEPT ![p] = Ended(p)]
      /\ run' = [run EXCEPT ![p] = NoRun]
  BY DEF Finish, Goto
<1>2. Ended(p) \in Stages /\ ~ NeedsConfig(p, Ended(p))
  BY DEF Ended, Stages, NeedsConfig
<1> QED
  BY <1>1, <1>2, NoRunType, StepTypeOK

(* A step that counts a mishap or changes nothing shared. *)
LEMMA SharedUnchanged ==
  ASSUME TypeOK, UNCHANGED <<dbVars, file, remote>>,
         mishaps' = mishaps \/ Mishap
  PROVE  WorldOK'
BY TypeParts, WorldAssumption DEF WorldOK, dbVars, Mishap

LEMMA InitTypeOK == Init => TypeOK
<1> SUFFICES ASSUME Init PROVE TypeOK
  OBVIOUS
<1>1. RowOK(row)
  BY WorldAssumption DEF Init, WorldInit, Seed, RowOK, RowType, Stamp
<1>2. WorldOK
  BY WorldAssumption DEF Init, WorldInit, WorldOK
<1>3. pc \in [Procs -> Stages]
  BY DEF Init, WorldInit, Started, Stages
<1>4. run \in [Procs -> RunType]
  BY NoRunType DEF Init, WorldInit
<1>5. ASSUME NEW p \in Procs PROVE ~ NeedsConfig(p, pc[p])
  BY DEF Init, WorldInit, Started, NeedsConfig
<1> QED
  BY <1>1, <1>2, <1>3, <1>4, <1>5, TypeParts

-----------------------------------------------------------------------------
(* The environment. *)
LEMMA EnvironmentTypeOK == TypeOK /\ Environment => TypeOK'
<1> SUFFICES ASSUME TypeOK, Environment PROVE TypeOK'
  OBVIOUS
<1> USE TypeParts
<1>1. CASE CoreWrite
  <2>1. RowOK(row')
    BY <1>1, BumpOK DEF CoreWrite
  <2>2. WorldOK'
    BY <1>1, WorldAssumption DEF CoreWrite, WorldOK
  <2> QED
    BY <1>1, <2>1, <2>2, TypePartsNext DEF CoreWrite
<1>2. CASE SaveSettings
  <2>1. RowOK(row')
    BY <1>2, BumpOK DEF SaveSettings
  <2>2. WorldOK'
    BY <1>2 DEF SaveSettings, WorldOK
  <2> QED
    BY <1>2, <2>1, <2>2, TypePartsNext DEF SaveSettings
<1>3. CASE UpdateCache
  BY <1>3, TypePartsNext DEF UpdateCache, WorldOK
<1>4. CASE Crash
  <2>1. WorldOK'
    BY <1>4, WorldAssumption DEF Crash, Mishap, WorldOK
  <2>2. pc' \in [Procs -> Stages]
    BY <1>4 DEF Crash, Ended, Stages
  <2>3. run' \in [Procs -> RunType]
    BY <1>4, NoRunType DEF Crash
  <2>4. ASSUME NEW p \in Procs PROVE ~ NeedsConfig(p, pc'[p])
    BY <1>4 DEF Crash, Ended, NeedsConfig
  <2> QED
    BY <1>4, <2>1, <2>2, <2>3, <2>4, TypePartsNext DEF Crash
<1> QED
  BY <1>1, <1>2, <1>3, <1>4 DEF Environment

-----------------------------------------------------------------------------
(* The steps every operation has. *)
LEMMA ClaimTypeOK ==
  ASSUME TypeOK, NEW p \in Procs, NEW next \in {"preflight", "capture"},
         ClaimWins(p, next) \/ ClaimLoses(p)
  PROVE  TypeOK'
<1>1. CASE ClaimWins(p, next)
  <2>1. RowOK(row')
    BY <1>1, ClaimOK, TypeParts DEF ClaimWins
  <2>2. WorldOK'
    BY <1>1, SharedUnchanged DEF ClaimWins
  <2>3. NeedsConfig(p, next) => run[p].cfg \in Configs
    BY <1>1, TypeParts DEF ClaimWins, NeedsConfig
  <2>4. next \in Stages
    BY DEF Stages, Working
  <2> QED
    BY <1>1, <2>1, <2>2, <2>3, <2>4, GotoTypeOK DEF ClaimWins
<1>2. CASE ClaimLoses(p)
  <2>1. RowOK(row')
    BY <1>2, TypeParts DEF ClaimLoses
  <2>2. WorldOK'
    BY <1>2, SharedUnchanged DEF ClaimLoses
  <2> QED
    BY <1>2, <2>1, <2>2, FinishTypeOK DEF ClaimLoses
<1> QED
  BY <1>1, <1>2

LEMMA PublishTypeOK ==
  ASSUME TypeOK, NEW p \in Procs, NEW next \in {"publish", "post", "finish"},
         pc[p] = "generate", Publish(p, next)
  PROVE  TypeOK'
<1>1. PICK content \in Projections(p) :
        /\ file' = content
        /\ run' = [run EXCEPT ![p].hash = content]
        /\ Goto(p, next)
        /\ UNCHANGED <<row, dbVars, remote, mishaps>>
  BY DEF Publish
<1>2. run[p].cfg \in Configs /\ data \in 0 .. MaxData
  BY TypeParts DEF NeedsConfig, WorldOK
<1>3. content \in Contents
  BY <1>1, <1>2 DEF Projections, Contents, Render, Layouts
<1> DEFINE r == [run[p] EXCEPT !.hash = content]
<1>4. r \in RunType /\ run' = [run EXCEPT ![p] = r]
  BY <1>1, <1>3, TypeParts DEF RunType
<1>5. RowOK(row') /\ WorldOK'
  BY <1>1, <1>3, TypeParts DEF WorldOK, dbVars
<1>6. /\ next \in Stages
      /\ pc' = [pc EXCEPT ![p] = next]
      /\ ~ NeedsConfig(p, next)
  BY <1>1 DEF Goto, Stages, Working, NeedsConfig
<1> HIDE DEF r
<1> QED
  BY <1>4, <1>5, <1>6, StepTypeOK

LEMMA PostTypeOK ==
  ASSUME TypeOK, NEW p \in Procs, NEW next \in {"accepted", "fail", "finish"},
         PostAccepted(p, next) \/ PostFailed(p, next)
  PROVE  TypeOK'
<1>1. PICK state \in Outcomes : run' = [run EXCEPT ![p].outcome = state]
  BY DEF PostAccepted, PostFailed, Outcomes
<1> DEFINE r == [run[p] EXCEPT !.outcome = state]
<1>2. r \in RunType /\ run' = [run EXCEPT ![p] = r]
  BY <1>1, TypeParts DEF RunType
<1>3. RowOK(row')
  BY TypeParts DEF PostAccepted, PostFailed
<1>4. WorldOK'
  BY TypeParts, WorldAssumption
  DEF PostAccepted, PostFailed, Mishap, WorldOK, dbVars
<1>5. /\ next \in Stages
      /\ pc' = [pc EXCEPT ![p] = next]
      /\ ~ NeedsConfig(p, next)
  BY DEF PostAccepted, PostFailed, Goto, Stages, Working, NeedsConfig
<1> HIDE DEF r
<1> QED
  BY <1>2, <1>3, <1>4, <1>5, StepTypeOK

LEMMA CleanupTypeOK ==
  ASSUME TypeOK, NEW p \in Procs, Interrupt(p) \/ Release(p)
  PROVE  TypeOK'
<1>1. WorldOK'
  BY SharedUnchanged DEF Interrupt, Release
<1>2. CASE Interrupt(p)
  <2>1. RowOK(row')
    BY <1>2, TypeParts DEF Interrupt
  <2>2. "release" \in Stages /\ ~ NeedsConfig(p, "release")
    BY DEF Stages, Working, NeedsConfig
  <2> QED
    BY <1>1, <1>2, <2>1, <2>2, GotoTypeOK DEF Interrupt
<1>3. CASE Release(p)
  <2>1. RowOK(row')
    BY <1>3, ReleaseOK, TypeParts DEF Release
  <2> QED
    BY <1>1, <1>3, <2>1, FinishTypeOK DEF Release
<1> QED
  BY <1>2, <1>3

-----------------------------------------------------------------------------
(* The coordinator. *)
LEMMA RecordTypeOK ==
  ASSUME TypeOK, NEW c \in Coordinators, NEW at, NEW newRow, RowOK(newRow),
         NEW next \in {"decide", "diagnose", "release"},
         Record(c, at, newRow, next)
  PROVE  TypeOK'
<1>1. WorldOK'
  BY SharedUnchanged DEF Record
<1>2. RowOK(row')
  BY TypeParts DEF Record
<1>3. c \in Procs
  BY DEF Procs
<1>4. PICK to \in {next, "release"} : Goto(c, to)
  BY DEF Record
<1>5. to \in Stages /\ ~ NeedsConfig(c, to)
  BY <1>4 DEF Stages, Working, NeedsConfig
<1> QED
  BY <1>1, <1>2, <1>3, <1>4, <1>5, GotoTypeOK DEF Record

LEMMA CoordinatorTypeOK ==
  ASSUME TypeOK, NEW c \in Coordinators, CoordinatorStep(c)
  PROVE  TypeOK'
<1>1. /\ c \in Procs
      /\ RowOK(row)
      /\ run[c] \in RunType
      /\ run \in [Procs -> RunType]
      /\ row.desired_revision \in 0 .. MaxRevision
      /\ run[c].guard \in 0 .. MaxRevision
      /\ run[c].target \in 0 .. MaxRevision
      /\ run[c].hash \in Contents \union {Null}
  BY TypeParts, WorldAssumption DEF Procs, RowOK, RowType, RunType
<1>2. CASE ReadSnapshot(c)
  <2>1. PICK force \in BOOLEAN :
          run' = [run EXCEPT ![c].guard = row.desired_revision, ![c].force = force]
    <3>1. row.force_reload \in BOOLEAN
      BY <1>1 DEF RowOK, RowType
    <3> QED
      BY <1>2, <3>1 DEF ReadSnapshot
  <2> DEFINE r == [run[c] EXCEPT !.guard = row.desired_revision, !.force = force]
  <2>2. r \in RunType /\ run' = [run EXCEPT ![c] = r]
    BY <1>1, <2>1 DEF RunType
  <2>3. RowOK(row') /\ WorldOK'
    BY <1>1, <1>2, SharedUnchanged DEF ReadSnapshot
  <2>4. /\ "config" \in Stages
        /\ pc' = [pc EXCEPT ![c] = "config"]
        /\ ~ NeedsConfig(c, "config")
    BY <1>2 DEF ReadSnapshot, Goto, Stages, NeedsConfig
  <2> HIDE DEF r
  <2> QED
    BY <1>1, <2>2, <2>3, <2>4, StepTypeOK
<1>3. CASE LoadConfig(c)
  <2>1. RowOK(row') /\ WorldOK'
    BY <1>1, <1>3, SharedUnchanged DEF LoadConfig
  <2>2. CASE cache \in ProjectConfigs \intersect AutoConfigs
    <3> DEFINE r == [run[c] EXCEPT !.cfg = cache]
    <3>1. cache \in Configs
      BY TypeParts DEF WorldOK
    <3>2. r \in RunType /\ run' = [run EXCEPT ![c] = r] /\ r.cfg \in Configs
      BY <1>1, <1>3, <2>2, <3>1 DEF LoadConfig, RunType
    <3>3. "claim" \in Stages /\ pc' = [pc EXCEPT ![c] = "claim"]
      BY <1>3, <2>2 DEF LoadConfig, Goto, Stages
    <3> HIDE DEF r
    <3> QED
      BY <1>1, <2>1, <3>2, <3>3, StepTypeOK
  <2>3. CASE ~ (cache \in ProjectConfigs \intersect AutoConfigs)
    BY <1>1, <1>3, <2>1, <2>3, FinishTypeOK DEF LoadConfig
  <2> QED
    BY <2>2, <2>3
<1>4. CASE ClaimWins(c, "preflight") \/ ClaimLoses(c)
  BY <1>1, <1>4, ClaimTypeOK
<1>5. CASE Preflight(c)
  <2>1. PICK at \in {"guard", "capture", "fail"} : Goto(c, at)
    BY <1>5 DEF Preflight
  <2>2. RowOK(row') /\ WorldOK'
    BY <1>1, <1>5, SharedUnchanged DEF Preflight
  <2>3. run[c].cfg \in Configs
    BY <1>5, TypeParts DEF Preflight, NeedsConfig, Procs
  <2>4. at \in Stages
    BY <2>1 DEF Stages, Working
  <2> QED
    BY <1>1, <1>5, <2>1, <2>2, <2>3, <2>4, GotoTypeOK DEF Preflight
<1>6. CASE CaptureTarget(c)
  <2> DEFINE r == [run[c] EXCEPT !.target = row.desired_revision, !.seen = data]
  <2>1. data \in 0 .. MaxData /\ run[c].cfg \in Configs
    BY <1>6, TypeParts DEF WorldOK, CaptureTarget, NeedsConfig, Procs
  <2>2. r \in RunType /\ run' = [run EXCEPT ![c] = r] /\ r.cfg \in Configs
    BY <1>1, <1>6, <2>1 DEF CaptureTarget, RunType
  <2>3. RowOK(row') /\ WorldOK'
    BY <1>1, <1>6, SharedUnchanged DEF CaptureTarget
  <2>4. "generate" \in Stages /\ pc' = [pc EXCEPT ![c] = "generate"]
    BY <1>6 DEF CaptureTarget, Goto, Stages, Working
  <2> HIDE DEF r
  <2> QED
    BY <1>1, <2>2, <2>3, <2>4, StepTypeOK
<1>7. CASE Generate(c)
  <2>1. CASE Publish(c, "publish")
    BY <1>1, <1>7, <2>1, PublishTypeOK DEF Generate
  <2>2. CASE ~ Publish(c, "publish")
    <3>1. RowOK(row') /\ WorldOK'
      BY <1>1, <1>7, <2>2, SharedUnchanged DEF Generate
    <3>2. "fail" \in Stages /\ ~ NeedsConfig(c, "fail")
      BY DEF Stages, Working, NeedsConfig
    <3> QED
      BY <1>1, <1>7, <2>2, <3>1, <3>2, GotoTypeOK DEF Generate
  <2> QED
    BY <2>1, <2>2
<1>8. CASE DecideRemote(c)
  <2>1. RowOK(row') /\ WorldOK'
    BY <1>1, <1>8, SharedUnchanged DEF DecideRemote
  <2>2. PICK at \in {"noop", "post"} : Goto(c, at)
    BY <1>8 DEF DecideRemote
  <2>3. at \in Stages /\ ~ NeedsConfig(c, at)
    BY <2>2 DEF Stages, Working, NeedsConfig
  <2> QED
    BY <1>1, <1>8, <2>1, <2>2, <2>3, GotoTypeOK DEF DecideRemote
<1>9. CASE PostAccepted(c, "accepted") \/ PostFailed(c, "fail")
  BY <1>1, <1>9, PostTypeOK
<1>10. CASE RecordPublished(c)
  BY <1>1, <1>10, RecordTypeOK DEF RecordPublished
<1>11. CASE RecordGuard(c)
  BY <1>1, <1>11, ApplyOK, RecordTypeOK DEF RecordGuard, RecordGuardCaughtUp
<1>12. CASE RecordNoop(c)
  BY <1>1, <1>12, ApplyOK, RecordTypeOK DEF RecordNoop, RecordHashNoop
<1>13. CASE RecordAccepted(c)
  BY <1>1, <1>13, AcceptedOK, RecordTypeOK DEF RecordAccepted
<1>14. CASE RecordQuality(c)
  BY <1>1, <1>14, DiagnosisOK, RecordTypeOK DEF RecordQuality
<1>15. CASE RecordFailure(c)
  BY <1>1, <1>15, FailureOK, RecordTypeOK DEF RecordFailure
<1>16. CASE Interrupt(c) \/ Release(c)
  BY <1>1, <1>16, CleanupTypeOK
<1> QED
  BY <1>2, <1>3, <1>4, <1>5, <1>6, <1>7, <1>8, <1>9, <1>10, <1>11, <1>12, <1>13,
     <1>14, <1>15, <1>16 DEF CoordinatorStep

-----------------------------------------------------------------------------
(* The manual operations. *)
LEMMA RequestTypeOK ==
  ASSUME TypeOK, NEW p \in Syncs \union Generators, Request(p)
  PROVE  TypeOK'
<1>1. RowOK(row') /\ WorldOK'
  BY TypeParts, SharedUnchanged DEF Request
<1>2. p \in Procs /\ "claim" \in Stages /\ ~ NeedsConfig(p, "claim")
  BY WorldAssumption DEF Procs, Stages, NeedsConfig
<1> QED
  BY <1>1, <1>2, GotoTypeOK DEF Request

LEMMA ManualRowOK ==
  ASSUME TypeOK, NEW m \in Syncs
  PROVE  RowOK(ManualSyncState(m))
<1> DEFINE r == run[m]
           accepted == RecordAcceptedPost(row, r.target, r.hash, Stamp)
<1>1. RowOK(row) /\ r \in RunType
  BY TypeParts DEF Procs
<1>2. RowOK(RecordPrePostFailure(row, Stamp))
  BY <1>1, FailureOK
<1>3. RowOK(accepted)
  BY <1>1, AcceptedOK DEF RunType
<1> HIDE DEF accepted
<1>4. RowOK(RecordDiagnosis(accepted, r.outcome, Stamp))
  BY <1>3, DiagnosisOK
<1>5. \/ ManualSyncState(m) = row
      \/ ManualSyncState(m) = RecordPrePostFailure(row, Stamp)
      \/ ManualSyncState(m) = RecordDiagnosis(accepted, r.outcome, Stamp)
  BY DEF ManualSyncState, accepted
<1> QED
  BY <1>1, <1>2, <1>4, <1>5

LEMMA SyncTypeOK ==
  ASSUME TypeOK, NEW m \in Syncs, SyncStep(m)
  PROVE  TypeOK'
<1>1. /\ m \in Procs
      /\ RowOK(row)
      /\ run[m] \in RunType
      /\ run \in [Procs -> RunType]
      /\ row.desired_revision \in 0 .. MaxRevision
      /\ data \in 0 .. MaxData
      /\ cache \in Configs
      /\ m \notin Coordinators
  BY TypeParts, WorldAssumption DEF Procs, RowOK, RowType, WorldOK
<1>2. CASE Request(m)
  BY <1>2, RequestTypeOK
<1>3. CASE ClaimWins(m, "capture") \/ ClaimLoses(m)
  BY <1>1, <1>3, ClaimTypeOK
<1>4. CASE SyncCapture(m)
  <2> DEFINE r == [run[m] EXCEPT !.target = row.desired_revision, !.seen = data]
  <2>1. r \in RunType /\ run' = [run EXCEPT ![m] = r]
    BY <1>1, <1>4 DEF SyncCapture, RunType
  <2>2. RowOK(row') /\ WorldOK'
    BY <1>1, <1>4, SharedUnchanged DEF SyncCapture
  <2>3. /\ "preflight" \in Stages
        /\ pc' = [pc EXCEPT ![m] = "preflight"]
        /\ ~ NeedsConfig(m, "preflight")
    BY <1>1, <1>4 DEF SyncCapture, Goto, Stages, Working, NeedsConfig
  <2> HIDE DEF r
  <2> QED
    BY <1>1, <2>1, <2>2, <2>3, StepTypeOK
<1>5. CASE SyncPreflight(m)
  <2>1. RowOK(row') /\ WorldOK'
    BY <1>1, <1>5, SharedUnchanged DEF SyncPreflight
  <2>2. CASE Goto(m, "generate") /\ run' = [run EXCEPT ![m].cfg = cache]
    <3> DEFINE r == [run[m] EXCEPT !.cfg = cache]
    <3>1. r \in RunType /\ run' = [run EXCEPT ![m] = r] /\ r.cfg \in Configs
      BY <1>1, <2>2 DEF RunType
    <3>2. "generate" \in Stages /\ pc' = [pc EXCEPT ![m] = "generate"]
      BY <2>2 DEF Goto, Stages, Working
    <3> HIDE DEF r
    <3> QED
      BY <1>1, <2>1, <3>1, <3>2, StepTypeOK
  <2>3. CASE /\ Goto(m, "finish")
             /\ \E o \in Outcomes : run' = [run EXCEPT ![m].outcome = o]
    <3>1. PICK o \in Outcomes : run' = [run EXCEPT ![m].outcome = o]
      BY <2>3
    <3> DEFINE r == [run[m] EXCEPT !.outcome = o]
    <3>2. r \in RunType /\ run' = [run EXCEPT ![m] = r]
      BY <1>1, <3>1 DEF RunType
    <3>3. /\ "finish" \in Stages
          /\ pc' = [pc EXCEPT ![m] = "finish"]
          /\ ~ NeedsConfig(m, "finish")
      BY <2>3 DEF Goto, Stages, Working, NeedsConfig
    <3> HIDE DEF r
    <3> QED
      BY <1>1, <2>1, <3>2, <3>3, StepTypeOK
  <2> QED
    BY <1>5, <2>2, <2>3 DEF SyncPreflight, Outcomes
<1>6. CASE SyncGenerate(m)
  <2>1. CASE Publish(m, "post")
    BY <1>1, <1>6, <2>1, PublishTypeOK DEF SyncGenerate
  <2>2. CASE ~ Publish(m, "post")
    <3>1. RowOK(row') /\ WorldOK'
      BY <1>1, <1>6, <2>2, SharedUnchanged DEF SyncGenerate
    <3> DEFINE r == [run[m] EXCEPT !.outcome = "failed"]
    <3>2. r \in RunType /\ run' = [run EXCEPT ![m] = r]
      BY <1>1, <1>6, <2>2 DEF SyncGenerate, RunType, Outcomes
    <3>3. /\ "finish" \in Stages
          /\ pc' = [pc EXCEPT ![m] = "finish"]
          /\ ~ NeedsConfig(m, "finish")
      BY <1>6, <2>2 DEF SyncGenerate, Goto, Stages, Working, NeedsConfig
    <3> HIDE DEF r
    <3> QED
      BY <1>1, <3>1, <3>2, <3>3, StepTypeOK
  <2> QED
    BY <2>1, <2>2
<1>7. CASE PostAccepted(m, "finish") \/ PostFailed(m, "finish")
  BY <1>1, <1>7, PostTypeOK
<1>8. CASE SyncFinish(m)
  <2>1. RowOK(ManualSyncState(m))
    BY ManualRowOK
  <2>2. RowOK(ReleaseLease(ManualSyncState(m), m))
    BY <1>1, <2>1, ReleaseOK
  <2>3. RowOK(row')
    BY <1>1, <1>8, <2>2 DEF SyncFinish
  <2>4. WorldOK'
    BY <1>8, SharedUnchanged DEF SyncFinish
  <2> QED
    BY <1>1, <1>8, <2>3, <2>4, FinishTypeOK DEF SyncFinish
<1>9. CASE Interrupt(m) \/ Release(m)
  BY <1>1, <1>9, CleanupTypeOK
<1> QED
  BY <1>2, <1>3, <1>4, <1>5, <1>6, <1>7, <1>8, <1>9 DEF SyncStep

LEMMA GenerateTypeOK ==
  ASSUME TypeOK, NEW g \in Generators, GenerateStep(g)
  PROVE  TypeOK'
<1>1. /\ g \in Procs
      /\ RowOK(row)
      /\ run[g] \in RunType
      /\ run \in [Procs -> RunType]
      /\ data \in 0 .. MaxData
      /\ cache \in Configs
  BY TypeParts DEF Procs, WorldOK
<1>2. CASE Request(g)
  BY <1>2, RequestTypeOK
<1>3. CASE ClaimWins(g, "preflight") \/ ClaimLoses(g)
  BY <1>1, <1>3, ClaimTypeOK
<1>4. CASE GenerateLoad(g)
  <2> DEFINE r == [run[g] EXCEPT !.cfg = cache, !.seen = data]
  <2>1. r \in RunType /\ run' = [run EXCEPT ![g] = r] /\ r.cfg \in Configs
    BY <1>1, <1>4 DEF GenerateLoad, RunType
  <2>2. RowOK(row') /\ WorldOK'
    BY <1>1, <1>4, SharedUnchanged DEF GenerateLoad
  <2>3. PICK at \in {"generate", "finish"} : Goto(g, at)
    BY <1>4 DEF GenerateLoad
  <2>4. at \in Stages /\ pc' = [pc EXCEPT ![g] = at]
    BY <2>3 DEF Goto, Stages, Working
  <2> HIDE DEF r
  <2> QED
    BY <1>1, <2>1, <2>2, <2>4, StepTypeOK
<1>5. CASE GenerateFile(g)
  <2>1. CASE Publish(g, "finish")
    BY <1>1, <1>5, <2>1, PublishTypeOK DEF GenerateFile
  <2>2. CASE ~ Publish(g, "finish")
    <3>1. RowOK(row') /\ WorldOK'
      BY <1>1, <1>5, <2>2, SharedUnchanged DEF GenerateFile
    <3>2. "finish" \in Stages /\ ~ NeedsConfig(g, "finish")
      BY DEF Stages, Working, NeedsConfig
    <3> QED
      BY <1>1, <1>5, <2>2, <3>1, <3>2, GotoTypeOK DEF GenerateFile
  <2> QED
    BY <2>1, <2>2
<1>6. CASE GenerateFinish(g)
  <2>1. RowOK(row')
    BY <1>1, <1>6, ReleaseOK DEF GenerateFinish
  <2>2. WorldOK'
    BY <1>6, SharedUnchanged DEF GenerateFinish
  <2> QED
    BY <1>1, <1>6, <2>1, <2>2, FinishTypeOK DEF GenerateFinish
<1>7. CASE Interrupt(g) \/ Release(g)
  BY <1>1, <1>7, CleanupTypeOK
<1> QED
  BY <1>2, <1>3, <1>4, <1>5, <1>6, <1>7 DEF GenerateStep

-----------------------------------------------------------------------------
(* Type correctness of the whole of auto sync: a row that violates the     *)
(* CHECK of extension_sync_state, or a projection started without a        *)
(* config, is unreachable whatever races, crashes or lease expiries occur. *)
LEMMA NextTypeOK == TypeOK /\ [Next]_vars => TypeOK'
<1> SUFFICES ASSUME TypeOK, [Next]_vars PROVE TypeOK'
  OBVIOUS
<1>1. CASE Next
  BY <1>1, EnvironmentTypeOK, CoordinatorTypeOK, SyncTypeOK, GenerateTypeOK
  DEF Next
<1>2. CASE UNCHANGED vars
  BY <1>2, TypeParts, TypePartsNext DEF vars, WorldOK
<1> QED
  BY <1>1, <1>2

THEOREM TypeCorrect == Spec => []TypeOK
BY InitTypeOK, NextTypeOK, PTL DEF Spec

-----------------------------------------------------------------------------
(* What each primitive leaves alone. *)
Lease(r) == <<r.lease_token, r.lease_expires_at>>
Outcome(r) == <<r.applied_revision, r.last_remote_hash>>

LEMMA BumpKeeps ==
  ASSUME NEW r, RowOK(r)
  PROVE  /\ Lease(Bump(r, Stamp)) = Lease(r)
         /\ Lease(BumpSettings(r, Stamp)) = Lease(r)
         /\ Outcome(Bump(r, Stamp)) = Outcome(r)
         /\ Outcome(BumpSettings(r, Stamp)) = Outcome(r)
BY DEF RowOK, RowType, Lease, Outcome, Bump, BumpSettings

LEMMA LeaseOpsKeepOutcome ==
  ASSUME NEW r, RowOK(r), NEW p
  PROVE  /\ Outcome(ClaimLease(r, p, Stamp)) = Outcome(r)
         /\ Outcome(ReleaseLease(r, p)) = Outcome(r)
BY DEF RowOK, RowType, Outcome, ClaimLease, ReleaseLease

LEMMA CompletionKeepsLease ==
  ASSUME NEW r, RowOK(r), NEW target, NEW hash, NEW state
  PROVE  /\ Lease(ApplyCaughtUp(r, target)) = Lease(r)
         /\ Lease(RecordAcceptedPost(r, target, hash, Stamp)) = Lease(r)
         /\ Lease(RecordPrePostFailure(r, Stamp)) = Lease(r)
         /\ Lease(RecordDiagnosis(r, state, Stamp)) = Lease(r)
<1>1. Lease(ApplyCaughtUp(r, target)) = Lease(r)
  BY DEF RowOK, RowType, Lease, ApplyCaughtUp
<1>2. Lease(RecordAcceptedPost(r, target, hash, Stamp)) = Lease(r)
  BY DEF RowOK, RowType, Lease, ApplyCaughtUp, RecordAcceptedPost
<1>3. Lease(RecordPrePostFailure(r, Stamp)) = Lease(r)
  BY DEF RowOK, RowType, Lease, RecordPrePostFailure
<1>4. CASE state = "fatal"
  BY <1>1, <1>2, <1>3, <1>4 DEF RowOK, RowType, Lease, RecordDiagnosis
<1>5. CASE state \in {"healthy", "accepted"}
  BY <1>1, <1>2, <1>3, <1>5 DEF RowOK, RowType, Lease, RecordDiagnosis
<1>6. CASE state \notin {"fatal", "healthy", "accepted"}
  BY <1>1, <1>2, <1>3, <1>6 DEF RecordDiagnosis
<1> QED
  BY <1>4, <1>5, <1>6

LEMMA ManualKeepsLease ==
  ASSUME TypeOK, NEW m \in Syncs
  PROVE  Lease(ManualSyncState(m)) = Lease(row)
<1> DEFINE r == run[m]
           accepted == RecordAcceptedPost(row, r.target, r.hash, Stamp)
<1>1. RowOK(row) /\ r \in RunType
  BY TypeParts DEF Procs
<1>2. RowOK(accepted)
  BY <1>1, AcceptedOK DEF RunType
<1>3. Lease(accepted) = Lease(row)
  BY <1>1, CompletionKeepsLease
<1>4. Lease(RecordPrePostFailure(row, Stamp)) = Lease(row)
  BY <1>1, CompletionKeepsLease
<1> HIDE DEF accepted
<1>5. Lease(RecordDiagnosis(accepted, r.outcome, Stamp)) = Lease(row)
  BY <1>2, <1>3, CompletionKeepsLease
<1>6. \/ ManualSyncState(m) = row
      \/ ManualSyncState(m) = RecordPrePostFailure(row, Stamp)
      \/ ManualSyncState(m) = RecordDiagnosis(accepted, r.outcome, Stamp)
  BY DEF ManualSyncState, accepted
<1> QED
  BY <1>4, <1>5, <1>6

-----------------------------------------------------------------------------
(* Only the holder of the lease changes the outcome, under every fault.    *)
HolderMoves == \E p \in Procs : Holds(row, p) /\ pc'[p] # pc[p]
OutcomeKept == Outcome(row') = Outcome(row)

LEMMA EnvironmentKeepsOutcome ==
  ASSUME TypeOK, Environment
  PROVE  OutcomeKept
<1>1. RowOK(row)
  BY TypeParts
<1>2. CASE CoreWrite
  BY <1>1, <1>2, BumpKeeps DEF CoreWrite, OutcomeKept
<1>3. CASE SaveSettings
  BY <1>1, <1>3, BumpKeeps DEF SaveSettings, OutcomeKept
<1>4. CASE UpdateCache \/ Crash
  BY <1>4 DEF UpdateCache, Crash, OutcomeKept
<1> QED
  BY <1>2, <1>3, <1>4 DEF Environment

LEMMA RecordByHolder ==
  ASSUME TypeOK, NEW c \in Coordinators, NEW at, NEW newRow, NEW next,
         at # next, Record(c, at, newRow, next)
  PROVE  OutcomeKept \/ HolderMoves
<1>1. c \in Procs /\ pc \in [Procs -> Stages]
  BY TypeParts DEF Procs
<1>2. CASE Holds(row, c)
  BY <1>1, <1>2 DEF Record, Goto, HolderMoves
<1>3. CASE ~ Holds(row, c)
  BY <1>3 DEF Record, OutcomeKept
<1> QED
  BY <1>2, <1>3

LEMMA CoordinatorByHolder ==
  ASSUME TypeOK, NEW c \in Coordinators, CoordinatorStep(c)
  PROVE  OutcomeKept \/ HolderMoves
<1>1. RowOK(row) /\ c \in Procs
  BY TypeParts DEF Procs
<1>2. CASE ClaimWins(c, "preflight")
  BY <1>1, <1>2, LeaseOpsKeepOutcome DEF ClaimWins, OutcomeKept
<1>3. CASE Release(c)
  BY <1>1, <1>3, LeaseOpsKeepOutcome DEF Release, OutcomeKept
<1>4. CASE \/ RecordPublished(c) \/ RecordGuard(c) \/ RecordNoop(c)
           \/ RecordAccepted(c) \/ RecordQuality(c) \/ RecordFailure(c)
  BY <1>4, RecordByHolder
  DEF RecordPublished, RecordGuard, RecordNoop, RecordAccepted, RecordQuality,
      RecordFailure
<1>5. CASE \/ ReadSnapshot(c) \/ LoadConfig(c) \/ ClaimLoses(c) \/ Preflight(c)
           \/ CaptureTarget(c) \/ Generate(c) \/ DecideRemote(c)
           \/ PostAccepted(c, "accepted") \/ PostFailed(c, "fail") \/ Interrupt(c)
  BY <1>5
  DEF ReadSnapshot, LoadConfig, ClaimLoses, Preflight, CaptureTarget, Generate,
      Publish, DecideRemote, PostAccepted, PostFailed, Interrupt, OutcomeKept
<1> QED
  BY <1>2, <1>3, <1>4, <1>5 DEF CoordinatorStep

LEMMA ManualByHolder ==
  ASSUME TypeOK, NEW p \in Syncs \union Generators,
         SyncStep(p) \/ GenerateStep(p)
  PROVE  OutcomeKept \/ HolderMoves
<1>1. /\ RowOK(row)
      /\ p \in Procs
      /\ p \notin Coordinators
      /\ pc \in [Procs -> Stages]
  BY TypeParts, WorldAssumption DEF Procs
<1>2. CASE ClaimWins(p, "preflight") \/ ClaimWins(p, "capture")
  BY <1>1, <1>2, LeaseOpsKeepOutcome DEF ClaimWins, OutcomeKept
<1>3. CASE Release(p) \/ GenerateFinish(p)
  BY <1>1, <1>3, LeaseOpsKeepOutcome DEF Release, GenerateFinish, OutcomeKept
<1>4. CASE SyncFinish(p)
  <2>1. CASE Holds(row, p)
    BY <1>1, <1>4, <2>1 DEF SyncFinish, Finish, Goto, Ended, HolderMoves
  <2>2. CASE ~ Holds(row, p)
    BY <1>4, <2>2 DEF SyncFinish, OutcomeKept
  <2> QED
    BY <2>1, <2>2
<1>5. CASE \/ Request(p) \/ ClaimLoses(p) \/ SyncCapture(p) \/ SyncPreflight(p)
           \/ SyncGenerate(p) \/ PostAccepted(p, "finish")
           \/ PostFailed(p, "finish") \/ GenerateLoad(p) \/ GenerateFile(p)
           \/ Interrupt(p)
  BY <1>5
  DEF Request, ClaimLoses, SyncCapture, SyncPreflight, SyncGenerate, Publish,
      PostAccepted, PostFailed, GenerateLoad, GenerateFile, Interrupt, OutcomeKept
<1> QED
  BY <1>2, <1>3, <1>4, <1>5 DEF SyncStep, GenerateStep

(* Whatever lease expires under whom, the applied revision and the accepted *)
(* hash change only in a step of the operation whose token the row carries. *)
THEOREM OnlyHolder == Spec => OnlyHolderCompletes
<1>1. ASSUME TypeOK, [Next]_vars
      PROVE  [row'.applied_revision # row.applied_revision
                \/ row'.last_remote_hash # row.last_remote_hash
              => \E p \in Procs : Holds(row, p) /\ pc'[p] # pc[p]]_vars
  <2>1. CASE Next
    <3>1. OutcomeKept \/ HolderMoves
      <4>1. CASE Environment
        BY <1>1, <4>1, EnvironmentKeepsOutcome
      <4>2. ASSUME NEW c \in Coordinators, CoordinatorStep(c)
            PROVE  OutcomeKept \/ HolderMoves
        BY <1>1, <4>2, CoordinatorByHolder
      <4>3. ASSUME NEW m \in Syncs, SyncStep(m)
            PROVE  OutcomeKept \/ HolderMoves
        <5>1. m \in Syncs \union Generators
          OBVIOUS
        <5> QED
          BY <1>1, <4>3, <5>1, ManualByHolder
      <4>4. ASSUME NEW g \in Generators, GenerateStep(g)
            PROVE  OutcomeKept \/ HolderMoves
        <5>1. g \in Syncs \union Generators
          OBVIOUS
        <5> QED
          BY <1>1, <4>4, <5>1, ManualByHolder
      <4> QED
        BY <2>1, <4>1, <4>2, <4>3, <4>4 DEF Next
    <3> QED
      BY <3>1 DEF OutcomeKept, Outcome, HolderMoves
  <2> QED
    BY <1>1, <2>1
<1> QED
  BY <1>1, TypeCorrect, PTL DEF Spec, OnlyHolderCompletes

-----------------------------------------------------------------------------
(* Single flight.  It is inductive together with the fact that the row's   *)
(* token names the worker, and that token and expiry are set together:     *)
(* only then does a claim that finds no expiry know that nobody works.     *)
LeaseNamesWorker ==
  /\ row.lease_token = Null <=> row.lease_expires_at = Null
  /\ \A p \in Procs : pc[p] \in Working => row.lease_token = p

LEMMA LeaseOfRow ==
  ASSUME NEW r, NEW s, Lease(r) = Lease(s)
  PROVE  r.lease_token = s.lease_token /\ r.lease_expires_at = s.lease_expires_at
BY DEF Lease

(* A step that keeps the lease and lets nobody start working. *)
LEMMA StepKeepsLease ==
  ASSUME TypeOK, LeaseNamesWorker, Lease(row') = Lease(row),
         \A p \in Procs : pc'[p] \in Working => pc[p] \in Working
  PROVE  LeaseNamesWorker'
BY LeaseOfRow DEF LeaseNamesWorker

LEMMA GotoKeepsLease ==
  ASSUME TypeOK, LeaseNamesWorker, Lease(row') = Lease(row),
         NEW p \in Procs, NEW at,
         at \in Working => pc[p] \in Working,
         Goto(p, at)
  PROVE  LeaseNamesWorker'
<1>1. \A q \in Procs : pc'[q] \in Working => pc[q] \in Working
  BY TypeParts DEF Goto
<1> QED
  BY <1>1, StepKeepsLease

(* The worker leaves and gives the lease up. *)
LEMMA ReleaseKeepsLease ==
  ASSUME TypeOK, LeaseNamesWorker, NEW p \in Procs, pc[p] \in Working,
         NEW r, RowOK(r), Lease(r) = Lease(row),
         row' = ReleaseLease(r, p), Goto(p, Ended(p))
  PROVE  LeaseNamesWorker'
<1>1. row.lease_token = p /\ r.lease_token = p
  BY LeaseOfRow DEF LeaseNamesWorker
<1>2. row'.lease_token = Null /\ row'.lease_expires_at = Null
  BY <1>1 DEF ReleaseLease, Holds, RowOK, RowType
<1>3. \A q \in Procs : pc'[q] \notin Working
  <2> SUFFICES ASSUME NEW q \in Procs, pc'[q] \in Working PROVE FALSE
    OBVIOUS
  <2>1. CASE q = p
    BY <2>1, TypeParts DEF Goto, Ended, Working
  <2>2. CASE q # p
    BY <1>1, <2>2, TypeParts DEF Goto, LeaseNamesWorker
  <2> QED
    BY <2>1, <2>2
<1> QED
  BY <1>2, <1>3 DEF LeaseNamesWorker

LEMMA ClaimKeepsLease ==
  ASSUME "lease_expiry" \notin Faults, TypeOK, LeaseNamesWorker,
         NEW p \in Procs, NEW next \in Working, ClaimWins(p, next)
  PROVE  LeaseNamesWorker'
<1>1. ~ HolderWorking
  <2> SUFFICES ASSUME HolderWorking PROVE FALSE
    OBVIOUS
  <2>1. ClaimInstants = {Stamp}
    BY DEF ClaimInstants
  <2>2. CanClaim(row, Stamp)
    BY <2>1 DEF ClaimWins
  <2>3. row.lease_expires_at = Null \/ row.lease_expires_at \in Nat
    BY TypeParts, WindowsAssumption DEF RowOK, RowType
  <2>4. row.lease_expires_at = Null
    BY <2>2, <2>3 DEF CanClaim, Stamp
  <2> QED
    BY <2>4, ProcAssumption DEF HolderWorking, LeaseNamesWorker
<1>2. \A q \in Procs : pc[q] \notin Working
  BY <1>1 DEF HolderWorking, LeaseNamesWorker
<1>3. row'.lease_token = p /\ row'.lease_expires_at \in Nat
  BY TypeParts, WindowsAssumption
  DEF ClaimWins, ClaimLease, RowOK, RowType, Stamp
<1>4. \A q \in Procs : pc'[q] \in Working => q = p
  BY <1>2, TypeParts DEF ClaimWins, Goto
<1> QED
  BY <1>3, <1>4, ProcAssumption, NullAssumption DEF LeaseNamesWorker

LEMMA EnvironmentKeepsLease ==
  ASSUME TypeOK, LeaseNamesWorker, Environment
  PROVE  LeaseNamesWorker'
<1>1. RowOK(row)
  BY TypeParts
<1>2. Lease(row') = Lease(row)
  BY <1>1, BumpKeeps
  DEF Environment, CoreWrite, SaveSettings, UpdateCache, Crash
<1>3. \A p \in Procs : pc'[p] \in Working => pc[p] \in Working
  BY DEF Environment, CoreWrite, SaveSettings, UpdateCache, Crash, Ended, Working
<1> QED
  BY <1>2, <1>3, StepKeepsLease

LEMMA RecordKeepsLease ==
  ASSUME TypeOK, LeaseNamesWorker, NEW c \in Coordinators,
         NEW at \in Working, NEW newRow, Lease(newRow) = Lease(row),
         NEW next, Record(c, at, newRow, next)
  PROVE  LeaseNamesWorker'
<1>1. c \in Procs /\ pc[c] \in Working
  BY DEF Procs, Record
<1>2. Lease(row') = Lease(row)
  BY DEF Record, Lease
<1>3. PICK to : Goto(c, to)
  BY DEF Record
<1> QED
  BY <1>1, <1>2, <1>3, GotoKeepsLease

LEMMA CoordinatorKeepsLease ==
  ASSUME "lease_expiry" \notin Faults, TypeOK, LeaseNamesWorker,
         NEW c \in Coordinators, CoordinatorStep(c)
  PROVE  LeaseNamesWorker'
<1>1. RowOK(row) /\ c \in Procs
  BY TypeParts DEF Procs
<1>2. CASE ClaimWins(c, "preflight")
  BY <1>1, <1>2, ClaimKeepsLease DEF Working
<1>3. CASE Release(c)
  BY <1>1, <1>3, ReleaseKeepsLease DEF Release, Finish, Working
<1>4. CASE \/ RecordPublished(c) \/ RecordGuard(c) \/ RecordNoop(c)
           \/ RecordAccepted(c) \/ RecordQuality(c) \/ RecordFailure(c)
  BY <1>1, <1>4, RecordKeepsLease, CompletionKeepsLease
  DEF RecordPublished, RecordGuard, RecordGuardCaughtUp, RecordNoop,
      RecordHashNoop, RecordAccepted, RecordQuality, RecordFailure, Working
<1>5. CASE ReadSnapshot(c) \/ LoadConfig(c) \/ ClaimLoses(c)
  <2>1. Lease(row') = Lease(row)
    BY <1>5 DEF ReadSnapshot, LoadConfig, ClaimLoses
  <2>2. PICK to \in {"config", "claim", "idle"} : Goto(c, to)
    BY <1>5 DEF ReadSnapshot, LoadConfig, ClaimLoses, Finish, Ended
  <2> QED
    BY <1>1, <2>1, <2>2, GotoKeepsLease DEF Working
<1>6. CASE \/ Preflight(c) \/ CaptureTarget(c) \/ Generate(c) \/ DecideRemote(c)
           \/ PostAccepted(c, "accepted") \/ PostFailed(c, "fail") \/ Interrupt(c)
  <2>1. Lease(row') = Lease(row)
    BY <1>6
    DEF Preflight, CaptureTarget, Generate, Publish, DecideRemote, PostAccepted,
        PostFailed, Interrupt
  <2>2. pc[c] \in Working
    BY <1>6
    DEF Preflight, CaptureTarget, Generate, DecideRemote, PostAccepted,
        PostFailed, Interrupt, Working
  <2>3. PICK to : Goto(c, to)
    BY <1>6
    DEF Preflight, CaptureTarget, Generate, Publish, DecideRemote, PostAccepted,
        PostFailed, Interrupt
  <2> QED
    BY <1>1, <2>1, <2>2, <2>3, GotoKeepsLease
<1> QED
  BY <1>2, <1>3, <1>4, <1>5, <1>6 DEF CoordinatorStep

LEMMA ManualKeepsLeaseInv ==
  ASSUME "lease_expiry" \notin Faults, TypeOK, LeaseNamesWorker,
         NEW p \in Syncs \union Generators,
         (SyncStep(p) /\ p \in Syncs) \/ GenerateStep(p)
  PROVE  LeaseNamesWorker'
<1>1. RowOK(row) /\ p \in Procs /\ p \notin Coordinators
  BY TypeParts, WorldAssumption DEF Procs
<1>2. CASE ClaimWins(p, "preflight") \/ ClaimWins(p, "capture")
  BY <1>1, <1>2, ClaimKeepsLease DEF Working
<1>3. CASE Release(p) \/ GenerateFinish(p)
  BY <1>1, <1>3, ReleaseKeepsLease DEF Release, GenerateFinish, Finish, Working
<1>4. CASE SyncFinish(p) /\ p \in Syncs
  <2>1. RowOK(ManualSyncState(p)) /\ Lease(ManualSyncState(p)) = Lease(row)
    BY <1>4, ManualRowOK, ManualKeepsLease
  <2>2. Holds(row, p)
    BY <1>1, <1>4 DEF SyncFinish, Working, LeaseNamesWorker, Holds
  <2> QED
    BY <1>1, <1>4, <2>1, <2>2, ReleaseKeepsLease DEF SyncFinish, Finish, Working
<1>5. CASE Request(p) \/ ClaimLoses(p)
  <2>1. Lease(row') = Lease(row)
    BY <1>5 DEF Request, ClaimLoses
  <2>2. PICK to \in {"claim", "done"} : Goto(p, to)
    BY <1>1, <1>5 DEF Request, ClaimLoses, Finish, Ended
  <2> QED
    BY <1>1, <2>1, <2>2, GotoKeepsLease DEF Working
<1>6. CASE \/ SyncCapture(p) \/ SyncPreflight(p) \/ SyncGenerate(p)
           \/ PostAccepted(p, "finish") \/ PostFailed(p, "finish")
           \/ GenerateLoad(p) \/ GenerateFile(p) \/ Interrupt(p)
  <2>1. Lease(row') = Lease(row)
    BY <1>6
    DEF SyncCapture, SyncPreflight, SyncGenerate, Publish, PostAccepted,
        PostFailed, GenerateLoad, GenerateFile, Interrupt
  <2>2. pc[p] \in Working
    BY <1>6
    DEF SyncCapture, SyncPreflight, SyncGenerate, PostAccepted, PostFailed,
        GenerateLoad, GenerateFile, Interrupt, Working
  <2>3. PICK to : Goto(p, to)
    BY <1>6
    DEF SyncCapture, SyncPreflight, SyncGenerate, Publish, PostAccepted,
        PostFailed, GenerateLoad, GenerateFile, Interrupt
  <2> QED
    BY <1>1, <2>1, <2>2, <2>3, GotoKeepsLease
<1> QED
  BY <1>2, <1>3, <1>4, <1>5, <1>6 DEF SyncStep, GenerateStep

LEMMA LeaseInductive ==
  ASSUME "lease_expiry" \notin Faults, TypeOK, LeaseNamesWorker, [Next]_vars
  PROVE  LeaseNamesWorker'
<1>1. CASE Environment
  BY <1>1, EnvironmentKeepsLease
<1>2. ASSUME NEW c \in Coordinators, CoordinatorStep(c) PROVE LeaseNamesWorker'
  BY <1>2, CoordinatorKeepsLease
<1>3. ASSUME NEW m \in Syncs, SyncStep(m) PROVE LeaseNamesWorker'
  <2>1. m \in Syncs \union Generators
    OBVIOUS
  <2> QED
    BY <1>3, <2>1, ManualKeepsLeaseInv
<1>4. ASSUME NEW g \in Generators, GenerateStep(g) PROVE LeaseNamesWorker'
  <2>1. g \in Syncs \union Generators
    OBVIOUS
  <2> QED
    BY <1>4, <2>1, ManualKeepsLeaseInv
<1>5. CASE UNCHANGED vars
  BY <1>5 DEF vars, LeaseNamesWorker
<1> QED
  BY <1>1, <1>2, <1>3, <1>4, <1>5 DEF Next

(* If the heartbeat keeps the lease of a working holder alive, no two      *)
(* operations of any kind, in any number of processes, are between claim   *)
(* and release at once.                                                    *)
THEOREM SingleFlightHolds ==
  ASSUME "lease_expiry" \notin Faults
  PROVE  Spec => []SingleFlight
<1>1. Init => LeaseNamesWorker
  BY DEF Init, WorldInit, Seed, Started, Working, LeaseNamesWorker
<1>2. TypeOK /\ LeaseNamesWorker /\ [Next]_vars => LeaseNamesWorker'
  BY LeaseInductive
<1>3. LeaseNamesWorker => SingleFlight
  BY DEF LeaseNamesWorker, SingleFlight
<1> QED
  BY <1>1, <1>2, <1>3, TypeCorrect, PTL DEF Spec

-----------------------------------------------------------------------------
(* The mirror. The argument follows one attempt. The revision it captures    *)
(* covers the data it projects, unless a write came in between, and then it  *)
(* is not the latest revision any more. Nobody else replaces the file before *)
(* the POST, so Paisa loads what was projected; and a POST is skipped only   *)
(* if Paisa has loaded this content before and nothing since.                *)

(* What the journal of the current data looks like, under the settings     *)
(* that mirror it.                                                         *)
Fresh == {Render(data, c) : c \in ReadyConfigs}

(* What can have been rendered up to now. *)
Past == ((0 .. data) \X Layouts) \union {Torn, Null}

(* The attempts that captured a revision and have yet to report it, ...    *)
HasContent(p) ==
  \/ p \in Coordinators \union Syncs
       /\ pc[p] \in {"publish", "decide", "noop", "post", "accepted"}
  \/ p \in Syncs /\ pc[p] = "finish" /\ run[p].outcome \notin {"guard", "failed"}

(* ... before and after they rendered the journal.                         *)
HasTarget(p) ==
  \/ p \in Coordinators \union Syncs /\ pc[p] = "generate"
  \/ p \in Syncs /\ pc[p] = "preflight"

(* Whether the report of an attempt will, or a skip may, settle the row.   *)
Counts(p) ==
  run[p].target = row.desired_revision \/ row.last_remote_hash \in Fresh

AttemptOK(p) ==
  /\ HasTarget(p) \/ HasContent(p) =>
       /\ run[p].target \in 0 .. row.desired_revision
       /\ run[p].target = row.desired_revision \/ Dirty(row)
  /\ HasTarget(p) /\ Counts(p) => run[p].seen = data
  /\ HasContent(p) => run[p].hash \in Past
  /\ HasContent(p) /\ Counts(p) => run[p].hash \in Fresh
  /\ HasContent(p) /\ pc[p] \in {"publish", "decide", "post"} => file = run[p].hash
  /\ HasContent(p) /\ pc[p] \in {"accepted", "finish"} => remote = run[p].hash
  /\ pc[p] = "noop" => row.last_remote_hash = run[p].hash
  /\ p \in Coordinators /\ pc[p] = "capture" => run[p].cfg \in ReadyConfigs
  /\ p \in Coordinators \union Syncs /\ pc[p] = "generate" => run[p].cfg \in ReadyConfigs

(* The guard path: settings that ask for no mirror settle the row only if  *)
(* they still hold.                                                        *)
GuardOK(c) ==
  /\ pc[c] \in {"config", "claim", "preflight", "guard"} =>
       run[c].guard \in 0 .. row.desired_revision
  /\ pc[c] \in {"claim", "preflight", "guard"} =>
       run[c].guard < row.desired_revision \/ run[c].cfg = config
  /\ pc[c] = "guard" => run[c].cfg \notin ReadyConfigs

(* Inductive with TypeOK and LeaseNamesWorker. *)
MirrorInv ==
  /\ cache = config
  /\ row.last_remote_hash \in Past
  /\ row.last_remote_hash \in Fresh => remote \in Fresh
  /\ ~ Dirty(row) /\ config \in ReadyConfigs => remote \in Fresh
  /\ \A p \in Procs : AttemptOK(p)
  /\ \A c \in Coordinators : GuardOK(c)

-----------------------------------------------------------------------------
(* Contents.                                                               *)

LEMMA FreshIsPast ==
  ASSUME TypeOK
  PROVE  Fresh \subseteq Past
<1>1. data \in Nat
  BY TypeParts, WorldAssumption DEF WorldOK
<1>2. \A c \in ReadyConfigs : Layout[c] \in Layouts
  BY WorldAssumption DEF Layouts
<1> QED
  BY <1>1, <1>2 DEF Fresh, Past, Render

LEMMA ContentsKept ==
  ASSUME data' = data
  PROVE  Fresh' = Fresh /\ Past' = Past
BY DEF Fresh, Past, Render

(* A change of the data makes everything rendered so far history. *)
LEMMA NewContent ==
  ASSUME TypeOK, data + 1 \in 0 .. MaxData, data' = data + 1, NEW x \in Past
  PROVE  x \notin Fresh' /\ x \in Past'
<1>1. data \in 0 .. MaxData
  BY TypeParts DEF WorldOK
<1>2. x \in Past'
  BY <1>1, WorldAssumption DEF Past
<1>3. ASSUME NEW c \in ReadyConfigs, x = <<data + 1, Layout[c]>>
      PROVE  FALSE
  <2>1. x \in (0 .. MaxData) \X Layouts
    BY <1>3, WorldAssumption DEF Layouts
  <2>2. x # Torn /\ x # Null
    BY <2>1, ContentAssumption DEF Contents
  <2>3. x \in (0 .. data) \X Layouts
    BY <2>2 DEF Past
  <2>4. data + 1 \in 0 .. data
    BY <2>3, <1>3
  <2> QED
    BY <2>4, <1>1, WorldAssumption
<1> QED
  BY <1>2, <1>3 DEF Fresh, Render

LEMMA CurrentIsFresh ==
  ASSUME config \in ReadyConfigs, \A c, d \in ReadyConfigs : Layout[c] = Layout[d],
         remote \in Fresh
  PROVE  remote = Current
BY DEF Fresh, Current, Render

-----------------------------------------------------------------------------
(* What a step of one operation leaves to the others.                      *)

Shown(r) == <<r.desired_revision, r.applied_revision, r.last_remote_hash>>

LEMMA ShownOfRow ==
  ASSUME NEW r, NEW s, Shown(r) = Shown(s)
  PROVE  /\ r.desired_revision = s.desired_revision
         /\ r.applied_revision = s.applied_revision
         /\ r.last_remote_hash = s.last_remote_hash
         /\ Dirty(r) <=> Dirty(s)
BY DEF Shown, Dirty

(* An operation that stands still while what it relies on does, too. *)
LEMMA StandStill ==
  ASSUME NEW q \in Procs, AttemptOK(q),
         Shown(row') = Shown(row), UNCHANGED <<data, config, file, remote>>,
         pc'[q] = pc[q], run'[q] = run[q]
  PROVE  /\ AttemptOK(q)'
         /\ GuardOK(q) => GuardOK(q)'
<1>1. /\ row'.desired_revision = row.desired_revision
      /\ row'.last_remote_hash = row.last_remote_hash
      /\ Dirty(row') <=> Dirty(row)
  BY ShownOfRow
<1>2. Fresh' = Fresh /\ Past' = Past
  BY ContentsKept
<1>3. /\ HasTarget(q)' <=> HasTarget(q)
      /\ HasContent(q)' <=> HasContent(q)
      /\ Counts(q)' <=> Counts(q)
  BY <1>1, <1>2 DEF HasTarget, HasContent, Counts
<1>4. AttemptOK(q)'
  BY <1>1, <1>2, <1>3 DEF AttemptOK
<1>5. GuardOK(q) => GuardOK(q)'
  BY <1>1 DEF GuardOK
<1> QED
  BY <1>4, <1>5

(* An operation that does not work has no attempt to speak of. *)
LEMMA NoAttemptYet ==
  ASSUME NEW q, pc[q] \notin Working
  PROVE  AttemptOK(q)
BY DEF AttemptOK, HasTarget, HasContent, Working

LEMMA NoAttemptNext ==
  ASSUME NEW q, pc'[q] \notin Working
  PROVE  AttemptOK(q)'
BY DEF AttemptOK, HasTarget, HasContent, Working

LEMMA NoGuardNext ==
  ASSUME NEW q, pc'[q] \notin {"config", "claim", "preflight", "guard"}
  PROVE  GuardOK(q)'
BY DEF GuardOK

(* What holds of the row and of Paisa, whoever is at work. *)
SettledInv ==
  /\ cache = config
  /\ row.last_remote_hash \in Past
  /\ row.last_remote_hash \in Fresh => remote \in Fresh
  /\ ~ Dirty(row) /\ config \in ReadyConfigs => remote \in Fresh

(* A step of an operation at work: the others are not. *)
LEMMA WorkerStep ==
  ASSUME TypeOK, LeaseNamesWorker, MirrorInv,
         NEW p \in Procs, pc[p] \in Working,
         UNCHANGED dbVars, row'.desired_revision = row.desired_revision,
         \A q \in Procs : q # p => pc'[q] = pc[q] /\ run'[q] = run[q],
         AttemptOK(p)', p \in Coordinators => GuardOK(p)', SettledInv'
  PROVE  MirrorInv'
<1>1. \A q \in Procs : q # p => pc'[q] \notin Working
  BY DEF LeaseNamesWorker
<1>2. \A q \in Procs : AttemptOK(q)'
  BY <1>1, NoAttemptNext
<1>3. \A q \in Coordinators : q # p => GuardOK(q)'
  BY DEF MirrorInv, GuardOK, dbVars, Procs
<1> QED
  BY <1>2, <1>3 DEF MirrorInv, SettledInv

(* A step before the lease is claimed. *)
LEMMA LobbyStep ==
  ASSUME TypeOK, MirrorInv, NEW p \in Procs,
         UNCHANGED <<dbVars, file, remote>>, Shown(row') = Shown(row),
         \A q \in Procs : q # p => pc'[q] = pc[q] /\ run'[q] = run[q],
         AttemptOK(p)', p \in Coordinators => GuardOK(p)'
  PROVE  MirrorInv'
<1>1. UNCHANGED <<data, config, cache>>
  BY DEF dbVars
<1>2. \A q \in Procs : AttemptOK(q)'
  BY <1>1, StandStill DEF MirrorInv
<1>3. \A q \in Coordinators : GuardOK(q)'
  BY <1>1, StandStill DEF MirrorInv, Procs
<1>4. SettledInv'
  BY <1>1, ShownOfRow, ContentsKept DEF MirrorInv, SettledInv
<1> QED
  BY <1>2, <1>3, <1>4 DEF MirrorInv, SettledInv

LEMMA OthersStay ==
  ASSUME TypeOK, NEW p \in Procs, NEW at, Goto(p, at)
  PROVE  /\ pc'[p] = at
         /\ \A q \in Procs : q # p => pc'[q] = pc[q]
BY TypeParts DEF Goto

LEMMA FinishStay ==
  ASSUME TypeOK, NEW p \in Procs, Finish(p)
  PROVE  /\ pc'[p] = Ended(p)
         /\ \A q \in Procs : q # p => pc'[q] = pc[q] /\ run'[q] = run[q]
BY TypeParts DEF Finish, Goto

LEMMA SettledStays ==
  ASSUME MirrorInv, UNCHANGED dbVars, UNCHANGED remote, Shown(row') = Shown(row)
  PROVE  SettledInv'
BY ShownOfRow, ContentsKept DEF MirrorInv, SettledInv, dbVars

-----------------------------------------------------------------------------
(* The rest of the dashboard.  A write outdates every attempt under way.   *)

LEMMA WriteKeepsMirror ==
  ASSUME TypeOK, MirrorInv,
         \/ data' = data
         \/ data' = data + 1 /\ data' \in 0 .. MaxData,
         row'.desired_revision = row.desired_revision + 1,
         row'.applied_revision = row.applied_revision,
         row'.last_remote_hash = row.last_remote_hash,
         cache' = config', UNCHANGED <<file, remote, pc, run>>
  PROVE  MirrorInv'
<1>1. /\ row.desired_revision \in Nat
      /\ row.applied_revision \in Nat
      /\ row.applied_revision <= row.desired_revision
  BY TypeParts, WorldAssumption DEF RowOK, RowType
<1>2. Dirty(row')
  BY <1>1 DEF Dirty
<1>3. \A x \in Past : x \in Past' /\ (x \in Fresh' => data' = data /\ x \in Fresh)
  BY ContentsKept, NewContent
<1>4. SettledInv'
  <2>1. /\ row.last_remote_hash \in Past
        /\ row.last_remote_hash \in Fresh => remote \in Fresh
        /\ data' = data => Fresh' = Fresh
    BY ContentsKept DEF MirrorInv
  <2>2. row'.last_remote_hash \in Past'
    BY <1>3, <2>1
  <2>3. row'.last_remote_hash \in Fresh' => remote' \in Fresh'
    BY <1>3, <2>1
  <2> QED
    BY <1>2, <2>2, <2>3 DEF SettledInv
<1>5. ASSUME NEW q \in Procs PROVE AttemptOK(q)'
  <2>1. AttemptOK(q)
    BY DEF MirrorInv
  <2>2. HasTarget(q)' <=> HasTarget(q)
    BY DEF HasTarget
  <2>3. HasContent(q)' <=> HasContent(q)
    BY DEF HasContent
  <2>4. ASSUME HasTarget(q) \/ HasContent(q)
        PROVE  /\ run'[q].target \in 0 .. row'.desired_revision
               /\ Counts(q)' => Counts(q) /\ data' = data
    <3>1. run[q].target \in 0 .. row.desired_revision
      BY <2>1, <2>4 DEF AttemptOK
    <3>2. run[q].target \in 0 .. row.desired_revision + 1
          /\ run[q].target # row.desired_revision + 1
      BY <3>1, <1>1
    <3>3. Counts(q)' => row.last_remote_hash \in Fresh'
      BY <3>2 DEF Counts
    <3> QED
      BY <3>2, <3>3, <1>3 DEF Counts, MirrorInv
  <2>5. HasTarget(q)' /\ Counts(q)' => run'[q].seen = data'
    BY <2>1, <2>2, <2>4 DEF AttemptOK
  <2>6. HasContent(q)' => run'[q].hash \in Past'
    BY <2>1, <2>3, <1>3 DEF AttemptOK
  <2>7. HasContent(q)' /\ Counts(q)' => run'[q].hash \in Fresh'
    BY <2>1, <2>3, <2>4, ContentsKept DEF AttemptOK
  <2> QED
    BY <1>2, <2>1, <2>2, <2>3, <2>4, <2>5, <2>6, <2>7 DEF AttemptOK
<1>6. ASSUME NEW c \in Coordinators PROVE GuardOK(c)'
  <2>1. GuardOK(c)
    BY DEF MirrorInv
  <2>2. pc[c] \in {"config", "claim", "preflight", "guard"} =>
          /\ run[c].guard \in 0 .. row.desired_revision + 1
          /\ run[c].guard < row.desired_revision + 1
    BY <2>1, <1>1 DEF GuardOK
  <2> QED
    BY <2>1, <2>2 DEF GuardOK
<1> QED
  BY <1>4, <1>5, <1>6 DEF MirrorInv, SettledInv

LEMMA EnvironmentKeepsMirror ==
  ASSUME "revert" \notin Faults, "cache_lag" \notin Faults,
         TypeOK, MirrorInv, Environment
  PROVE  MirrorInv'
<1>1. RowOK(row) /\ cache = config
  BY TypeParts DEF MirrorInv
<1>2. CASE CoreWrite
  <2>1. /\ row'.desired_revision = row.desired_revision + 1
        /\ row'.applied_revision = row.applied_revision
        /\ row'.last_remote_hash = row.last_remote_hash
    BY <1>1, <1>2 DEF CoreWrite, Bump, RowOK, RowType
  <2>2. data' \in {data, data + 1} \intersect (0 .. MaxData)
    BY <1>2 DEF CoreWrite
  <2> QED
    BY <1>1, <1>2, <2>1, <2>2, WriteKeepsMirror DEF CoreWrite
<1>3. CASE SaveSettings
  <2>1. /\ row'.desired_revision = row.desired_revision + 1
        /\ row'.applied_revision = row.applied_revision
        /\ row'.last_remote_hash = row.last_remote_hash
    BY <1>1, <1>3 DEF SaveSettings, Bump, BumpSettings, RowOK, RowType
  <2>2. cache' = config'
    BY <1>3 DEF SaveSettings
  <2> QED
    BY <1>3, <2>1, <2>2, WriteKeepsMirror DEF SaveSettings
<1>4. CASE UpdateCache
  BY <1>1, <1>4 DEF UpdateCache
<1>5. CASE Crash
  <2>1. \A q \in Procs :
           pc'[q] \notin Working /\ pc'[q] \notin {"config", "claim", "preflight", "guard"}
    BY <1>5 DEF Crash, Ended, Working
  <2>2. (\A q \in Procs : AttemptOK(q)') /\ \A c \in Coordinators : GuardOK(c)'
    BY <2>1, NoAttemptNext, NoGuardNext DEF Procs
  <2>3. SettledInv'
    BY <1>1, <1>5, ContentsKept DEF Crash, MirrorInv, SettledInv
  <2> QED
    BY <2>2, <2>3 DEF MirrorInv, SettledInv
<1> QED
  BY <1>2, <1>3, <1>4, <1>5 DEF Environment

-----------------------------------------------------------------------------
(* Steps every operation has.                                              *)

LEMMA ClaimKeepsMirror ==
  ASSUME TypeOK, MirrorInv, NEW p \in Procs, NEW next,
         \/ next = "preflight" /\ p \notin Syncs
         \/ next = "capture" /\ p \in Syncs,
         ClaimWins(p, next)
  PROVE  MirrorInv'
<1>1. /\ pc'[p] = next
      /\ \A q \in Procs : q # p => pc'[q] = pc[q] /\ run'[q] = run[q]
      /\ run' = run /\ config' = config
  BY OthersStay DEF ClaimWins, dbVars
<1>2. Shown(row') = Shown(row)
  BY TypeParts DEF ClaimWins, ClaimLease, Shown, RowOK, RowType
<1>3. AttemptOK(p)'
  BY <1>1, WorldAssumption DEF AttemptOK, HasTarget, HasContent
<1>4. p \in Coordinators => GuardOK(p)'
  BY <1>1, <1>2, ShownOfRow, WorldAssumption DEF ClaimWins, MirrorInv, GuardOK
<1> QED
  BY <1>1, <1>2, <1>3, <1>4, LobbyStep DEF ClaimWins

(* A step that ends an operation before it works, or starts it. *)
LEMMA LeaveKeepsMirror ==
  ASSUME TypeOK, MirrorInv, NEW p \in Procs,
         ClaimLoses(p) \/ (pc[p] = "request" /\ p \notin Coordinators
                           /\ Goto(p, "claim") /\ UNCHANGED run),
         UNCHANGED <<row, dbVars, file, remote>>
  PROVE  MirrorInv'
<1>1. /\ pc'[p] \notin Working
      /\ p \in Coordinators => pc'[p] = "idle"
      /\ \A q \in Procs : q # p => pc'[q] = pc[q] /\ run'[q] = run[q]
  BY OthersStay, FinishStay DEF ClaimLoses, Ended, Working
<1>2. AttemptOK(p)' /\ (p \in Coordinators => GuardOK(p)')
  BY <1>1, NoAttemptNext, NoGuardNext
<1> QED
  BY <1>1, <1>2, LobbyStep DEF Shown

(* The POST: Paisa loads the file, which is what this attempt published.   *)
LEMMA PostKeepsMirror ==
  ASSUME TypeOK, LeaseNamesWorker, MirrorInv, NEW p \in Procs, NEW next,
         \/ p \in Coordinators /\ next = "accepted" /\ PostAccepted(p, next)
         \/ p \in Coordinators /\ next = "fail" /\ PostFailed(p, next)
         \/ p \in Syncs /\ next = "finish"
              /\ (PostAccepted(p, next) \/ PostFailed(p, next))
  PROVE  MirrorInv'
<1>1. /\ AttemptOK(p) /\ pc[p] = "post" /\ p \in Coordinators \union Syncs
      /\ UNCHANGED <<row, dbVars, file>>
  BY DEF MirrorInv, PostAccepted, PostFailed
<1>2. HasContent(p) /\ file = run[p].hash
  BY <1>1 DEF AttemptOK, HasContent
<1>3. PICK outcome : /\ run' = [run EXCEPT ![p].outcome = outcome]
                     /\ remote' = file \/ (outcome = "failed" /\ next # "accepted")
  BY DEF PostAccepted, PostFailed
<1>4. /\ pc'[p] = next
      /\ \A q \in Procs : q # p => pc'[q] = pc[q]
  BY OthersStay DEF PostAccepted, PostFailed
<1>5. /\ run'[p] = [run[p] EXCEPT !.outcome = outcome]
      /\ \A q \in Procs : q # p => run'[q] = run[q]
      /\ run[p] \in RunType
  BY <1>3, TypeParts
<1>6. /\ run'[p].target = run[p].target
      /\ run'[p].hash = run[p].hash
      /\ run'[p].outcome = outcome
  BY <1>5 DEF RunType
<1>7. Fresh' = Fresh /\ Past' = Past /\ cache' = cache /\ config' = config /\ data' = data
  BY <1>1, ContentsKept DEF dbVars
<1>8. remote' \in {remote, run[p].hash}
  BY <1>2 DEF PostAccepted, PostFailed
<1>9. Counts(p) => run[p].hash \in Fresh
  BY <1>1, <1>2 DEF AttemptOK
<1>10. ~ Dirty(row) => Counts(p)
  BY <1>1, <1>2 DEF AttemptOK, Counts
<1>11. SettledInv'
  BY <1>1, <1>7, <1>8, <1>9, <1>10 DEF MirrorInv, SettledInv, Counts
<1>12. AttemptOK(p)'
  <2>1. HasContent(p)' => remote' = run[p].hash
    <3>1. outcome = "failed" /\ next # "accepted" => ~ HasContent(p)'
      BY <1>4, <1>6, WorldAssumption DEF HasContent, Diagnoses
    <3> QED
      BY <1>2, <1>3, <3>1
  <2>2. ~ HasTarget(p)'
    BY <1>4 DEF HasTarget
  <2>3. Counts(p)' <=> Counts(p)
    BY <1>1, <1>6, <1>7 DEF Counts
  <2> QED
    BY <1>1, <1>2, <1>4, <1>6, <1>7, <1>9, <2>1, <2>2, <2>3 DEF AttemptOK
<1>13. p \in Coordinators => GuardOK(p)'
  BY <1>4, NoGuardNext
<1> QED
  BY <1>1, <1>4, <1>5, <1>11, <1>12, <1>13, WorkerStep DEF Working

(* A worker that goes where nothing depends on its run. *)
QuietStages == {"release", "idle", "done", "diagnose", "fail"}

LEMMA QuietKeepsMirror ==
  ASSUME TypeOK, LeaseNamesWorker, MirrorInv, NEW p \in Procs, pc[p] \in Working,
         NEW to, to \in QuietStages \/ (p \in Generators /\ to \in {"generate", "finish"}),
         Goto(p, to), \A q \in Procs : q # p => run'[q] = run[q],
         UNCHANGED dbVars, row'.desired_revision = row.desired_revision, SettledInv'
  PROVE  MirrorInv'
<1>1. /\ pc'[p] = to
      /\ \A q \in Procs : q # p => pc'[q] = pc[q]
  BY OthersStay
<1>2. AttemptOK(p)' /\ (p \in Coordinators => GuardOK(p)')
  BY <1>1, WorldAssumption DEF QuietStages, AttemptOK, HasTarget, HasContent, GuardOK
<1> QED
  BY <1>1, <1>2, WorkerStep

LEMMA CleanupKeepsMirror ==
  ASSUME TypeOK, LeaseNamesWorker, MirrorInv, NEW p \in Procs,
         Interrupt(p) \/ Release(p)
  PROVE  MirrorInv'
<1>1. pc[p] \in Working
  BY DEF Interrupt, Release, Working
<1>2. Shown(row') = Shown(row) /\ row'.desired_revision = row.desired_revision
  BY TypeParts DEF Interrupt, Release, ReleaseLease, Shown, RowOK, RowType
<1>3. SettledInv'
  BY <1>2, SettledStays DEF Interrupt, Release
<1>4. CASE Interrupt(p)
  BY <1>1, <1>2, <1>3, <1>4, QuietKeepsMirror DEF Interrupt, QuietStages
<1>5. CASE Release(p)
  <2>1. Ended(p) \in QuietStages
    BY DEF Ended, QuietStages
  <2> QED
    BY <1>1, <1>2, <1>3, <1>5, <2>1, FinishStay, QuietKeepsMirror DEF Release, Finish
<1> QED
  BY <1>4, <1>5

(* The journal replaces the file: what was projected is fresh, unless a    *)
(* write came since the target was captured.                               *)
LEMMA PublishKeepsMirror ==
  ASSUME TypeOK, LeaseNamesWorker, MirrorInv, NEW p \in Coordinators \union Syncs,
         NEW next \in {"publish", "post"}, pc[p] = "generate", Publish(p, next)
  PROVE  MirrorInv'
<1>1. PICK content \in Projections(p) :
        /\ file' = content
        /\ run' = [run EXCEPT ![p].hash = content]
        /\ Goto(p, next)
        /\ UNCHANGED <<row, dbVars, remote, mishaps>>
  BY DEF Publish
<1>2. /\ p \in Procs
      /\ pc[p] \in Working
      /\ AttemptOK(p)
      /\ HasTarget(p)
  BY DEF Procs, Working, HasTarget, MirrorInv
<1>3. /\ pc'[p] = next
      /\ \A q \in Procs : q # p => pc'[q] = pc[q]
  BY <1>1, <1>2, OthersStay
<1>4. /\ run'[p].target = run[p].target
      /\ run'[p].hash = content
      /\ \A q \in Procs : q # p => run'[q] = run[q]
  BY <1>1, <1>2, TypeParts DEF RunType
<1>5. run[p].cfg \in ReadyConfigs /\ (Counts(p) => run[p].seen = data)
  BY <1>2 DEF AttemptOK
<1>6. Render(data, run[p].cfg) \in Fresh /\ Torn \in Past
  BY <1>5 DEF Fresh, Past
<1>7. content \in Past /\ (Counts(p) => content \in Fresh)
  BY <1>1, <1>5, <1>6, FreshIsPast DEF Projections
<1>8. Fresh' = Fresh /\ Past' = Past
  BY <1>1, ContentsKept DEF dbVars
<1>9. Counts(p)' <=> Counts(p)
  BY <1>1, <1>4, <1>8 DEF Counts
<1>10. AttemptOK(p)'
  BY <1>1, <1>2, <1>3, <1>4, <1>7, <1>8, <1>9
  DEF AttemptOK, HasTarget, HasContent
<1>11. p \in Coordinators => GuardOK(p)'
  BY <1>3, NoGuardNext
<1>12. SettledInv'
  BY <1>1, SettledStays
<1> QED
  BY <1>1, <1>2, <1>3, <1>4, <1>10, <1>11, <1>12, WorkerStep

-----------------------------------------------------------------------------
(* What the completion primitives make of the three columns.               *)

LEMMA ApplyShows ==
  ASSUME NEW r, RowOK(r), NEW target \in 0 .. r.desired_revision
  PROVE  LET a == ApplyCaughtUp(r, target)
         IN  /\ a.desired_revision = r.desired_revision
             /\ a.last_remote_hash = r.last_remote_hash
             /\ ~ Dirty(a) => target = r.desired_revision
<1> DEFINE a == ApplyCaughtUp(r, target)
<1>1. /\ r.desired_revision \in Nat
      /\ target \in Nat
      /\ target <= r.desired_revision
  BY WorldAssumption DEF RowOK, RowType
<1>2. /\ a.desired_revision = r.desired_revision
      /\ a.last_remote_hash = r.last_remote_hash
  BY DEF ApplyCaughtUp, RowOK, RowType
<1>3. ASSUME target # r.desired_revision PROVE a.applied_revision = target
  <2>1. ~ (target >= r.desired_revision)
    BY <1>1, <1>3
  <2> QED
    BY <2>1 DEF ApplyCaughtUp, RowOK, RowType
<1> HIDE DEF a
<1>4. ~ Dirty(a) => target = r.desired_revision
  BY <1>1, <1>2, <1>3 DEF Dirty
<1> QED
  BY <1>2, <1>4 DEF a

LEMMA AcceptedShows ==
  ASSUME NEW r, RowOK(r), NEW target \in 0 .. r.desired_revision, NEW hash
  PROVE  LET a == RecordAcceptedPost(r, target, hash, Stamp)
         IN  /\ a.desired_revision = r.desired_revision
             /\ a.last_remote_hash = hash
             /\ ~ Dirty(a) => target = r.desired_revision
<1> DEFINE b == ApplyCaughtUp(r, target)
           a == RecordAcceptedPost(r, target, hash, Stamp)
<1>1. target \in 0 .. MaxRevision
  BY WorldAssumption DEF RowOK, RowType
<1>2. RowOK(b)
  BY <1>1, ApplyOK
<1>3. /\ b.desired_revision = r.desired_revision
      /\ ~ Dirty(b) => target = r.desired_revision
  BY ApplyShows
<1>4. a = [b EXCEPT !.last_remote_hash       = hash,
                    !.last_remote_attempt_at = Stamp,
                    !.failure_count          = 0,
                    !.next_attempt_at        = Null]
  BY DEF RecordAcceptedPost
<1> HIDE DEF a, b
<1>5. /\ a.desired_revision = b.desired_revision
      /\ a.applied_revision = b.applied_revision
      /\ a.last_remote_hash = hash
  BY <1>2, <1>4 DEF RowOK, RowType
<1> QED
  BY <1>3, <1>5 DEF Dirty, a

LEMMA RetryShows ==
  ASSUME NEW r, RowOK(r), NEW state, NEW p
  PROVE  /\ Shown(RecordPrePostFailure(r, Stamp)) = Shown(r)
         /\ Shown(RecordDiagnosis(r, state, Stamp)) = Shown(r)
         /\ Shown(ReleaseLease(r, p)) = Shown(r)
<1>1. Shown(RecordPrePostFailure(r, Stamp)) = Shown(r)
  BY DEF RecordPrePostFailure, Shown, RowOK, RowType
<1>2. Shown(ReleaseLease(r, p)) = Shown(r)
  BY DEF ReleaseLease, Shown, RowOK, RowType
<1>3. CASE state = "fatal"
  <2>1. Shown(RecordDiagnosis(r, state, Stamp)) = Shown(r)
    BY <1>3 DEF RecordDiagnosis, Shown, RowOK, RowType
  <2> QED
    BY <1>1, <1>2, <2>1
<1>4. CASE state \in {"healthy", "accepted"}
  <2>1. Shown(RecordDiagnosis(r, state, Stamp)) = Shown(r)
    BY <1>4 DEF RecordDiagnosis, Shown, RowOK, RowType
  <2> QED
    BY <1>1, <1>2, <2>1
<1>5. CASE state \notin {"fatal", "healthy", "accepted"}
  <2>1. Shown(RecordDiagnosis(r, state, Stamp)) = Shown(r)
    BY <1>5 DEF RecordDiagnosis
  <2> QED
    BY <1>1, <1>2, <2>1
<1> QED
  BY <1>3, <1>4, <1>5

(* A report of an attempt whose content Paisa shows. *)
LEMMA ReportSettles ==
  ASSUME TypeOK, MirrorInv, NEW p \in Procs, HasContent(p),
         UNCHANGED <<dbVars, remote>>, remote = run[p].hash,
         row'.last_remote_hash = run[p].hash,
         ~ Dirty(row') => run[p].target = row.desired_revision
  PROVE  SettledInv'
<1>1. Fresh' = Fresh /\ Past' = Past
  BY ContentsKept DEF dbVars
<1>2. AttemptOK(p)
  BY DEF MirrorInv
<1>3. run[p].hash \in Past /\ (Counts(p) => run[p].hash \in Fresh)
  BY <1>2 DEF AttemptOK
<1> QED
  BY <1>1, <1>3 DEF MirrorInv, SettledInv, Counts, dbVars

-----------------------------------------------------------------------------
(* The coordinator.                                                        *)

LEMMA TickKeepsMirror ==
  ASSUME TypeOK, MirrorInv, NEW c \in Coordinators, ReadSnapshot(c) \/ LoadConfig(c)
  PROVE  MirrorInv'
<1>1. c \in Procs /\ GuardOK(c) /\ cache = config
  BY DEF Procs, MirrorInv
<1>2. CASE ReadSnapshot(c)
  <2>1. /\ pc'[c] = "config"
        /\ \A q \in Procs : q # c => pc'[q] = pc[q]
    BY <1>1, <1>2, OthersStay DEF ReadSnapshot
  <2>2. /\ run'[c].guard = row.desired_revision
        /\ \A q \in Procs : q # c => run'[q] = run[q]
    BY <1>1, <1>2, TypeParts DEF ReadSnapshot, RunType
  <2>3. row.desired_revision \in Nat /\ row' = row
    BY <1>2, TypeParts, WorldAssumption DEF ReadSnapshot, RowOK, RowType
  <2>4. AttemptOK(c)' /\ GuardOK(c)'
    BY <2>1, <2>2, <2>3, NoAttemptNext DEF GuardOK, Working
  <2> QED
    BY <1>1, <1>2, <2>1, <2>2, <2>3, <2>4, LobbyStep DEF ReadSnapshot
<1>3. CASE LoadConfig(c) /\ cache \in ProjectConfigs \intersect AutoConfigs
  <2>1. /\ pc[c] = "config"
        /\ pc'[c] = "claim"
        /\ \A q \in Procs : q # c => pc'[q] = pc[q]
    BY <1>1, <1>3, OthersStay DEF LoadConfig
  <2>2. /\ run'[c].guard = run[c].guard
        /\ run'[c].cfg = config
        /\ \A q \in Procs : q # c => run'[q] = run[q]
    BY <1>1, <1>3, TypeParts DEF LoadConfig, RunType
  <2>3. row' = row /\ config' = config
    BY <1>3 DEF LoadConfig, dbVars
  <2>4. AttemptOK(c)' /\ GuardOK(c)'
    BY <1>1, <2>1, <2>2, <2>3, NoAttemptNext DEF GuardOK, Working
  <2> QED
    BY <1>1, <1>3, <2>1, <2>2, <2>3, <2>4, LobbyStep DEF LoadConfig
<1>4. CASE LoadConfig(c) /\ cache \notin ProjectConfigs \intersect AutoConfigs
  <2>1. /\ pc'[c] = "idle"
        /\ \A q \in Procs : q # c => pc'[q] = pc[q] /\ run'[q] = run[q]
    BY <1>1, <1>4, FinishStay DEF LoadConfig, Ended
  <2>2. AttemptOK(c)' /\ GuardOK(c)'
    BY <2>1, NoAttemptNext, NoGuardNext DEF Working
  <2> QED
    BY <1>1, <1>4, <2>1, <2>2, LobbyStep DEF LoadConfig
<1> QED
  BY <1>2, <1>3, <1>4

LEMMA PreflightKeepsMirror ==
  ASSUME TypeOK, LeaseNamesWorker, MirrorInv, NEW c \in Coordinators, Preflight(c)
  PROVE  MirrorInv'
<1>1. /\ c \in Procs
      /\ pc[c] = "preflight"
      /\ GuardOK(c)
      /\ UNCHANGED <<row, dbVars, file, remote, run>>
  BY DEF Procs, MirrorInv, Preflight
<1>2. SettledInv'
  BY <1>1, SettledStays
<1>3. CASE Goto(c, "fail")
  BY <1>1, <1>2, <1>3, QuietKeepsMirror DEF QuietStages, Working
<1>4. CASE run[c].cfg \notin ReadyConfigs /\ Goto(c, "guard")
  <2>1. /\ pc'[c] = "guard"
        /\ \A q \in Procs : q # c => pc'[q] = pc[q]
    BY <1>1, <1>4, OthersStay
  <2>2. AttemptOK(c)' /\ GuardOK(c)'
    BY <1>1, <1>4, <2>1, WorldAssumption
    DEF AttemptOK, HasTarget, HasContent, GuardOK, dbVars
  <2> QED
    BY <1>1, <1>2, <2>1, <2>2, WorkerStep DEF Working
<1>5. CASE run[c].cfg \in ReadyConfigs /\ Goto(c, "capture")
  <2>1. /\ pc'[c] = "capture"
        /\ \A q \in Procs : q # c => pc'[q] = pc[q]
    BY <1>1, <1>5, OthersStay
  <2>2. AttemptOK(c)' /\ GuardOK(c)'
    BY <1>1, <1>5, <2>1, WorldAssumption DEF AttemptOK, HasTarget, HasContent, GuardOK
  <2> QED
    BY <1>1, <1>2, <2>1, <2>2, WorkerStep DEF Working
<1> QED
  BY <1>3, <1>4, <1>5 DEF Preflight

(* The target is captured with the data it covers, by either operation.    *)
LEMMA CaptureKeepsMirror ==
  ASSUME TypeOK, LeaseNamesWorker, MirrorInv, NEW p \in Coordinators \union Syncs,
         \/ p \in Coordinators /\ CaptureTarget(p)
         \/ p \in Syncs /\ SyncCapture(p)
  PROVE  MirrorInv'
<1> DEFINE next == IF p \in Coordinators THEN "generate" ELSE "preflight"
<1>1. /\ p \in Procs
      /\ pc[p] = "capture"
      /\ AttemptOK(p)
      /\ run' = [run EXCEPT ![p].target = row.desired_revision, ![p].seen = data]
      /\ Goto(p, next)
      /\ UNCHANGED <<row, dbVars, file, remote>>
  BY WorldAssumption DEF Procs, MirrorInv, CaptureTarget, SyncCapture
<1>2. /\ pc'[p] = next
      /\ \A q \in Procs : q # p => pc'[q] = pc[q]
  BY <1>1, OthersStay
<1>3. /\ run'[p].target = row.desired_revision
      /\ run'[p].seen = data
      /\ run'[p].cfg = run[p].cfg
      /\ \A q \in Procs : q # p => run'[q] = run[q]
  BY <1>1, TypeParts DEF RunType
<1>4. row.desired_revision \in Nat /\ row' = row /\ data' = data
  BY <1>1, TypeParts, WorldAssumption DEF RowOK, RowType, dbVars
<1>5. p \in Coordinators => run[p].cfg \in ReadyConfigs
  BY <1>1 DEF AttemptOK
<1>6. AttemptOK(p)'
  BY <1>2, <1>3, <1>4, <1>5, WorldAssumption DEF AttemptOK, HasTarget, HasContent
<1>7. p \in Coordinators => GuardOK(p)'
  BY <1>2, NoGuardNext
<1>8. SettledInv'
  BY <1>1, SettledStays
<1> QED
  BY <1>1, <1>2, <1>3, <1>4, <1>6, <1>7, <1>8, WorkerStep DEF Working

(* On the way from the file to the decision nothing of the attempt moves.  *)
LEMMA DecideKeepsMirror ==
  ASSUME TypeOK, LeaseNamesWorker, MirrorInv, NEW c \in Coordinators,
         RecordPublished(c) \/ DecideRemote(c)
  PROVE  MirrorInv'
<1>1. /\ c \in Procs
      /\ AttemptOK(c)
      /\ pc[c] \in {"publish", "decide"}
      /\ HasContent(c)
      /\ UNCHANGED <<dbVars, file, remote, run>>
      /\ row' = row
  BY DEF Procs, MirrorInv, RecordPublished, DecideRemote, Record, HasContent
<1>2. SettledInv'
  BY <1>1, SettledStays
<1>3. PICK to \in {"decide", "noop", "post", "release"} :
        /\ Goto(c, to)
        /\ to = "noop" => row.last_remote_hash = run[c].hash
  BY DEF RecordPublished, DecideRemote, Record, ShouldSkipRemotePost
<1>4. CASE to = "release"
  BY <1>1, <1>2, <1>3, <1>4, QuietKeepsMirror DEF QuietStages, Working
<1>5. CASE to # "release"
  <2>1. /\ pc'[c] = to
        /\ \A q \in Procs : q # c => pc'[q] = pc[q]
    BY <1>1, <1>3, OthersStay
  <2>2. Fresh' = Fresh /\ Past' = Past
    BY <1>1, ContentsKept DEF dbVars
  <2>3. (Counts(c)' <=> Counts(c)) /\ HasContent(c)' /\ ~ HasTarget(c)'
    BY <1>1, <1>3, <1>5, <2>1, <2>2 DEF Counts, HasContent, HasTarget
  <2>4. AttemptOK(c)'
    BY <1>1, <1>3, <1>5, <2>1, <2>2, <2>3 DEF AttemptOK
  <2>5. GuardOK(c)'
    BY <1>3, <2>1, NoGuardNext
  <2> QED
    BY <1>1, <1>2, <2>1, <2>4, <2>5, WorkerStep DEF Working
<1> QED
  BY <1>4, <1>5

(* A completion that commits, or finds its token stale. *)
LEMMA RecordKeepsMirror ==
  ASSUME TypeOK, LeaseNamesWorker, MirrorInv, NEW c \in Coordinators,
         NEW at \in Working, NEW newRow, NEW next \in QuietStages,
         Record(c, at, newRow, next),
         newRow.desired_revision = row.desired_revision,
         row' = newRow => SettledInv'
  PROVE  MirrorInv'
<1>1. c \in Procs /\ pc[c] \in Working
  BY DEF Procs, Record
<1>2. PICK to \in QuietStages : Goto(c, to)
  BY DEF Record, QuietStages
<1>3. row' = row => SettledInv'
  BY SettledStays DEF Record
<1> QED
  BY <1>1, <1>2, <1>3, QuietKeepsMirror DEF Record

LEMMA CompletionKeepsMirror ==
  ASSUME TypeOK, LeaseNamesWorker, MirrorInv, NEW c \in Coordinators,
         \/ RecordGuard(c) \/ RecordNoop(c) \/ RecordAccepted(c)
         \/ RecordQuality(c) \/ RecordFailure(c)
  PROVE  MirrorInv'
<1>1. /\ c \in Procs
      /\ RowOK(row)
      /\ AttemptOK(c)
      /\ GuardOK(c)
      /\ UNCHANGED <<dbVars, file, remote, run>>
  BY TypeParts
  DEF Procs, MirrorInv, RecordGuard, RecordNoop, RecordAccepted, RecordQuality,
      RecordFailure, Record
<1> USE DEF QuietStages, Working
<1>2. CASE RecordGuard(c)
  <2> DEFINE r == ApplyCaughtUp(row, run[c].guard)
  <2>1. /\ Record(c, "guard", r, "release")
        /\ pc[c] = "guard"
    BY <1>2 DEF RecordGuard, RecordGuardCaughtUp, Record
  <2>2. /\ run[c].guard \in 0 .. row.desired_revision
        /\ run[c].guard < row.desired_revision \/ config \notin ReadyConfigs
    BY <1>1, <2>1 DEF GuardOK
  <2>3. /\ r.desired_revision = row.desired_revision
        /\ r.last_remote_hash = row.last_remote_hash
        /\ ~ Dirty(r) => run[c].guard = row.desired_revision
    BY <1>1, <2>2, ApplyShows
  <2> HIDE DEF r
  <2>4. ~ Dirty(r) => config \notin ReadyConfigs
    <3>1. row.desired_revision \in Nat
      BY <1>1 DEF RowOK, RowType
    <3> QED
      BY <2>2, <2>3, <3>1
  <2>5. row' = r => SettledInv'
    BY <1>1, <2>3, <2>4, ContentsKept DEF MirrorInv, SettledInv, dbVars
  <2> QED
    BY <2>1, <2>3, <2>5, RecordKeepsMirror
<1>3. CASE RecordNoop(c)
  <2> DEFINE r == ApplyCaughtUp(row, run[c].target)
  <2>1. Record(c, "noop", r, "release") /\ pc[c] = "noop"
    BY <1>3 DEF RecordNoop, RecordHashNoop, Record
  <2>2. HasContent(c)
    BY <2>1 DEF HasContent
  <2>3. /\ run[c].target \in 0 .. row.desired_revision
        /\ row.last_remote_hash = run[c].hash
        /\ Counts(c) => run[c].hash \in Fresh
    BY <1>1, <2>1, <2>2 DEF AttemptOK
  <2>4. /\ r.desired_revision = row.desired_revision
        /\ r.last_remote_hash = row.last_remote_hash
        /\ ~ Dirty(r) => Counts(c)
    BY <1>1, <2>3, ApplyShows DEF Counts
  <2> HIDE DEF r
  <2>5. row' = r => SettledInv'
    BY <1>1, <2>3, <2>4, ContentsKept DEF MirrorInv, SettledInv, dbVars
  <2> QED
    BY <2>1, <2>4, <2>5, RecordKeepsMirror
<1>4. CASE RecordAccepted(c)
  <2> DEFINE r == RecordAcceptedPost(row, run[c].target, run[c].hash, Stamp)
  <2>1. Record(c, "accepted", r, "diagnose") /\ pc[c] = "accepted"
    BY <1>4 DEF RecordAccepted, Record
  <2>2. HasContent(c)
    BY <2>1 DEF HasContent
  <2>3. run[c].target \in 0 .. row.desired_revision /\ remote = run[c].hash
    BY <1>1, <2>1, <2>2 DEF AttemptOK
  <2>4. /\ r.desired_revision = row.desired_revision
        /\ r.last_remote_hash = run[c].hash
        /\ ~ Dirty(r) => run[c].target = row.desired_revision
    BY <1>1, <2>3, AcceptedShows
  <2> HIDE DEF r
  <2>5. row' = r => SettledInv'
    BY <1>1, <2>2, <2>3, <2>4, ReportSettles
  <2> QED
    BY <2>1, <2>4, <2>5, RecordKeepsMirror
<1>5. CASE RecordQuality(c)
  <2> DEFINE r == RecordDiagnosis(row, run[c].outcome, Stamp)
  <2>1. Record(c, "diagnose", r, "release")
    BY <1>5 DEF RecordQuality
  <2>2. Shown(r) = Shown(row)
    BY <1>1, RetryShows
  <2> HIDE DEF r
  <2>3. r.desired_revision = row.desired_revision /\ (row' = r => SettledInv')
    BY <1>1, <2>2, ShownOfRow, SettledStays
  <2> QED
    BY <2>1, <2>3, RecordKeepsMirror
<1>6. CASE RecordFailure(c)
  <2> DEFINE r == RecordPrePostFailure(row, Stamp)
  <2>1. Record(c, "fail", r, "release")
    BY <1>6 DEF RecordFailure
  <2>2. Shown(r) = Shown(row)
    BY <1>1, RetryShows
  <2> HIDE DEF r
  <2>3. r.desired_revision = row.desired_revision /\ (row' = r => SettledInv')
    BY <1>1, <2>2, ShownOfRow, SettledStays
  <2> QED
    BY <2>1, <2>3, RecordKeepsMirror
<1> QED
  BY <1>2, <1>3, <1>4, <1>5, <1>6

LEMMA CoordinatorKeepsMirror ==
  ASSUME TypeOK, LeaseNamesWorker, MirrorInv, NEW c \in Coordinators,
         CoordinatorStep(c)
  PROVE  MirrorInv'
<1>1. c \in Procs /\ c \in Coordinators \union Syncs /\ c \notin Syncs
  BY WorldAssumption DEF Procs
<1>2. CASE ReadSnapshot(c) \/ LoadConfig(c)
  BY <1>2, TickKeepsMirror
<1>3. CASE ClaimWins(c, "preflight")
  BY <1>1, <1>3, ClaimKeepsMirror
<1>4. CASE ClaimLoses(c)
  BY <1>1, <1>4, LeaveKeepsMirror DEF ClaimLoses
<1>5. CASE Preflight(c)
  BY <1>5, PreflightKeepsMirror
<1>6. CASE CaptureTarget(c)
  BY <1>1, <1>6, CaptureKeepsMirror
<1>7. CASE Generate(c)
  <2>1. CASE Publish(c, "publish")
    BY <1>1, <1>7, <2>1, PublishKeepsMirror DEF Generate
  <2>2. CASE Goto(c, "fail") /\ UNCHANGED <<row, dbVars, file, remote, run>>
    <3>1. SettledInv'
      BY <2>2, SettledStays
    <3> QED
      BY <1>1, <1>7, <2>2, <3>1, QuietKeepsMirror DEF Generate, QuietStages, Working
  <2> QED
    BY <1>7, <2>1, <2>2 DEF Generate
<1>8. CASE RecordPublished(c) \/ DecideRemote(c)
  BY <1>8, DecideKeepsMirror
<1>9. CASE PostAccepted(c, "accepted") \/ PostFailed(c, "fail")
  <2>1. CASE PostAccepted(c, "accepted")
    BY <1>1, <2>1, PostKeepsMirror
  <2>2. CASE PostFailed(c, "fail")
    BY <1>1, <2>2, PostKeepsMirror
  <2> QED
    BY <1>9, <2>1, <2>2
<1>10. CASE \/ RecordGuard(c) \/ RecordNoop(c) \/ RecordAccepted(c)
            \/ RecordQuality(c) \/ RecordFailure(c)
  BY <1>10, CompletionKeepsMirror
<1>11. CASE Interrupt(c) \/ Release(c)
  BY <1>1, <1>11, CleanupKeepsMirror
<1> QED
  BY <1>2, <1>3, <1>4, <1>5, <1>6, <1>7, <1>8, <1>9, <1>10, <1>11 DEF CoordinatorStep

-----------------------------------------------------------------------------
(* The manual operations.                                                  *)

(* A manual sync loads the config after it captured its target. *)
LEMMA SyncPreflightKeepsMirror ==
  ASSUME TypeOK, LeaseNamesWorker, MirrorInv, NEW m \in Syncs, SyncPreflight(m)
  PROVE  MirrorInv'
<1>1. /\ m \in Procs
      /\ m \notin Coordinators
      /\ pc[m] = "preflight"
      /\ HasTarget(m)
      /\ AttemptOK(m)
      /\ UNCHANGED <<row, dbVars, file, remote>>
  BY WorldAssumption DEF Procs, MirrorInv, SyncPreflight, HasTarget
<1>2. SettledInv'
  BY <1>1, SettledStays
<1>3. CASE /\ cache \in ReadyConfigs
           /\ run' = [run EXCEPT ![m].cfg = cache]
           /\ Goto(m, "generate")
  <2>1. /\ pc'[m] = "generate"
        /\ \A q \in Procs : q # m => pc'[q] = pc[q]
    BY <1>1, <1>3, OthersStay
  <2>2. /\ run'[m].target = run[m].target
        /\ run'[m].seen = run[m].seen
        /\ run'[m].cfg = cache
        /\ \A q \in Procs : q # m => run'[q] = run[q]
    BY <1>1, <1>3, TypeParts DEF RunType
  <2>3. Fresh' = Fresh /\ data' = data /\ row' = row
    BY <1>1, ContentsKept DEF dbVars
  <2>4. HasTarget(m)' /\ ~ HasContent(m)' /\ (Counts(m)' <=> Counts(m))
    BY <2>1, <2>2, <2>3 DEF HasTarget, HasContent, Counts
  <2>5. AttemptOK(m)'
    BY <1>1, <1>3, <2>1, <2>2, <2>3, <2>4 DEF AttemptOK
  <2> QED
    BY <1>1, <1>2, <2>1, <2>2, <2>5, WorkerStep DEF Working
<1>4. CASE /\ Goto(m, "finish")
           /\ \/ run' = [run EXCEPT ![m].outcome = "guard"]
              \/ run' = [run EXCEPT ![m].outcome = "failed"]
  <2>1. /\ pc'[m] = "finish"
        /\ \A q \in Procs : q # m => pc'[q] = pc[q]
    BY <1>1, <1>4, OthersStay
  <2>2. /\ run'[m].outcome \in {"guard", "failed"}
        /\ \A q \in Procs : q # m => run'[q] = run[q]
    BY <1>1, <1>4, TypeParts DEF RunType
  <2>3. AttemptOK(m)'
    BY <1>1, <2>1, <2>2 DEF AttemptOK, HasTarget, HasContent, Diagnoses
  <2> QED
    BY <1>1, <1>2, <2>1, <2>2, <2>3, WorkerStep DEF Working
<1> QED
  BY <1>3, <1>4 DEF SyncPreflight

LEMMA SyncGenerateKeepsMirror ==
  ASSUME TypeOK, LeaseNamesWorker, MirrorInv, NEW m \in Syncs, SyncGenerate(m)
  PROVE  MirrorInv'
<1>1. CASE Publish(m, "post")
  BY <1>1, PublishKeepsMirror DEF SyncGenerate
<1>2. CASE /\ run' = [run EXCEPT ![m].outcome = "failed"]
           /\ Goto(m, "finish")
           /\ UNCHANGED <<row, dbVars, file, remote>>
  <2>1. /\ m \in Procs
        /\ m \notin Coordinators
        /\ pc[m] \in Working
    BY WorldAssumption DEF Procs, SyncGenerate, Working
  <2>2. SettledInv'
    BY <1>2, SettledStays
  <2>3. /\ pc'[m] = "finish"
        /\ \A q \in Procs : q # m => pc'[q] = pc[q]
    BY <1>2, <2>1, OthersStay
  <2>4. /\ run'[m].outcome = "failed"
        /\ \A q \in Procs : q # m => run'[q] = run[q]
    BY <1>2, <2>1, TypeParts DEF RunType
  <2>5. AttemptOK(m)'
    BY <2>1, <2>3, <2>4 DEF AttemptOK, HasTarget, HasContent, Diagnoses
  <2> QED
    BY <1>2, <2>1, <2>2, <2>3, <2>4, <2>5, WorkerStep
<1> QED
  BY <1>1, <1>2 DEF SyncGenerate

LEMMA SyncFinishKeepsMirror ==
  ASSUME TypeOK, LeaseNamesWorker, MirrorInv, NEW m \in Syncs, SyncFinish(m)
  PROVE  MirrorInv'
<1> DEFINE r == run[m]
           accepted == RecordAcceptedPost(row, r.target, r.hash, Stamp)
           diagnosed == RecordDiagnosis(accepted, r.outcome, Stamp)
<1>1. /\ m \in Procs
      /\ m \notin Coordinators
      /\ pc[m] = "finish"
      /\ RowOK(row)
      /\ r \in RunType
      /\ AttemptOK(m)
      /\ UNCHANGED <<dbVars, file, remote>>
      /\ pc[m] \in Working
  BY TypeParts, WorldAssumption DEF Procs, SyncFinish, MirrorInv, Working
<1>2. RowOK(ManualSyncState(m))
  BY <1>1, ManualRowOK
<1>3. Shown(row') = Shown(row) \/ Shown(row') = Shown(ManualSyncState(m))
  BY <1>1, <1>2, RetryShows DEF SyncFinish
<1>4. \/ /\ HasContent(m)
         /\ ManualSyncState(m) = diagnosed
      \/ Shown(ManualSyncState(m)) = Shown(row)
  <2>1. CASE r.outcome \notin {"guard", "failed"}
    BY <1>1, <2>1 DEF HasContent, ManualSyncState
  <2>2. CASE r.outcome = "guard"
    BY <2>2 DEF ManualSyncState
  <2>3. CASE r.outcome = "failed"
    BY <1>1, <2>3, RetryShows DEF ManualSyncState
  <2> QED
    BY <2>1, <2>2, <2>3
<1>5. row'.desired_revision = row.desired_revision /\ SettledInv'
  <2>1. CASE Shown(row') = Shown(row)
    BY <1>1, <2>1, ShownOfRow, SettledStays
  <2>2. CASE /\ Shown(row') = Shown(diagnosed)
             /\ HasContent(m)
    <3>1. /\ r.target \in 0 .. row.desired_revision
          /\ r.target \in 0 .. MaxRevision
          /\ r.hash \in Contents \union {Null}
          /\ remote = r.hash
      BY <1>1, <2>2 DEF AttemptOK, RunType
    <3>2. /\ RowOK(accepted)
          /\ accepted.desired_revision = row.desired_revision
          /\ accepted.last_remote_hash = r.hash
          /\ ~ Dirty(accepted) => r.target = row.desired_revision
      BY <1>1, <3>1, AcceptedOK, AcceptedShows
    <3> HIDE DEF accepted
    <3>3. Shown(row') = Shown(accepted)
      BY <2>2, <3>2, RetryShows
    <3>4. /\ row'.desired_revision = row.desired_revision
          /\ row'.last_remote_hash = r.hash
          /\ ~ Dirty(row') => r.target = row.desired_revision
      BY <3>2, <3>3, ShownOfRow
    <3> QED
      BY <1>1, <2>2, <3>1, <3>4, ReportSettles
  <2> QED
    BY <1>3, <1>4, <2>1, <2>2
<1>6. pc'[m] = "done" /\ Goto(m, "done") /\ \A q \in Procs : q # m => run'[q] = run[q]
  BY <1>1, FinishStay DEF SyncFinish, Finish, Ended
<1> QED
  BY <1>1, <1>5, <1>6, QuietKeepsMirror DEF QuietStages

LEMMA SyncKeepsMirror ==
  ASSUME TypeOK, LeaseNamesWorker, MirrorInv, NEW m \in Syncs, SyncStep(m)
  PROVE  MirrorInv'
<1>1. m \in Procs /\ m \in Coordinators \union Syncs /\ m \notin Coordinators
  BY WorldAssumption DEF Procs
<1>2. CASE Request(m) \/ ClaimLoses(m)
  BY <1>1, <1>2, LeaveKeepsMirror DEF Request, ClaimLoses
<1>3. CASE ClaimWins(m, "capture")
  BY <1>1, <1>3, ClaimKeepsMirror
<1>4. CASE SyncCapture(m)
  BY <1>1, <1>4, CaptureKeepsMirror
<1>5. CASE SyncPreflight(m)
  BY <1>5, SyncPreflightKeepsMirror
<1>6. CASE SyncGenerate(m)
  BY <1>6, SyncGenerateKeepsMirror
<1>7. CASE PostAccepted(m, "finish") \/ PostFailed(m, "finish")
  BY <1>1, <1>7, PostKeepsMirror
<1>8. CASE SyncFinish(m)
  BY <1>8, SyncFinishKeepsMirror
<1>9. CASE Interrupt(m) \/ Release(m)
  BY <1>1, <1>9, CleanupKeepsMirror
<1> QED
  BY <1>2, <1>3, <1>4, <1>5, <1>6, <1>7, <1>8, <1>9 DEF SyncStep

(* A manual generate touches the file only while it holds the lease. *)
LEMMA GeneratorKeepsMirror ==
  ASSUME TypeOK, LeaseNamesWorker, MirrorInv, NEW g \in Generators, GenerateStep(g)
  PROVE  MirrorInv'
<1>1. /\ g \in Procs
      /\ g \notin Coordinators
      /\ g \notin Syncs
      /\ run \in [Procs -> RunType]
      /\ RowOK(row)
  BY TypeParts, WorldAssumption DEF Procs
<1>2. CASE Request(g) \/ ClaimLoses(g)
  BY <1>1, <1>2, LeaveKeepsMirror DEF Request, ClaimLoses
<1>3. CASE ClaimWins(g, "preflight")
  BY <1>1, <1>3, ClaimKeepsMirror
<1>4. CASE GenerateLoad(g) \/ GenerateFile(g)
  <2>1. /\ pc[g] \in Working
        /\ \A q \in Procs : q # g => run'[q] = run[q]
        /\ UNCHANGED <<row, dbVars, remote>>
    BY <1>1, <1>4 DEF GenerateLoad, GenerateFile, Publish, Working
  <2>2. PICK to \in {"generate", "finish"} : Goto(g, to)
    BY <1>4 DEF GenerateLoad, GenerateFile, Publish
  <2>3. SettledInv'
    BY <2>1, SettledStays
  <2> QED
    BY <1>1, <2>1, <2>2, <2>3, QuietKeepsMirror
<1>5. CASE GenerateFinish(g)
  <2>1. Shown(row') = Shown(row)
    BY <1>1, <1>5, RetryShows DEF GenerateFinish
  <2>2. row'.desired_revision = row.desired_revision /\ SettledInv'
    BY <1>5, <2>1, ShownOfRow, SettledStays DEF GenerateFinish
  <2>3. /\ Goto(g, "done")
        /\ \A q \in Procs : q # g => run'[q] = run[q]
    BY <1>1, <1>5, FinishStay DEF GenerateFinish, Finish, Ended
  <2> QED
    BY <1>1, <1>5, <2>2, <2>3, QuietKeepsMirror DEF GenerateFinish, QuietStages, Working
<1>6. CASE Interrupt(g) \/ Release(g)
  BY <1>1, <1>6, CleanupKeepsMirror
<1> QED
  BY <1>2, <1>3, <1>4, <1>5, <1>6 DEF GenerateStep

-----------------------------------------------------------------------------
(* The whole of auto sync.                                                 *)

LEMMA MirrorInductive ==
  ASSUME "revert" \notin Faults, "cache_lag" \notin Faults,
         TypeOK, LeaseNamesWorker, MirrorInv, [Next]_vars
  PROVE  MirrorInv'
<1>1. CASE Environment
  BY <1>1, EnvironmentKeepsMirror
<1>2. ASSUME NEW c \in Coordinators, CoordinatorStep(c) PROVE MirrorInv'
  BY <1>2, CoordinatorKeepsMirror
<1>3. ASSUME NEW m \in Syncs, SyncStep(m) PROVE MirrorInv'
  BY <1>3, SyncKeepsMirror
<1>4. ASSUME NEW g \in Generators, GenerateStep(g) PROVE MirrorInv'
  BY <1>4, GeneratorKeepsMirror
<1>5. CASE UNCHANGED vars
  <2>1. \A p \in Procs : AttemptOK(p)' /\ (GuardOK(p) => GuardOK(p)')
    BY <1>5, StandStill DEF vars, MirrorInv
  <2>2. SettledInv'
    BY <1>5, SettledStays DEF vars, dbVars
  <2> QED
    BY <2>1, <2>2 DEF MirrorInv, SettledInv, Procs
<1> QED
  BY <1>1, <1>2, <1>3, <1>4, <1>5 DEF Next

LEMMA MirrorInitially == Init => MirrorInv
<1> SUFFICES ASSUME Init PROVE MirrorInv
  OBVIOUS
<1>1. /\ cache = config
      /\ row.last_remote_hash = Null
      /\ Dirty(row)
  BY DEF Init, WorldInit, Seed, Dirty
<1>2. Null \in Past /\ Null \notin Fresh
  <2>1. data \in 0 .. MaxData
    BY WorldAssumption DEF Init, WorldInit
  <2>2. \A c \in ReadyConfigs : Render(data, c) \in Contents
    BY <2>1, WorldAssumption DEF Render, Contents, Layouts
  <2> QED
    BY <2>2, ContentAssumption DEF Past, Fresh
<1>3. \A p \in Procs : pc[p] \in {"idle", "request"}
  BY DEF Init, WorldInit, Started
<1>4. \A p \in Procs : AttemptOK(p)
  BY <1>3, NoAttemptYet DEF Working
<1>5. \A c \in Coordinators : GuardOK(c)
  BY <1>3 DEF GuardOK, Procs
<1> QED
  BY <1>1, <1>2, <1>4, <1>5 DEF MirrorInv

(* No data is ever lost: whatever raced, crashed or was skipped, a row     *)
(* with nothing left to reconcile means that Paisa has loaded the current  *)
(* data, in one of the layouts of settings that ask for a mirror.          *)
CleanMeansFresh == ~ Dirty(row) /\ config \in ReadyConfigs => remote \in Fresh

THEOREM MirrorHolds ==
  ASSUME "lease_expiry" \notin Faults, "revert" \notin Faults,
         "cache_lag" \notin Faults
  PROVE  Spec => [](TypeOK /\ LeaseNamesWorker /\ MirrorInv)
<1>1. Init => LeaseNamesWorker
  BY DEF Init, WorldInit, Seed, Started, Working, LeaseNamesWorker
<1>2. TypeOK /\ LeaseNamesWorker /\ [Next]_vars => LeaseNamesWorker'
  BY LeaseInductive
<1>3. TypeOK /\ LeaseNamesWorker /\ MirrorInv /\ [Next]_vars => MirrorInv'
  BY MirrorInductive
<1> QED
  BY <1>1, <1>2, <1>3, MirrorInitially, TypeCorrect, PTL DEF Spec

THEOREM NoDataLost ==
  ASSUME "lease_expiry" \notin Faults, "revert" \notin Faults,
         "cache_lag" \notin Faults
  PROVE  Spec => []CleanMeansFresh
<1>1. MirrorInv => CleanMeansFresh
  BY DEF MirrorInv, CleanMeansFresh
<1> QED
  BY <1>1, MirrorHolds, PTL

(* If the settings that ask for a mirror agree on the layout, Paisa shows  *)
(* exactly the current journal.                                            *)
THEOREM NoLostUpdate ==
  ASSUME "lease_expiry" \notin Faults, "revert" \notin Faults,
         "cache_lag" \notin Faults,
         \A c, d \in ReadyConfigs : Layout[c] = Layout[d]
  PROVE  Spec => []CleanMeansMirrored
<1>1. MirrorInv => CleanMeansMirrored
  BY CurrentIsFresh DEF MirrorInv, CleanMeansMirrored
<1> QED
  BY <1>1, MirrorHolds, PTL

-----------------------------------------------------------------------------
(* Auto sync implements the mirror.                                        *)

(* A step in which the source moves writes, and leaves the row dirty. *)
LEMMA SourceMoves ==
  ASSUME TypeOK, Next
  PROVE  \/ data' = data /\ config' = config
         \/ remote' = remote /\ Dirty(row')
<1>1. RowOK(row)
  BY TypeParts
<1>2. CASE Environment
  <2>1. CASE CoreWrite \/ SaveSettings
    <3>1. row' = Bump(row, Stamp) \/ row' = BumpSettings(row, Stamp)
      BY <2>1 DEF CoreWrite, SaveSettings
    <3>2. /\ row'.desired_revision = row.desired_revision + 1
          /\ row'.applied_revision = row.applied_revision
      BY <1>1, <3>1 DEF Bump, BumpSettings, RowOK, RowType
    <3> QED
      BY <1>1, <2>1, <3>2, WorldAssumption DEF CoreWrite, SaveSettings, Dirty, RowOK, RowType
  <2>2. CASE UpdateCache \/ Crash
    BY <2>2 DEF UpdateCache, Crash
  <2> QED
    BY <1>2, <2>1, <2>2 DEF Environment
<1>3. ASSUME NEW c \in Coordinators, CoordinatorStep(c) PROVE UNCHANGED dbVars
  BY <1>3
  DEF CoordinatorStep, ReadSnapshot, LoadConfig, ClaimWins, ClaimLoses, Preflight,
      CaptureTarget, Generate, Publish, RecordPublished, DecideRemote, PostAccepted,
      PostFailed, RecordGuard, RecordNoop, RecordAccepted, RecordQuality,
      RecordFailure, Record, Interrupt, Release
<1>4. ASSUME NEW m \in Syncs, SyncStep(m) PROVE UNCHANGED dbVars
  BY <1>4
  DEF SyncStep, Request, ClaimWins, ClaimLoses, SyncCapture, SyncPreflight,
      SyncGenerate, Publish, PostAccepted, PostFailed, SyncFinish, Interrupt, Release
<1>5. ASSUME NEW g \in Generators, GenerateStep(g) PROVE UNCHANGED dbVars
  BY <1>5
  DEF GenerateStep, Request, ClaimWins, ClaimLoses, GenerateLoad, GenerateFile,
      Publish, GenerateFinish, Interrupt, Release
<1> QED
  BY <1>2, <1>3, <1>4, <1>5 DEF Next, dbVars

(* Every step is a change of the source, a reload or nothing: the row is   *)
(* settled only where Paisa shows the source.                              *)
THEOREM AutoSyncImplementsMirror ==
  ASSUME "lease_expiry" \notin Faults, "revert" \notin Faults,
         "cache_lag" \notin Faults,
         \A c, d \in ReadyConfigs : Layout[c] = Layout[d]
  PROVE  Spec => ImplementsMirror
<1>1. Init => Mirror!MirrorInit
  BY WorldAssumption DEF Init, WorldInit, Seed, Dirty, Mirror!MirrorInit
<1>2. ASSUME TypeOK, TypeOK', CleanMeansMirrored', [Next]_vars
      PROVE  [Mirror!MirrorNext]_(Mirror!mvars)
  <2>1. CASE UNCHANGED vars
    BY <2>1 DEF vars, Mirror!mvars, Dirty
  <2>2. CASE Next /\ data' = data /\ config' = config
    BY <1>2, <2>2
    DEF CleanMeansMirrored, Current, Mirror!MirrorNext, Mirror!Reload, ToBeShown, Rendered
  <2>3. CASE remote' = remote /\ Dirty(row')
    <3>1. data' \in 0 .. MaxData /\ config' \in Configs
      BY <1>2 DEF TypeOK
    <3> QED
      BY <2>3, <3>1 DEF Mirror!MirrorNext, Mirror!Change
  <2> QED
    BY <1>2, <2>1, <2>2, <2>3, SourceMoves
<1> QED
  BY <1>1, <1>2, TypeCorrect, NoLostUpdate, PTL DEF Spec, ImplementsMirror, Mirror!MirrorSpec

-----------------------------------------------------------------------------
(* The types of the clock's state.                                          *)
Instants == Nat \union {Null}

ClockRow ==
  [ desired_revision : Nat, applied_revision : Nat,
    first_dirty_at : Instants, last_dirty_at : Instants,
    last_remote_hash : {Null, Body}, last_remote_attempt_at : Instants,
    next_attempt_at : Instants, failure_count : Nat, force_reload : BOOLEAN,
    lease_token : {Null, Me}, lease_expires_at : Instants ]

AttemptType == [guard : Nat, target : Nat, force : BOOLEAN, ready : BOOLEAN]

ClockTypes ==
  /\ now \in Nat /\ since \in Nat /\ spins \in Nat
  /\ timed \in ClockRow
  /\ ready \in BOOLEAN /\ awake \in BOOLEAN
  /\ stage \in {"waiting", "preflight", "generate", "post"}
  /\ attempt \in AttemptType
  /\ beat \in [at : Nat, lost : Nat]
  /\ tried \in Instants /\ unseen \in Instants /\ captured \in Instants
  /\ failed \in [start : Nat, n : Nat] \union {Null}

\* Backoff delays are positive and at most the longest.
LEMMA Delays ==
  /\ LongestBackoff \in Nat
  /\ \A n \in Nat : /\ BackoffDelta(n) \in Nat
                    /\ BackoffDelta(n) > 0
                    /\ BackoffDelta(n) <= LongestBackoff
<1> DEFINE S == {BackoffSteps[i] : i \in DOMAIN BackoffSteps}
<1>1. /\ BackoffSteps \in Seq(Nat \ {0}) /\ Len(BackoffSteps) \in Nat /\ Len(BackoffSteps) > 0
      /\ DOMAIN BackoffSteps = 1 .. Len(BackoffSteps)
      /\ \A i \in 1 .. Len(BackoffSteps) : BackoffSteps[i] \in Nat \ {0}
  BY WindowsAssumption
<1>2. S \subseteq Nat /\ S # {}
  BY <1>1
<1>3. IsFiniteSet(1 .. Len(BackoffSteps))
  BY <1>1, FS_Interval
<1>4. IsFiniteSet(S)
  <2>1. BackoffSteps \in Surjection(1 .. Len(BackoffSteps), S)
    BY <1>1 DEF Surjection
  <2> QED
    BY <1>3, <2>1, FS_Surjection
<1>5. Max(S) \in S /\ \A x \in S : x <= Max(S)
  BY <1>2, <1>4, LargestNat
<1>6. LongestBackoff = Max(S)
  BY DEF LongestBackoff
<1>7. \A n \in Nat : BackoffDelta(n) \in S
  BY <1>1 DEF BackoffDelta
<1>8. \A n \in Nat : BackoffDelta(n) \in Nat \ {0}
  BY <1>1, <1>7
<1> HIDE DEF S
<1>9. Max(S) \in Nat
  BY <1>2, <1>5
<1>10. \A n \in Nat : BackoffDelta(n) <= Max(S)
  BY <1>5, <1>7
<1>11. \A n \in Nat : BackoffDelta(n) \in Nat /\ BackoffDelta(n) > 0
  BY <1>8
<1> QED
  BY <1>6, <1>9, <1>10, <1>11

Slack == Max({MaxDirtyLatency, MinInterval, AttemptTimeout, LongestBackoff})

LEMMA SlackCovers ==
  /\ Slack \in Nat
  /\ MaxDirtyLatency <= Slack /\ MinInterval <= Slack
  /\ AttemptTimeout <= Slack /\ LongestBackoff <= Slack
<1> DEFINE S == {MaxDirtyLatency, MinInterval, AttemptTimeout, LongestBackoff}
<1>1. S \subseteq Nat /\ S # {}
  BY WindowsAssumption, ScheduleAssumption, Delays
<1>2. IsFiniteSet(S)
  <2>1. IsFiniteSet({MaxDirtyLatency})
    BY FS_Singleton
  <2>2. IsFiniteSet({MaxDirtyLatency} \union {MinInterval})
    BY <2>1, FS_AddElement
  <2>3. IsFiniteSet(({MaxDirtyLatency} \union {MinInterval}) \union {AttemptTimeout})
    BY <2>2, FS_AddElement
  <2>4. IsFiniteSet((({MaxDirtyLatency} \union {MinInterval}) \union {AttemptTimeout}) \union {LongestBackoff})
    BY <2>3, FS_AddElement
  <2>5. S = ((({MaxDirtyLatency} \union {MinInterval}) \union {AttemptTimeout}) \union {LongestBackoff})
    OBVIOUS
  <2> QED
    BY <2>4, <2>5
<1>3. Max(S) \in S /\ \A x \in S : x <= Max(S)
  BY <1>1, <1>2, LargestNat
<1> QED
  BY <1>1, <1>3 DEF Slack

-----------------------------------------------------------------------------
(* What the primitives do to a row, field by field.                         *)
SameLease(r, n) ==
  n.lease_token = r.lease_token /\ n.lease_expires_at = r.lease_expires_at

SameWork(r, n) ==
  /\ n.desired_revision = r.desired_revision
  /\ n.applied_revision = r.applied_revision
  /\ n.first_dirty_at = r.first_dirty_at
  /\ n.last_dirty_at = r.last_dirty_at
  /\ n.force_reload = r.force_reload

SameRetry(r, n) ==
  /\ n.last_remote_attempt_at = r.last_remote_attempt_at
  /\ n.next_attempt_at = r.next_attempt_at
  /\ n.failure_count = r.failure_count

\* A write bumps the wanted revision and dates the dirt.
LEMMA BumpFields ==
  ASSUME NEW r \in ClockRow, NEW t \in Nat
  PROVE  LET n == Bump(r, t)
         IN  /\ n \in ClockRow /\ SameLease(r, n) /\ SameRetry(r, n)
             /\ n.desired_revision = r.desired_revision + 1
             /\ n.applied_revision = r.applied_revision
             /\ n.first_dirty_at = (IF r.first_dirty_at = Null THEN t ELSE r.first_dirty_at)
             /\ n.last_dirty_at = t
             /\ n.force_reload = r.force_reload
<1> DEFINE first == IF r.first_dirty_at = Null THEN t ELSE r.first_dirty_at
           n == [r EXCEPT !.desired_revision = r.desired_revision + 1,
                          !.first_dirty_at = first, !.last_dirty_at = t]
<1>1. Bump(r, t) = n
  BY DEF Bump
<1>2. first \in Instants /\ t \in Instants /\ r.desired_revision + 1 \in Nat
  BY DEF ClockRow, Instants
<1> HIDE DEF first
<1>3. n \in ClockRow
  BY <1>2 DEF ClockRow
<1>4. SameLease(r, n) /\ SameRetry(r, n)
  BY <1>2 DEF SameLease, SameRetry, ClockRow
<1>5. /\ n.desired_revision = r.desired_revision + 1
      /\ n.applied_revision = r.applied_revision
      /\ n.first_dirty_at = first /\ n.last_dirty_at = t
  BY <1>2 DEF ClockRow
<1>6. n.force_reload = r.force_reload
  BY Zenon DEF ClockRow
<1> HIDE DEF n
<1> QED
  BY <1>1, <1>3, <1>4, <1>5, <1>6 DEF first

\* A settings write also clears what the retries have recorded.
LEMMA BumpSettingsFields ==
  ASSUME NEW r \in ClockRow, NEW t \in Nat
  PROVE  LET n == BumpSettings(r, t)
         IN  /\ n \in ClockRow /\ SameLease(r, n)
             /\ n.desired_revision = r.desired_revision + 1
             /\ n.applied_revision = r.applied_revision
             /\ n.first_dirty_at = (IF r.first_dirty_at = Null THEN t ELSE r.first_dirty_at)
             /\ n.last_dirty_at = t
             /\ n.last_remote_attempt_at = Null /\ n.next_attempt_at = Null
<1> DEFINE b == Bump(r, t)
           n == [b EXCEPT !.failure_count = 0, !.next_attempt_at = Null,
                          !.last_remote_attempt_at = Null]
<1>1. /\ b \in ClockRow /\ SameLease(r, b) /\ b.desired_revision = r.desired_revision + 1
      /\ b.applied_revision = r.applied_revision
      /\ b.first_dirty_at = (IF r.first_dirty_at = Null THEN t ELSE r.first_dirty_at)
      /\ b.last_dirty_at = t
  BY BumpFields
<1>2. BumpSettings(r, t) = n
  BY DEF BumpSettings
<1> HIDE DEF b
<1>3. n \in ClockRow
  BY <1>1 DEF ClockRow, Instants
<1>4. /\ n.lease_token = b.lease_token /\ n.lease_expires_at = b.lease_expires_at
      /\ n.desired_revision = b.desired_revision /\ n.applied_revision = b.applied_revision
      /\ n.first_dirty_at = b.first_dirty_at /\ n.last_dirty_at = b.last_dirty_at
      /\ n.last_remote_attempt_at = Null /\ n.next_attempt_at = Null
  BY <1>1 DEF ClockRow
<1> HIDE DEF n
<1> QED
  BY <1>1, <1>2, <1>3, <1>4 DEF SameLease

LEMMA ClaimFields ==
  ASSUME NEW r \in ClockRow, NEW t \in Nat
  PROVE  LET n == ClaimLease(r, Me, t)
         IN  /\ n \in ClockRow /\ SameWork(r, n) /\ SameRetry(r, n)
             /\ n.lease_token = Me /\ n.lease_expires_at = t + LeaseTTL
<1> DEFINE n == [r EXCEPT !.lease_token = Me, !.lease_expires_at = t + LeaseTTL]
<1>1. ClaimLease(r, Me, t) = n
  BY DEF ClaimLease
<1>2. t + LeaseTTL \in Instants
  BY WindowsAssumption DEF Instants
<1>3. n \in ClockRow
  BY <1>2 DEF ClockRow
<1>4. SameRetry(r, n) /\ n.lease_token = Me /\ n.lease_expires_at = t + LeaseTTL
  BY DEF ClockRow, SameRetry
<1>5. SameWork(r, n)
  BY Zenon DEF ClockRow, SameWork
<1> HIDE DEF n
<1> QED
  BY <1>1, <1>3, <1>4, <1>5

LEMMA HeartbeatFields ==
  ASSUME NEW r \in ClockRow, NEW t \in Nat, r.lease_token = Me
  PROVE  LET n == HeartbeatLease(r, Me, t)
         IN  /\ n \in ClockRow /\ SameWork(r, n) /\ SameRetry(r, n)
             /\ n.lease_token = Me /\ n.lease_expires_at = t + LeaseTTL
<1> DEFINE n == [r EXCEPT !.lease_expires_at = t + LeaseTTL]
<1>1. HeartbeatLease(r, Me, t) = n
  BY DEF HeartbeatLease, Holds
<1>2. t + LeaseTTL \in Instants
  BY WindowsAssumption DEF Instants
<1>3. n \in ClockRow
  BY <1>2 DEF ClockRow
<1>4. SameRetry(r, n) /\ n.lease_token = Me /\ n.lease_expires_at = t + LeaseTTL
  BY DEF ClockRow, SameRetry
<1>5. SameWork(r, n)
  BY Zenon DEF ClockRow, SameWork
<1> HIDE DEF n
<1> QED
  BY <1>1, <1>3, <1>4, <1>5

LEMMA ReleaseFields ==
  ASSUME NEW r \in ClockRow, r.lease_token = Me
  PROVE  LET n == ReleaseLease(r, Me)
         IN  /\ n \in ClockRow /\ SameWork(r, n) /\ SameRetry(r, n)
             /\ n.lease_token = Null /\ n.lease_expires_at = Null
<1> DEFINE n == [r EXCEPT !.lease_token = Null, !.lease_expires_at = Null]
<1>1. ReleaseLease(r, Me) = n
  BY DEF ReleaseLease, Holds
<1>2. n \in ClockRow
  BY DEF ClockRow, Instants
<1>3. SameRetry(r, n) /\ n.lease_token = Null /\ n.lease_expires_at = Null
  BY DEF ClockRow, SameRetry
<1>4. SameWork(r, n)
  BY Zenon DEF ClockRow, SameWork
<1> HIDE DEF n
<1> QED
  BY <1>1, <1>2, <1>3, <1>4

\* What is recorded as done up to a revision: all of it when that is the wanted one.
DoneUpTo(r, n, target) ==
  /\ n.desired_revision = r.desired_revision
  /\ n.applied_revision = target
  /\ IF target = r.desired_revision
       THEN n.force_reload = FALSE /\ n.first_dirty_at = Null
       ELSE n.force_reload = r.force_reload /\ n.first_dirty_at = r.first_dirty_at
  /\ n.last_dirty_at \in {r.last_dirty_at, Null}

LEMMA CaughtUpFields ==
  ASSUME NEW r \in ClockRow, NEW target \in Nat, target <= r.desired_revision
  PROVE  LET n == ApplyCaughtUp(r, target)
         IN  n \in ClockRow /\ SameLease(r, n) /\ SameRetry(r, n) /\ DoneUpTo(r, n, target)
<1>1. r.desired_revision \in Nat
  BY DEF ClockRow
<1>2. CASE target = r.desired_revision
  <2> DEFINE n == [r EXCEPT !.applied_revision = r.desired_revision, !.force_reload = FALSE,
                            !.first_dirty_at = Null, !.last_dirty_at = Null]
  <2>1. ApplyCaughtUp(r, target) = n
    BY <1>1, <1>2 DEF ApplyCaughtUp
  <2>2. n \in ClockRow
    BY <1>1 DEF ClockRow, Instants
  <2>3. /\ SameLease(r, n) /\ SameRetry(r, n)
        /\ n.desired_revision = r.desired_revision /\ n.applied_revision = target
        /\ n.first_dirty_at = Null /\ n.last_dirty_at = Null
    BY <1>2 DEF ClockRow, SameLease, SameRetry
  <2>4. n.force_reload = FALSE
    BY Zenon DEF ClockRow
  <2> HIDE DEF n
  <2> QED
    BY <1>2, <2>1, <2>2, <2>3, <2>4 DEF DoneUpTo
<1>3. CASE target # r.desired_revision
  <2> DEFINE n == [r EXCEPT !.applied_revision = target, !.force_reload = r.force_reload,
                            !.first_dirty_at = r.first_dirty_at, !.last_dirty_at = r.last_dirty_at]
  <2>0. ~ (target >= r.desired_revision)
    BY <1>1, <1>3
  <2>1. ApplyCaughtUp(r, target) = n
    BY <2>0, Zenon DEF ApplyCaughtUp
  <2>2. n \in ClockRow
    BY DEF ClockRow, Instants
  <2>3. /\ SameLease(r, n) /\ SameRetry(r, n)
        /\ n.desired_revision = r.desired_revision /\ n.applied_revision = target
        /\ n.first_dirty_at = r.first_dirty_at /\ n.last_dirty_at = r.last_dirty_at
    BY DEF ClockRow, SameLease, SameRetry
  <2>4. n.force_reload = r.force_reload
    BY Zenon DEF ClockRow
  <2> HIDE DEF n
  <2> QED
    BY <1>3, <2>1, <2>2, <2>3, <2>4 DEF DoneUpTo
<1> QED
  BY <1>2, <1>3

LEMMA AcceptedFields ==
  ASSUME NEW r \in ClockRow, NEW target \in Nat, target <= r.desired_revision, NEW t \in Nat
  PROVE  LET n == RecordAcceptedPost(r, target, Body, t)
         IN  /\ n \in ClockRow /\ SameLease(r, n) /\ DoneUpTo(r, n, target)
             /\ n.last_remote_attempt_at = t /\ n.failure_count = 0
             /\ n.next_attempt_at = Null
<1> DEFINE c == ApplyCaughtUp(r, target)
           n == [c EXCEPT !.last_remote_hash = Body, !.last_remote_attempt_at = t,
                          !.failure_count = 0, !.next_attempt_at = Null]
<1>1. c \in ClockRow /\ SameLease(r, c) /\ DoneUpTo(r, c, target)
  BY CaughtUpFields
<1>2. RecordAcceptedPost(r, target, Body, t) = n
  BY DEF RecordAcceptedPost
<1> HIDE DEF c
<1>3. n \in ClockRow
  BY <1>1 DEF ClockRow, Instants
<1>4. /\ SameLease(c, n)
      /\ n.last_remote_attempt_at = t /\ n.failure_count = 0 /\ n.next_attempt_at = Null
  BY <1>1 DEF ClockRow, SameLease
<1>5. SameWork(c, n)
  BY <1>1, Zenon DEF ClockRow, SameWork
<1> HIDE DEF n
<1>6. SameLease(r, n)
  BY <1>1, <1>4 DEF SameLease
<1>7. DoneUpTo(r, n, target)
  BY <1>1, <1>5 DEF DoneUpTo, SameWork
<1> QED
  BY <1>2, <1>3, <1>4, <1>6, <1>7

LEMMA DiagnosedFields ==
  ASSUME NEW r \in ClockRow, NEW state \in Diagnoses, NEW t \in Nat,
         r.failure_count = 0, r.next_attempt_at = Null
  PROVE  LET n == RecordDiagnosis(r, state, t)
         IN  /\ n \in ClockRow /\ SameLease(r, n) /\ SameWork(r, n)
             /\ n.last_remote_attempt_at = r.last_remote_attempt_at
             /\ IF state = "fatal"
                  THEN n.failure_count = 1 /\ n.next_attempt_at = t + BackoffDelta(1)
                  ELSE n.next_attempt_at = Null
<1>1. CASE state = "fatal"
  <2> DEFINE until == t + BackoffDelta(1)
             n == [r EXCEPT !.failure_count = 1, !.next_attempt_at = until]
  <2>1. RecordDiagnosis(r, state, t) = n
    BY <1>1 DEF RecordDiagnosis
  <2>2. until \in Instants
    BY Delays DEF Instants
  <2> HIDE DEF until
  <2>3. n \in ClockRow
    BY <2>2 DEF ClockRow
  <2>4. /\ SameLease(r, n) /\ n.last_remote_attempt_at = r.last_remote_attempt_at
        /\ n.failure_count = 1 /\ n.next_attempt_at = until
    BY DEF ClockRow, SameLease
  <2>5. SameWork(r, n)
    BY Zenon DEF ClockRow, SameWork
  <2> HIDE DEF n
  <2> QED
    BY <1>1, <2>1, <2>3, <2>4, <2>5 DEF until
<1>2. CASE state \in {"healthy", "accepted"}
  <2> DEFINE n == [r EXCEPT !.failure_count = 0, !.next_attempt_at = Null]
  <2>1. RecordDiagnosis(r, state, t) = n
    BY <1>2 DEF RecordDiagnosis
  <2>2. n \in ClockRow
    BY DEF ClockRow, Instants
  <2>3. SameLease(r, n) /\ n.last_remote_attempt_at = r.last_remote_attempt_at /\ n.next_attempt_at = Null
    BY DEF ClockRow, SameLease
  <2>4. SameWork(r, n)
    BY Zenon DEF ClockRow, SameWork
  <2> HIDE DEF n
  <2> QED
    BY <1>2, <2>1, <2>2, <2>3, <2>4
<1>3. CASE state = "unknown"
  <2>1. RecordDiagnosis(r, state, t) = r
    BY <1>3 DEF RecordDiagnosis
  <2> QED
    BY <1>3, <2>1 DEF SameLease, SameWork
<1> QED
  BY <1>1, <1>2, <1>3 DEF Diagnoses

LEMMA FailureFields ==
  ASSUME NEW r \in ClockRow, NEW t \in Nat
  PROVE  LET n == RecordPrePostFailure(r, t)
         IN  /\ n \in ClockRow /\ SameLease(r, n) /\ SameWork(r, n)
             /\ n.last_remote_attempt_at = t
             /\ n.next_attempt_at = t + BackoffDelta(n.failure_count)
<1> DEFINE count == r.failure_count + 1
           until == t + BackoffDelta(count)
           n == [r EXCEPT !.failure_count = count, !.next_attempt_at = until,
                          !.last_remote_attempt_at = t]
<1>1. RecordPrePostFailure(r, t) = n
  BY DEF RecordPrePostFailure
<1>2. count \in Nat
  BY DEF ClockRow
<1>3. until \in Instants
  BY <1>2, Delays DEF Instants
<1> HIDE DEF until, count
<1>4. n \in ClockRow
  BY <1>2, <1>3 DEF ClockRow, Instants
<1>5. /\ SameLease(r, n) /\ n.last_remote_attempt_at = t /\ n.failure_count = count
      /\ n.next_attempt_at = until
  BY DEF ClockRow, SameLease
<1>6. SameWork(r, n)
  BY Zenon DEF ClockRow, SameWork
<1> HIDE DEF n
<1> QED
  BY <1>1, <1>4, <1>5, <1>6 DEF until

-----------------------------------------------------------------------------
(* The types, the order of the revisions and the lease of a running attempt. *)
Basic ==
  /\ ClockTypes
  /\ timed.applied_revision <= timed.desired_revision
  /\ attempt.guard <= timed.desired_revision
  /\ attempt.target <= timed.desired_revision
  /\ IF Running THEN timed.lease_token = Me
                ELSE timed.lease_token = Null /\ timed.lease_expires_at = Null

\* What each way to end an attempt leaves.
AttemptOver ==
  /\ timed' \in ClockRow /\ timed'.lease_token = Null /\ timed'.lease_expires_at = Null
  /\ stage' = "waiting" /\ since' = now /\ attempt' = NoAttempt /\ awake' = TRUE
  /\ now' = now /\ ready' = ready /\ spins' = spins /\ beat' = beat

LEMMA EndLeaves ==
  ASSUME NEW r \in ClockRow, r.lease_token = Me, End(r)
  PROVE  AttemptOver /\ SameWork(r, timed') /\ SameRetry(r, timed')
<1>1. timed' = ReleaseLease(r, Me)
  BY DEF End
<1>2. /\ ReleaseLease(r, Me) \in ClockRow /\ SameWork(r, ReleaseLease(r, Me))
      /\ SameRetry(r, ReleaseLease(r, Me))
      /\ ReleaseLease(r, Me).lease_token = Null /\ ReleaseLease(r, Me).lease_expires_at = Null
  BY ReleaseFields
<1>3. /\ stage' = "waiting" /\ since' = now /\ attempt' = NoAttempt /\ awake' = TRUE
      /\ now' = now /\ ready' = ready /\ spins' = spins /\ beat' = beat
  BY DEF End
<1> QED
  BY <1>1, <1>2, <1>3 DEF AttemptOver

LEMMA GuardedLeaves ==
  ASSUME Basic, EndGuarded
  PROVE  AttemptOver /\ DoneUpTo(timed, timed', attempt.guard) /\ SameRetry(timed, timed')
<1> DEFINE r == ApplyCaughtUp(timed, attempt.guard)
<1>1. /\ timed \in ClockRow /\ attempt.guard \in Nat /\ attempt.guard <= timed.desired_revision
      /\ timed.lease_token = Me
  BY DEF Basic, ClockTypes, AttemptType, EndGuarded, Running
<1>2. r \in ClockRow /\ SameLease(timed, r) /\ SameRetry(timed, r) /\ DoneUpTo(timed, r, attempt.guard)
  BY <1>1, CaughtUpFields
<1>3. End(r)
  BY DEF EndGuarded, RecordGuardCaughtUp
<1> HIDE DEF r
<1>4. AttemptOver /\ SameWork(r, timed') /\ SameRetry(r, timed')
  BY <1>1, <1>2, <1>3, EndLeaves DEF SameLease
<1> QED
  BY <1>2, <1>4 DEF SameWork, SameRetry, DoneUpTo

LEMMA NoopLeaves ==
  ASSUME Basic, EndNoop
  PROVE  AttemptOver /\ DoneUpTo(timed, timed', attempt.target) /\ SameRetry(timed, timed')
<1> DEFINE r == ApplyCaughtUp(timed, attempt.target)
<1>1. /\ timed \in ClockRow /\ attempt.target \in Nat /\ attempt.target <= timed.desired_revision
      /\ timed.lease_token = Me
  BY DEF Basic, ClockTypes, AttemptType, EndNoop, Running
<1>2. r \in ClockRow /\ SameLease(timed, r) /\ SameRetry(timed, r) /\ DoneUpTo(timed, r, attempt.target)
  BY <1>1, CaughtUpFields
<1>3. End(r)
  BY DEF EndNoop, RecordHashNoop
<1> HIDE DEF r
<1>4. AttemptOver /\ SameWork(r, timed') /\ SameRetry(r, timed')
  BY <1>1, <1>2, <1>3, EndLeaves DEF SameLease
<1> QED
  BY <1>2, <1>4 DEF SameWork, SameRetry, DoneUpTo

LEMMA AcceptedLeaves ==
  ASSUME Basic, EndAccepted
  PROVE  /\ AttemptOver /\ DoneUpTo(timed, timed', attempt.target)
         /\ timed'.last_remote_attempt_at = since
         /\ \/ timed'.next_attempt_at = Null /\ failed' \in {failed, Null}
            \/ /\ failed' = [start |-> since, n |-> 1]
               /\ timed'.next_attempt_at = since + BackoffDelta(1)
<1>1. PICK state \in Diagnoses :
        LET accepted == RecordAcceptedPost(timed, attempt.target, Body, since)
            diagnosed == RecordDiagnosis(accepted, state, since)
        IN  /\ End(diagnosed)
            /\ failed' = IF state = "fatal"
                           THEN [start |-> since, n |-> diagnosed.failure_count]
                           ELSE IF state = "unknown" THEN failed ELSE Null
  BY DEF EndAccepted
<1> DEFINE a == RecordAcceptedPost(timed, attempt.target, Body, since)
           r == RecordDiagnosis(a, state, since)
<1>2. /\ timed \in ClockRow /\ attempt.target \in Nat /\ attempt.target <= timed.desired_revision
      /\ timed.lease_token = Me /\ since \in Nat
  BY DEF Basic, ClockTypes, AttemptType, EndAccepted, Running
<1>3. /\ a \in ClockRow /\ SameLease(timed, a) /\ DoneUpTo(timed, a, attempt.target)
      /\ a.last_remote_attempt_at = since /\ a.failure_count = 0 /\ a.next_attempt_at = Null
  BY <1>2, AcceptedFields
<1>4. /\ End(r)
      /\ failed' = IF state = "fatal" THEN [start |-> since, n |-> r.failure_count]
                   ELSE IF state = "unknown" THEN failed ELSE Null
  BY <1>1
<1> HIDE DEF a
<1>5. /\ r \in ClockRow /\ SameLease(a, r) /\ SameWork(a, r)
      /\ r.last_remote_attempt_at = a.last_remote_attempt_at
      /\ IF state = "fatal" THEN r.failure_count = 1 /\ r.next_attempt_at = since + BackoffDelta(1)
                            ELSE r.next_attempt_at = Null
  BY <1>2, <1>3, DiagnosedFields
<1> HIDE DEF r
<1>6. AttemptOver /\ SameWork(r, timed') /\ SameRetry(r, timed')
  BY <1>2, <1>3, <1>4, <1>5, EndLeaves DEF SameLease
<1>7. DoneUpTo(timed, timed', attempt.target)
  BY <1>3, <1>5, <1>6 DEF SameWork, DoneUpTo
<1>8. /\ timed'.last_remote_attempt_at = since
      /\ timed'.next_attempt_at = r.next_attempt_at
  BY <1>3, <1>5, <1>6 DEF SameRetry
<1>9. CASE state = "fatal"
  BY <1>4, <1>5, <1>6, <1>7, <1>8, <1>9
<1>10. CASE state # "fatal"
  BY <1>4, <1>5, <1>6, <1>7, <1>8, <1>10
<1> QED
  BY <1>9, <1>10

LEMMA FailedLeaves ==
  ASSUME Basic, EndFailed
  PROVE  /\ AttemptOver /\ SameWork(timed, timed') /\ timed'.last_remote_attempt_at = since
         /\ failed' = [start |-> since, n |-> timed'.failure_count]
         /\ timed'.next_attempt_at = since + BackoffDelta(timed'.failure_count)
<1> DEFINE r == RecordPrePostFailure(timed, since)
<1>1. timed \in ClockRow /\ timed.lease_token = Me /\ since \in Nat
  BY DEF Basic, ClockTypes, EndFailed
<1>2. /\ r \in ClockRow /\ SameLease(timed, r) /\ SameWork(timed, r)
      /\ r.last_remote_attempt_at = since
      /\ r.next_attempt_at = since + BackoffDelta(r.failure_count)
  BY <1>1, FailureFields
<1>3. End(r) /\ failed' = [start |-> since, n |-> r.failure_count]
  BY DEF EndFailed
<1> HIDE DEF r
<1>4. AttemptOver /\ SameWork(r, timed') /\ SameRetry(r, timed')
  BY <1>1, <1>2, <1>3, EndLeaves DEF SameLease
<1> QED
  BY <1>2, <1>3, <1>4 DEF SameWork, SameRetry

LEMMA AbandonedLeaves ==
  ASSUME Basic, EndAbandoned
  PROVE  AttemptOver /\ SameWork(timed, timed') /\ SameRetry(timed, timed')
<1>1. timed \in ClockRow /\ timed.lease_token = Me /\ End(timed)
  BY DEF Basic, ClockTypes, EndAbandoned
<1> QED
  BY <1>1, EndLeaves

\* The start of an attempt.
LEMMA StartLeaves ==
  ASSUME Basic, TickStarts
  PROVE  /\ timed' \in ClockRow /\ SameWork(timed, timed') /\ SameRetry(timed, timed')
         /\ timed'.lease_token = Me /\ timed'.lease_expires_at = now + LeaseTTL
         /\ stage = "waiting" /\ stage' = "preflight" /\ since' = now /\ now' = now
         /\ attempt' \in AttemptType
         /\ attempt'.guard = timed.desired_revision /\ attempt'.target = 0
         /\ attempt'.ready = ready
         /\ attempt'.force = (timed.force_reload \/ ReconcileEligibility(timed, now) = "periodic_reload")
<1>1. timed \in ClockRow /\ now \in Nat /\ ready \in BOOLEAN /\ timed.force_reload \in BOOLEAN
      /\ timed.desired_revision \in Nat
  BY Zenon DEF Basic, ClockTypes, ClockRow
<1>2. timed' = ClaimLease(timed, Me, now)
  BY DEF TickStarts
<1>3. /\ timed' \in ClockRow /\ SameWork(timed, timed') /\ SameRetry(timed, timed')
      /\ timed'.lease_token = Me /\ timed'.lease_expires_at = now + LeaseTTL
  BY <1>1, <1>2, ClaimFields
<1> DEFINE force == timed.force_reload \/ ReconcileEligibility(timed, now) = "periodic_reload"
<1>4. attempt' = [guard |-> timed.desired_revision, target |-> 0, force |-> force, ready |-> ready]
  BY Zenon DEF TickStarts, NoAttempt
<1>5. force \in BOOLEAN
  BY Zenon
<1> HIDE DEF force
<1>6. attempt' \in AttemptType
  BY <1>1, <1>4, <1>5 DEF AttemptType
<1>7. attempt'.guard = timed.desired_revision /\ attempt'.target = 0
  BY <1>4
<1>8. attempt'.ready = ready /\ attempt'.force = force
  BY <1>4, Zenon
<1>9. stage = "waiting" /\ stage' = "preflight" /\ since' = now /\ now' = now
  BY DEF TickStarts, TickDue
<1> QED
  BY <1>3, <1>6, <1>7, <1>8, <1>9, Zenon DEF force

LEMMA OldestType ==
  ASSUME NEW a \in Instants, NEW b \in Instants
  PROVE  /\ Oldest(a, b) \in Instants
         /\ Oldest(a, b) = Null <=> a = Null /\ b = Null
         /\ a # Null /\ b # Null => Oldest(a, b) \in {a, b} /\ Oldest(a, b) <= a /\ Oldest(a, b) <= b
         /\ a = Null => Oldest(a, b) = b
         /\ b = Null => Oldest(a, b) = a
<1>1. CASE a = Null \/ b = Null
  BY <1>1 DEF Oldest
<1>2. CASE a # Null /\ b # Null
  <2>1. a \in Nat /\ b \in Nat
    BY <1>2 DEF Instants
  <2>2. \E x \in {a, b} : \A y \in {a, b} : x <= y
    BY <2>1
  <2>3. Min({a, b}) \in {a, b} /\ Min({a, b}) <= a /\ Min({a, b}) <= b
    BY <2>2 DEF Min
  <2> QED
    BY <1>2, <2>1, <2>3, NullAssumption DEF Oldest, Instants
<1> QED
  BY <1>1, <1>2

LEMMA BasicInit ==
  ASSUME ClockInit
  PROVE  Basic
<1>1. timed = Seed(0)
  BY DEF ClockInit
<1>2. timed \in ClockRow
  BY <1>1 DEF Seed, ClockRow, Instants
<1>3. /\ timed.desired_revision = 1 /\ timed.applied_revision = 0
      /\ timed.lease_token = Null /\ timed.lease_expires_at = Null
  BY <1>1 DEF Seed
<1>4. attempt \in AttemptType /\ attempt.guard = 0 /\ attempt.target = 0
  BY DEF ClockInit, NoAttempt, AttemptType
<1>5. ready \in BOOLEAN /\ awake \in BOOLEAN
  BY ScheduleAssumption, Zenon DEF ClockInit
<1>6. /\ now \in Nat /\ since \in Nat /\ spins \in Nat /\ stage = "waiting"
      /\ beat \in [at : Nat, lost : Nat] /\ tried = Null /\ failed = Null
      /\ unseen \in Nat /\ captured = Null
  BY DEF ClockInit
<1> QED
  BY <1>2, <1>3, <1>4, <1>5, <1>6 DEF Basic, ClockTypes, Instants, Running

\* The ends of an attempt keep the types.
LEMMA EndKeepsBasic ==
  ASSUME Basic, AttemptOver, timed'.applied_revision <= timed'.desired_revision,
         tried' \in Instants, unseen' \in Instants, captured' \in Instants,
         failed' \in [start : Nat, n : Nat] \union {Null}
  PROVE  Basic'
<1>1. NoAttempt \in AttemptType /\ NoAttempt.guard = 0 /\ NoAttempt.target = 0
  BY DEF NoAttempt, AttemptType
<1>2. ClockTypes'
  BY <1>1, Zenon DEF AttemptOver, Basic, ClockTypes
<1>3. timed'.desired_revision \in Nat
  BY DEF AttemptOver, ClockRow
<1> QED
  BY <1>1, <1>2, <1>3 DEF AttemptOver, Basic, Running

\* What the steps that are neither a start nor an end of an attempt leave.
LEMMA StepLeaves ==
  ASSUME Basic
  PROVE  /\ Write => /\ timed' \in ClockRow /\ SameLease(timed, timed') /\ SameRetry(timed, timed')
                     /\ timed'.desired_revision = timed.desired_revision + 1
                     /\ timed'.applied_revision = timed.applied_revision
                     /\ timed'.first_dirty_at =
                          (IF timed.first_dirty_at = Null THEN now ELSE timed.first_dirty_at)
                     /\ timed'.last_dirty_at = now
                     /\ timed'.force_reload = timed.force_reload
         /\ ChangeSettings =>
              /\ timed' \in ClockRow /\ SameLease(timed, timed')
              /\ timed'.desired_revision = timed.desired_revision + 1
              /\ timed'.applied_revision = timed.applied_revision
              /\ timed'.first_dirty_at =
                   (IF timed.first_dirty_at = Null THEN now ELSE timed.first_dirty_at)
              /\ timed'.last_dirty_at = now
              /\ timed'.last_remote_attempt_at = Null /\ timed'.next_attempt_at = Null
         /\ Heartbeat => /\ timed' \in ClockRow /\ SameWork(timed, timed') /\ SameRetry(timed, timed')
                         /\ timed'.lease_token = Me
                         /\ \/ timed'.lease_expires_at = now + LeaseTTL /\ beat' = [at |-> now, lost |-> 0]
                            \/ /\ timed' = timed /\ beat.lost < MaxLostBeats
                               /\ beat' = [at |-> now, lost |-> beat.lost + 1]
<1>1. timed \in ClockRow /\ now \in Nat
  BY DEF Basic, ClockTypes
<1>2. ASSUME Write
      PROVE  /\ timed' \in ClockRow /\ SameLease(timed, timed') /\ SameRetry(timed, timed')
             /\ timed'.desired_revision = timed.desired_revision + 1
             /\ timed'.applied_revision = timed.applied_revision
             /\ timed'.first_dirty_at =
                  (IF timed.first_dirty_at = Null THEN now ELSE timed.first_dirty_at)
             /\ timed'.last_dirty_at = now
             /\ timed'.force_reload = timed.force_reload
  <2>1. timed' = Bump(timed, now)
    BY <1>2 DEF Write
  <2> QED
    BY <1>1, <2>1, BumpFields, Zenon
<1>3. ASSUME ChangeSettings
      PROVE  /\ timed' \in ClockRow /\ SameLease(timed, timed')
             /\ timed'.desired_revision = timed.desired_revision + 1
             /\ timed'.applied_revision = timed.applied_revision
             /\ timed'.first_dirty_at =
                  (IF timed.first_dirty_at = Null THEN now ELSE timed.first_dirty_at)
             /\ timed'.last_dirty_at = now
             /\ timed'.last_remote_attempt_at = Null /\ timed'.next_attempt_at = Null
  <2>1. timed' = BumpSettings(timed, now)
    BY <1>3 DEF ChangeSettings
  <2> QED
    BY <1>1, <2>1, BumpSettingsFields, Zenon
<1>4. ASSUME Heartbeat
      PROVE  /\ timed' \in ClockRow /\ SameWork(timed, timed') /\ SameRetry(timed, timed')
             /\ timed'.lease_token = Me
             /\ \/ timed'.lease_expires_at = now + LeaseTTL /\ beat' = [at |-> now, lost |-> 0]
                \/ /\ timed' = timed /\ beat.lost < MaxLostBeats
                   /\ beat' = [at |-> now, lost |-> beat.lost + 1]
  <2>1. timed.lease_token = Me
    BY <1>4 DEF Basic, Heartbeat
  <2>2. CASE timed' = HeartbeatLease(timed, Me, now) /\ beat' = [at |-> now, lost |-> 0]
    BY <1>1, <2>1, <2>2, HeartbeatFields
  <2>3. CASE UNCHANGED timed /\ beat.lost < MaxLostBeats /\ beat' = [at |-> now, lost |-> beat.lost + 1]
    BY <1>1, <2>1, <2>3 DEF SameWork, SameRetry
  <2> QED
    BY <1>4, <2>2, <2>3 DEF Heartbeat
<1> QED
  BY <1>2, <1>3, <1>4, Zenon

LEMMA BasicStep ==
  ASSUME Basic, [ClockNext]_clockVars
  PROVE  Basic'
<1>1. /\ timed \in ClockRow /\ timed.desired_revision \in Nat /\ timed.applied_revision \in Nat
      /\ now \in Nat /\ since \in Nat /\ attempt \in AttemptType
      /\ attempt.guard \in Nat /\ attempt.target \in Nat
      /\ beat \in [at : Nat, lost : Nat] /\ beat.lost \in Nat
      /\ tried \in Instants /\ unseen \in Instants /\ captured \in Instants /\ now \in Instants
      /\ since \in Instants /\ Null \in Instants
      /\ failed \in [start : Nat, n : Nat] \union {Null} /\ spins \in Nat
      /\ ready \in BOOLEAN /\ awake \in BOOLEAN
      /\ stage \in {"waiting", "preflight", "generate", "post"}
  BY DEF Basic, ClockTypes, AttemptType, ClockRow, Instants
<1>2. CASE Write
  <2>1. /\ timed' \in ClockRow /\ SameLease(timed, timed')
        /\ timed'.desired_revision = timed.desired_revision + 1
        /\ timed'.applied_revision = timed.applied_revision
    BY <1>2, StepLeaves
  <2>2. /\ awake' \in BOOLEAN /\ unseen' \in Instants /\ spins' = 0
        /\ UNCHANGED <<now, ready, stage, since, attempt, beat, tried, failed, captured>>
    BY <1>1, <1>2, OldestType DEF Write
  <2> QED
    BY <1>1, <2>1, <2>2 DEF Basic, ClockTypes, SameLease, Running
<1>3. CASE ChangeSettings
  <2>1. /\ timed' \in ClockRow /\ SameLease(timed, timed')
        /\ timed'.desired_revision = timed.desired_revision + 1
        /\ timed'.applied_revision = timed.applied_revision
    BY <1>3, StepLeaves
  <2>2. /\ ready' \in BOOLEAN /\ awake' = TRUE /\ unseen' = now /\ spins' = 0
        /\ tried' = Null /\ failed' = Null
        /\ UNCHANGED <<now, stage, since, attempt, beat, captured>>
    BY <1>3, ScheduleAssumption DEF ChangeSettings
  <2> QED
    BY <1>1, <2>1, <2>2 DEF Basic, ClockTypes, SameLease, Running
<1>4. CASE TickIdle
  BY <1>1, <1>4 DEF TickIdle, Basic, ClockTypes, Running, seenVars
<1>5. CASE TickStarts
  <2>1. /\ timed' \in ClockRow /\ SameWork(timed, timed')
        /\ timed'.lease_token = Me /\ stage' = "preflight" /\ since' = now /\ now' = now
        /\ attempt' \in AttemptType
        /\ attempt'.guard = timed.desired_revision /\ attempt'.target = 0
    BY <1>5, StartLeaves
  <2>2. /\ beat' \in [at : Nat, lost : Nat] /\ awake' = TRUE /\ spins' \in Nat
        /\ UNCHANGED <<ready, tried, failed, unseen, captured>>
    BY <1>1, <1>5 DEF TickStarts
  <2> QED
    BY <1>1, <2>1, <2>2 DEF Basic, ClockTypes, SameWork, Running
<1>6. CASE Capture
  <2>1. /\ attempt' = [attempt EXCEPT !.target = timed.desired_revision]
        /\ stage' = "generate" /\ captured' = unseen /\ unseen' = Null
        /\ UNCHANGED <<now, timed, ready, awake, since, beat, spins, tried, failed>>
    BY <1>6 DEF Capture
  <2>2. /\ attempt' \in AttemptType /\ attempt'.guard = attempt.guard
        /\ attempt'.target = timed.desired_revision
    BY <1>1, <2>1 DEF AttemptType
  <2> QED
    BY <1>1, <1>6, <2>1, <2>2 DEF Basic, ClockTypes, Running, Capture
<1>7. CASE SendPost
  BY <1>1, <1>7 DEF SendPost, Basic, ClockTypes, Running
<1>8. CASE EndGuarded
  <2>1. AttemptOver /\ DoneUpTo(timed, timed', attempt.guard)
    BY <1>8, GuardedLeaves
  <2>2. UNCHANGED <<tried, failed, unseen, captured>>
    BY <1>8 DEF EndGuarded
  <2> QED
    BY <1>1, <2>1, <2>2, EndKeepsBasic DEF DoneUpTo, Basic
<1>9. CASE EndNoop
  <2>1. AttemptOver /\ DoneUpTo(timed, timed', attempt.target)
    BY <1>9, NoopLeaves
  <2>2. UNCHANGED <<tried, failed, unseen>> /\ captured' = Null
    BY <1>9 DEF EndNoop, Delivered
  <2> QED
    BY <1>1, <2>1, <2>2, EndKeepsBasic DEF DoneUpTo, Basic
<1>10. CASE EndAccepted
  <2>1. AttemptOver /\ DoneUpTo(timed, timed', attempt.target)
        /\ failed' \in [start : Nat, n : Nat] \union {Null}
    BY <1>1, <1>10, AcceptedLeaves
  <2>2. UNCHANGED <<tried, unseen>> /\ captured' = Null
    BY <1>10 DEF EndAccepted, Delivered
  <2> QED
    BY <1>1, <2>1, <2>2, EndKeepsBasic DEF DoneUpTo, Basic
<1>11. CASE EndFailed
  <2>1. AttemptOver /\ SameWork(timed, timed')
        /\ failed' \in [start : Nat, n : Nat] \union {Null}
    BY <1>1, <1>11, FailedLeaves DEF AttemptOver, ClockRow
  <2>2. tried' = since /\ unseen' \in {Null, now} /\ captured' = Null
    BY <1>11 DEF EndFailed, Undelivered
  <2> QED
    BY <1>1, <2>1, <2>2, EndKeepsBasic DEF SameWork, Basic
<1>12. CASE EndAbandoned
  <2>1. AttemptOver /\ SameWork(timed, timed')
    BY <1>12, AbandonedLeaves
  <2>2. tried' = Null /\ unseen' \in {Null, now} /\ captured' = Null /\ failed' = failed
    BY <1>12 DEF EndAbandoned, Undelivered
  <2> QED
    BY <1>1, <2>1, <2>2, EndKeepsBasic DEF SameWork, Basic
<1>13. CASE Heartbeat
  <2>1. /\ timed' \in ClockRow /\ SameWork(timed, timed') /\ timed'.lease_token = Me
        /\ beat' \in [at : Nat, lost : Nat]
    BY <1>1, <1>13, StepLeaves
  <2>2. Running /\ awake' \in BOOLEAN /\ UNCHANGED <<now, ready, stage, since, attempt, seenVars>>
    BY <1>1, <1>13 DEF Heartbeat
  <2> QED
    BY <1>1, <2>1, <2>2 DEF Basic, ClockTypes, SameWork, Running, seenVars
<1>14. CASE Elapse
  BY <1>1, <1>14 DEF Elapse, Basic, ClockTypes, Running, loopVars
<1>15. CASE UNCHANGED clockVars
  BY <1>15 DEF clockVars, loopVars, seenVars, Basic, ClockTypes, Running
<1> QED
  BY <1>2, <1>3, <1>4, <1>5, <1>6, <1>7, <1>8, <1>9, <1>10, <1>11, <1>12, <1>13, <1>14, <1>15 DEF ClockNext

-----------------------------------------------------------------------------
(* The heartbeat keeps the lease of a running attempt alive.                *)

(* How long the coordinator has waited or run, and since when it was silent. *)
Windows ==
  /\ since <= now
  /\ IF Running THEN now - since <= AttemptTimeout ELSE now - since <= PollInterval
  /\ Running =>
       /\ beat.at <= now /\ now - beat.at <= HeartbeatInterval
       /\ beat.lost <= MaxLostBeats
       /\ timed.lease_expires_at # Null
       /\ timed.lease_expires_at + beat.lost * HeartbeatInterval >= beat.at + LeaseTTL

LEMMA Products ==
  \A k, m, n \in Nat : /\ k * n \in Nat /\ (k + 1) * n = k * n + n
                       /\ k <= m => k * n <= m * n
OBVIOUS

LEMMA WindowsInit ==
  ASSUME ClockInit
  PROVE  Windows
BY ScheduleAssumption DEF ClockInit, Windows, Running

LEMMA WindowsStep ==
  ASSUME Basic, Basic', Windows, [ClockNext]_clockVars
  PROVE  Windows'
<1>1. /\ now \in Nat /\ since \in Nat /\ beat.at \in Nat /\ beat.lost \in Nat
      /\ timed.lease_expires_at \in Nat \union {Null}
      /\ timed'.lease_expires_at \in Nat \union {Null}
  BY DEF Basic, ClockTypes, ClockRow, Instants
<1>11. /\ HeartbeatInterval \in Nat /\ HeartbeatInterval > 0 /\ PollInterval \in Nat /\ PollInterval > 0
      /\ AttemptTimeout \in Nat /\ AttemptTimeout > 0 /\ LeaseTTL \in Nat /\ MaxLostBeats \in Nat
      /\ Null \notin Nat
  BY ScheduleAssumption, WindowsAssumption, NullAssumption
<1>2. beat.lost * HeartbeatInterval \in Nat /\ (beat.lost + 1) * HeartbeatInterval = beat.lost * HeartbeatInterval + HeartbeatInterval /\ 0 * HeartbeatInterval = 0
  BY <1>1, <1>11, Products
<1>3. CASE Write \/ ChangeSettings
  <2>1. UNCHANGED <<now, since, stage, beat>> /\ SameLease(timed, timed')
    BY <1>3, StepLeaves DEF Write, ChangeSettings
  <2> QED
    BY <2>1 DEF Windows, Running, SameLease
<1>4. CASE TickIdle
  BY <1>1, <1>11, <1>4 DEF TickIdle, Windows, Running, TickDue
<1>5. CASE TickStarts
  <2>1. /\ timed'.lease_expires_at = now + LeaseTTL /\ stage' = "preflight" /\ since' = now /\ now' = now
        /\ beat' = [at |-> now, lost |-> 0]
    BY <1>5, StartLeaves DEF TickStarts
  <2>2. beat'.at = now /\ beat'.lost = 0
    BY <2>1
  <2> QED
    BY <1>1, <1>11, <1>2, <2>1, <2>2 DEF Windows, Running
<1>6. CASE Capture \/ SendPost
  BY <1>6 DEF Capture, SendPost, Windows, Running
<1>7. CASE EndGuarded \/ EndNoop \/ EndAccepted \/ EndFailed \/ EndAbandoned
  <2>1. AttemptOver
    BY <1>7, GuardedLeaves, NoopLeaves, AcceptedLeaves, FailedLeaves, AbandonedLeaves
  <2> QED
    BY <1>1, <1>11, <2>1 DEF AttemptOver, Windows, Running
<1>8. CASE Heartbeat
  <2>1. /\ UNCHANGED <<now, since, stage>> /\ Running /\ now - beat.at >= HeartbeatInterval
    BY <1>8 DEF Heartbeat
  <2>2. CASE timed'.lease_expires_at = now + LeaseTTL /\ beat' = [at |-> now, lost |-> 0]
    <3>1. beat'.at = now /\ beat'.lost = 0
      BY <2>2
    <3> QED
      BY <1>1, <1>11, <1>2, <2>1, <2>2, <3>1 DEF Windows, Running
  <2>3. CASE /\ timed' = timed /\ beat.lost < MaxLostBeats
             /\ beat' = [at |-> now, lost |-> beat.lost + 1]
    <3>1. beat'.at = now /\ beat'.lost = beat.lost + 1
      BY <2>3
    <3>2. timed'.lease_expires_at = timed.lease_expires_at /\ timed'.lease_expires_at \in Nat
      BY <1>1, <1>11, <2>1, <2>3 DEF Windows
    <3>3. timed.lease_expires_at + beat.lost * HeartbeatInterval >= beat.at + LeaseTTL
      BY <2>1 DEF Windows
    <3>5. beat.at <= now /\ now - beat.at <= HeartbeatInterval
      BY <2>1 DEF Windows
    <3>6. now = beat.at + HeartbeatInterval
      BY <1>1, <1>11, <2>1, <3>5
    <3>4. timed'.lease_expires_at + beat'.lost * HeartbeatInterval >= beat'.at + LeaseTTL
      BY <1>1, <1>11, <1>2, <3>1, <3>2, <3>3, <3>6
    <3> QED
      BY <1>1, <1>11, <2>1, <2>3, <3>1, <3>2, <3>4 DEF Windows, Running
  <2> QED
    BY <1>8, <2>2, <2>3, StepLeaves
<1>9. CASE Elapse
  BY <1>1, <1>11, <1>9 DEF Elapse, Windows, Running, TickDue, loopVars
<1>10. CASE UNCHANGED clockVars
  BY <1>10 DEF clockVars, loopVars, Windows, Running
<1> QED
  BY <1>3, <1>4, <1>5, <1>6, <1>7, <1>8, <1>9, <1>10 DEF ClockNext

LEMMA WindowsAlive ==
  ASSUME Basic, Windows
  PROVE  HeldLeaseIsLive
<1> SUFFICES ASSUME Running PROVE ~ CanClaim(timed, now)
  BY DEF HeldLeaseIsLive
<1>1. /\ now \in Nat /\ beat.at \in Nat /\ beat.lost \in Nat
      /\ timed.lease_expires_at \in Instants
      /\ HeartbeatInterval \in Nat /\ MaxLostBeats \in Nat /\ LeaseTTL \in Nat
  BY ScheduleAssumption, WindowsAssumption DEF Basic, ClockTypes, ClockRow
<1>4. /\ beat.lost <= MaxLostBeats
      /\ now - beat.at <= HeartbeatInterval
      /\ timed.lease_expires_at # Null
      /\ timed.lease_expires_at + beat.lost * HeartbeatInterval >= beat.at + LeaseTTL
  BY Zenon DEF Windows
<1>5. timed.lease_expires_at \in Nat /\ now <= beat.at + HeartbeatInterval
  BY <1>1, <1>4 DEF Instants
<1>2. /\ beat.lost * HeartbeatInterval \in Nat
      /\ beat.lost * HeartbeatInterval <= MaxLostBeats * HeartbeatInterval
      /\ MaxLostBeats * HeartbeatInterval \in Nat
      /\ MaxLostBeats * HeartbeatInterval + HeartbeatInterval <= LeaseTTL
  BY <1>1, <1>4, Products, ScheduleAssumption
<1>3. timed.lease_expires_at >= now
  BY <1>1, <1>2, <1>4, <1>5
<1>6. ~ (timed.lease_expires_at < now)
  <2>1. now \in Nat /\ timed.lease_expires_at \in Nat
    BY <1>1, <1>5
  <2> QED
    BY <1>3, <2>1
<1>7. timed.lease_expires_at # Null
  BY <1>4
<1> QED
  BY <1>6, <1>7 DEF CanClaim

(* A running attempt holds a lease that nobody can claim, lost heartbeats    *)
(* included (coordinator.py: the heartbeat loop against the lease's TTL).    *)
THEOREM LeaseStaysLive == ClockSpec => []HeldLeaseIsLive
<1>1. ClockInit => Basic /\ Windows
  BY BasicInit, WindowsInit
<1>2. Basic /\ Windows /\ [ClockNext]_clockVars => (Basic /\ Windows)'
  BY BasicStep, WindowsStep
<1>3. Basic /\ Windows => HeldLeaseIsLive
  BY WindowsAlive
<1> QED
  BY <1>1, <1>2, <1>3, PTL DEF ClockSpec

-----------------------------------------------------------------------------
(* The distance between attempts.                                           *)

\* When an attempt starts the backoff is over, and the floor too unless it reloads by force.
LEMMA StartsMeans ==
  ASSUME Starts
  PROVE  /\ timed.next_attempt_at # Null => ~ (now < timed.next_attempt_at)
         /\ \/ timed.force_reload \/ ReconcileEligibility(timed, now) = "periodic_reload"
            \/ RemoteFloorSatisfied(timed, now, MinInterval)
<1> DEFINE reason == ReconcileEligibility(timed, now)
<1>1. /\ reason \in DueReasons
      /\ (reason \in {"dirty", "max_latency"} /\ ~ timed.force_reload)
           => RemoteFloorSatisfied(timed, now, MinInterval)
  BY DEF Starts
<1>2. timed.next_attempt_at # Null /\ now < timed.next_attempt_at => reason = "backoff"
  BY DEF ReconcileEligibility
<1>3. reason = "force_reload" => timed.force_reload
  BY DEF ReconcileEligibility
<1> HIDE DEF reason
<1>4. reason \in {"force_reload", "periodic_reload", "max_latency", "dirty"}
  BY <1>1 DEF DueReasons
<1>5. timed.next_attempt_at # Null => ~ (now < timed.next_attempt_at)
  BY <1>2, <1>4
<1>6. \/ timed.force_reload \/ reason = "periodic_reload"
      \/ RemoteFloorSatisfied(timed, now, MinInterval)
  BY <1>1, <1>3, <1>4, Zenon
<1> QED
  BY <1>5, <1>6, Zenon DEF reason

\* When the failure that was last counted lets the next attempt begin.
Until == failed.start + BackoffDelta(failed.n)

Pace ==
  /\ tried # Null => IF stage = "post" THEN tried = since
                                       ELSE timed.last_remote_attempt_at = tried
  /\ (stage \in {"preflight", "generate"} /\ ~ attempt.force /\ tried # Null)
       => since - tried >= MinInterval
  /\ failed # Null => Until <= now \/ (~ Running /\ timed.next_attempt_at = Until)

LEMMA PaceInit ==
  ASSUME ClockInit
  PROVE  Pace
BY DEF ClockInit, Pace

LEMMA UntilType ==
  ASSUME ClockTypes, failed # Null
  PROVE  Until \in Nat
<1>1. failed \in [start : Nat, n : Nat]
  BY DEF ClockTypes
<1> QED
  BY <1>1, Delays DEF Until

LEMMA PaceStep ==
  ASSUME Basic, Pace, [ClockNext]_clockVars
  PROVE  Pace'
<1>1. /\ now \in Nat /\ since \in Nat /\ tried \in Nat \union {Null}
      /\ timed.last_remote_attempt_at \in Nat \union {Null}
      /\ timed.next_attempt_at \in Nat \union {Null}
      /\ failed # Null => Until \in Nat
  BY UntilType DEF Basic, ClockTypes, ClockRow, Instants
<1>2. Null \notin Nat /\ MinInterval \in Nat
  BY NullAssumption, WindowsAssumption
<1>3. failed' = failed => Until' = Until
  BY DEF Until
<1>4. CASE Write
  <2>1. SameRetry(timed, timed')
    BY <1>4, StepLeaves
  <2>2. UNCHANGED <<now, stage, since, attempt, tried, failed>>
    BY <1>4 DEF Write
  <2> QED
    BY <1>3, <2>1, <2>2 DEF Pace, SameRetry, Running
<1>5. CASE ChangeSettings
  <2>1. tried' = Null /\ failed' = Null
    BY <1>5 DEF ChangeSettings
  <2> QED
    BY <2>1 DEF Pace
<1>6. CASE TickIdle
  <2>1. UNCHANGED <<now, timed, stage, attempt, tried, failed>> /\ stage = "waiting"
    BY <1>6 DEF TickIdle, TickDue, seenVars
  <2> QED
    BY <1>3, <2>1 DEF Pace, Running
<1>7. CASE TickStarts
  <2>1. /\ SameRetry(timed, timed') /\ stage = "waiting" /\ stage' = "preflight"
        /\ since' = now /\ now' = now
        /\ attempt'.force = (timed.force_reload \/ ReconcileEligibility(timed, now) = "periodic_reload")
    BY <1>7, StartLeaves
  <2>2. UNCHANGED <<tried, failed>> /\ Starts
    BY <1>7 DEF TickStarts
  <2>3. tried # Null => timed.last_remote_attempt_at = tried
    BY <2>1 DEF Pace
  <2>4. ~ attempt'.force => RemoteFloorSatisfied(timed, now, MinInterval)
    BY <2>1, <2>2, StartsMeans, Zenon
  <2>5. ~ attempt'.force /\ tried # Null => now - tried >= MinInterval
    BY <2>3, <2>4 DEF RemoteFloorSatisfied
  <2>6. failed # Null => Until <= now
    BY <1>1, <1>2, <2>2, StartsMeans DEF Pace
  <2> QED
    BY <1>3, <2>1, <2>2, <2>3, <2>5, <2>6 DEF Pace, SameRetry
<1>8. CASE Capture
  <2>1. /\ stage = "preflight" /\ stage' = "generate"
        /\ UNCHANGED <<now, timed, since, tried, failed>>
    BY <1>8 DEF Capture
  <2>2. attempt'.force = attempt.force
    BY <1>8, Zenon DEF Capture, Basic, ClockTypes, AttemptType
  <2> QED
    BY <1>3, <2>1, <2>2 DEF Pace, Running
<1>9. CASE SendPost
  <2>1. /\ stage = "generate" /\ stage' = "post" /\ tried' = since /\ since' = since
        /\ UNCHANGED <<now, timed, failed>>
    BY <1>9 DEF SendPost
  <2> QED
    BY <1>3, <2>1 DEF Pace, Running
<1>10. CASE EndGuarded \/ EndNoop
  <2>1. AttemptOver /\ SameRetry(timed, timed')
    BY <1>10, GuardedLeaves, NoopLeaves
  <2>2. UNCHANGED <<tried, failed>> /\ stage \in {"preflight", "generate"} /\ Running
    BY <1>10 DEF EndGuarded, EndNoop, Running
  <2> QED
    BY <1>3, <2>1, <2>2 DEF Pace, AttemptOver, SameRetry, Running
<1>11. CASE EndAccepted
  <2>1. /\ AttemptOver /\ timed'.last_remote_attempt_at = since
        /\ \/ timed'.next_attempt_at = Null /\ failed' \in {failed, Null}
           \/ /\ failed' = [start |-> since, n |-> 1]
              /\ timed'.next_attempt_at = since + BackoffDelta(1)
    BY <1>11, AcceptedLeaves
  <2>2. tried' = tried /\ stage = "post" /\ Running
    BY <1>11 DEF EndAccepted, Running
  <2>3. tried # Null => tried = since
    BY <2>2 DEF Pace
  <2>4. failed' # Null => Until' <= now' \/ (~ Running' /\ timed'.next_attempt_at = Until')
    <3>1. CASE failed' = [start |-> since, n |-> 1] /\ timed'.next_attempt_at = since + BackoffDelta(1)
      <4>1. Until' = since + BackoffDelta(1)
        BY <3>1 DEF Until
      <4> QED
        BY <2>1, <3>1, <4>1 DEF AttemptOver, Running
    <3>2. CASE failed' = failed
      BY <1>3, <2>1, <2>2, <3>2 DEF Pace, AttemptOver
    <3> QED
      BY <2>1, <3>1, <3>2
  <2> QED
    BY <2>1, <2>2, <2>3, <2>4 DEF Pace, AttemptOver
<1>12. CASE EndFailed
  <2>1. /\ AttemptOver /\ timed'.last_remote_attempt_at = since
        /\ failed' = [start |-> since, n |-> timed'.failure_count]
        /\ timed'.next_attempt_at = since + BackoffDelta(timed'.failure_count)
    BY <1>12, FailedLeaves
  <2>2. tried' = since
    BY <1>12 DEF EndFailed
  <2>3. Until' = since + BackoffDelta(timed'.failure_count)
    BY <2>1 DEF Until
  <2> QED
    BY <2>1, <2>2, <2>3 DEF Pace, AttemptOver, Running
<1>13. CASE EndAbandoned
  <2>1. AttemptOver
    BY <1>13, AbandonedLeaves
  <2>2. tried' = Null /\ failed' = failed /\ Running
    BY <1>13 DEF EndAbandoned
  <2> QED
    BY <1>3, <2>1, <2>2 DEF Pace, AttemptOver
<1>14. CASE Heartbeat
  <2>1. SameRetry(timed, timed')
    BY <1>14, StepLeaves
  <2>2. UNCHANGED <<now, stage, since, attempt, tried, failed>>
    BY <1>14 DEF Heartbeat, seenVars
  <2> QED
    BY <1>3, <2>1, <2>2 DEF Pace, SameRetry, Running
<1>15. CASE Elapse
  <2>1. now' = now + 1 /\ UNCHANGED <<timed, stage, since, attempt, tried, failed>>
    BY <1>15 DEF Elapse, loopVars
  <2> QED
    BY <1>1, <1>3, <2>1 DEF Pace, Running
<1>16. CASE UNCHANGED clockVars
  BY <1>3, <1>16 DEF clockVars, loopVars, seenVars, Pace, Running
<1> QED
  BY <1>4, <1>5, <1>6, <1>7, <1>8, <1>9, <1>10, <1>11, <1>12, <1>13, <1>14, <1>15, <1>16 DEF ClockNext

(* Two reloads for dirt begin at least the floor apart, and after the n-th   *)
(* failure in a row the next attempt begins the n-th delay later than the    *)
(* failed one (coordinator.py, sync_state.py), for every choice of windows.  *)
THEOREM AttemptsKeepTheirDistance == ClockSpec => AttemptsPaced
<1> DEFINE Paced == /\ (SendPost /\ ~ attempt.force /\ tried # Null) => since - tried >= MinInterval
                    /\ (TickStarts /\ failed # Null)
                         => now - failed.start >= BackoffDelta(failed.n)
<1>1. ClockInit => Basic /\ Pace
  BY BasicInit, PaceInit
<1>2. Basic /\ Pace /\ [ClockNext]_clockVars => (Basic /\ Pace)'
  BY BasicStep, PaceStep
<1>3. Basic /\ Pace /\ [ClockNext]_clockVars => [Paced]_clockVars
  <2>1. ASSUME Basic, Pace, SendPost, ~ attempt.force, tried # Null
        PROVE  since - tried >= MinInterval
    BY <2>1 DEF SendPost, Pace
  <2>2. ASSUME Basic, Pace, TickStarts, failed # Null
        PROVE  now - failed.start >= BackoffDelta(failed.n)
    <3>1. /\ now \in Nat /\ Until \in Nat /\ timed.next_attempt_at \in Nat \union {Null}
          /\ failed.start \in Nat /\ BackoffDelta(failed.n) \in Nat /\ Null \notin Nat
      BY <2>2, UntilType, Delays, NullAssumption DEF Basic, ClockTypes, ClockRow, Instants
    <3>2. Until <= now
      BY <2>2, <3>1, StartsMeans DEF Pace, TickStarts
    <3> QED
      BY <3>1, <3>2 DEF Until
  <2> QED
    BY <2>1, <2>2
<1> QED
  BY <1>1, <1>2, <1>3, PTL DEF ClockSpec, AttemptsPaced

-----------------------------------------------------------------------------
(* How long a write can wait for an attempt that carries it.                *)

(* An instant, unless it is Null, is at most the bound. *)
UpTo(at, bound) == at # Null => at <= bound

Dates ==
  /\ UpTo(timed.first_dirty_at, now)
  /\ UpTo(timed.last_remote_attempt_at, IF Running THEN since ELSE now)
  /\ UpTo(timed.next_attempt_at, now + LongestBackoff)
  /\ UpTo(unseen, now)
  /\ UpTo(captured, now)

Marked == Dirty(timed) /\ timed.first_dirty_at # Null

InFlight == stage \in {"generate", "post"}

(* Every write that waits is marked in the row since it was made, and what   *)
(* holds the next attempt back ends a bounded time after it.                 *)
Waits ==
  /\ (ready /\ unseen # Null) =>
       /\ Marked
       /\ timed.first_dirty_at <= unseen
       /\ UpTo(timed.last_remote_attempt_at, unseen)
       /\ UpTo(timed.next_attempt_at, unseen + LongestBackoff)
       /\ ~ Running => since <= unseen + Slack
  /\ (ready /\ captured # Null) => Marked
  /\ (stage = "preflight" /\ (ready \/ attempt.ready) /\ unseen # Null)
       => since <= unseen + Slack + PollInterval
  /\ (stage = "preflight" /\ ready /\ ~ attempt.ready)
       => unseen # Null /\ unseen >= since /\ attempt.guard < timed.desired_revision
  /\ ~ InFlight => captured = Null
  /\ (InFlight /\ captured # Null) => since <= captured + Slack + PollInterval
  /\ (InFlight /\ unseen # Null) => unseen >= since /\ timed.desired_revision > attempt.target

\* What keeps a tick from starting an attempt, when the row is dirty.
LEMMA HeldBack ==
  ASSUME Basic, ~ Starts, Marked
  PROVE  \/ timed.next_attempt_at # Null /\ now < timed.next_attempt_at
         \/ now - timed.first_dirty_at < MaxDirtyLatency
         \/ timed.last_remote_attempt_at # Null /\ now - timed.last_remote_attempt_at < MinInterval
<1> DEFINE reason == ReconcileEligibility(timed, now)
<1>1. /\ now \in Nat /\ timed.first_dirty_at \in Nat
      /\ timed.last_remote_attempt_at \in Nat \union {Null}
      /\ timed.next_attempt_at \in Nat \union {Null}
  BY DEF Basic, ClockTypes, ClockRow, Instants, Marked
<1>2. Dirty(timed) /\ timed.first_dirty_at # Null
  BY DEF Marked
<1>3. SUFFICES ASSUME timed.next_attempt_at # Null => ~ (now < timed.next_attempt_at),
                      ~ (now - timed.first_dirty_at < MaxDirtyLatency)
               PROVE  timed.last_remote_attempt_at # Null /\ now - timed.last_remote_attempt_at < MinInterval
  OBVIOUS
<1>4. Reached(timed.first_dirty_at, MaxDirtyLatency, now)
  BY <1>1, <1>2, <1>3, WindowsAssumption DEF Reached
<1>5. reason \in {"force_reload", "periodic_reload", "max_latency"}
  BY <1>2, <1>3, <1>4 DEF ReconcileEligibility
<1>6. ~ RemoteFloorSatisfied(timed, now, MinInterval)
  BY <1>5, Zenon DEF Starts, DueReasons
<1> QED
  BY <1>1, <1>6, WindowsAssumption DEF RemoteFloorSatisfied

LEMMA DatesInit ==
  ASSUME ClockInit
  PROVE  Dates
<1>1. /\ timed.first_dirty_at = 0 /\ timed.last_remote_attempt_at = Null
      /\ timed.next_attempt_at = Null /\ unseen = 0 /\ captured = Null /\ now = 0
  BY DEF ClockInit, Seed
<1> QED
  BY <1>1 DEF Dates, UpTo

LEMMA WaitsInit ==
  ASSUME ClockInit
  PROVE  Waits
<1>1. /\ timed.first_dirty_at = 0 /\ timed.last_remote_attempt_at = Null
      /\ timed.desired_revision = 1 /\ timed.applied_revision = 0
      /\ timed.next_attempt_at = Null /\ unseen = 0 /\ captured = Null /\ since = 0
      /\ stage = "waiting"
  BY DEF ClockInit, Seed
<1>2. 0 # Null /\ Slack \in Nat
  BY NullAssumption, SlackCovers
<1> QED
  BY <1>1, <1>2 DEF Waits, UpTo, Marked, Dirty, Running, InFlight

LEMMA DatesStep ==
  ASSUME Basic, Basic', Windows, Dates, [ClockNext]_clockVars
  PROVE  Dates'
<1>1. /\ now \in Nat /\ since \in Nat /\ since <= now
      /\ unseen \in Nat \union {Null} /\ captured \in Nat \union {Null}
      /\ timed.first_dirty_at \in Nat \union {Null}
      /\ timed.last_remote_attempt_at \in Nat \union {Null}
      /\ timed.next_attempt_at \in Nat \union {Null}
      /\ timed'.failure_count \in Nat
  BY DEF Basic, ClockTypes, ClockRow, Instants, Windows
<1>2. Null \notin Nat /\ LongestBackoff \in Nat
  BY NullAssumption, Delays
<1>3. CASE Write
  <2>1. /\ SameRetry(timed, timed')
        /\ timed'.first_dirty_at = (IF timed.first_dirty_at = Null THEN now ELSE timed.first_dirty_at)
    BY <1>3, StepLeaves
  <2>2. unseen' = Oldest(unseen, now) /\ UNCHANGED <<now, stage, since, captured>>
    BY <1>3 DEF Write
  <2>3. UpTo(unseen', now)
    BY <1>1, <1>2, <2>2, OldestType DEF UpTo, Dates, Instants
  <2> QED
    BY <1>1, <2>1, <2>2, <2>3 DEF Dates, SameRetry, Running, UpTo
<1>4. CASE ChangeSettings
  <2>1. /\ timed'.last_remote_attempt_at = Null /\ timed'.next_attempt_at = Null
        /\ timed'.first_dirty_at = (IF timed.first_dirty_at = Null THEN now ELSE timed.first_dirty_at)
    BY <1>4, StepLeaves
  <2>2. unseen' = now /\ UNCHANGED <<now, stage, since, captured>>
    BY <1>4 DEF ChangeSettings
  <2> QED
    BY <1>1, <2>1, <2>2 DEF Dates, UpTo
<1>5. CASE TickIdle
  <2>1. UNCHANGED <<now, timed, stage, unseen, captured>> /\ stage = "waiting"
    BY <1>5 DEF TickIdle, TickDue, seenVars
  <2> QED
    BY <2>1 DEF Dates, Running
<1>6. CASE TickStarts
  <2>1. /\ SameRetry(timed, timed') /\ SameWork(timed, timed') /\ stage = "waiting" /\ stage' = "preflight"
        /\ since' = now /\ now' = now
    BY <1>6, StartLeaves
  <2>2. UNCHANGED <<unseen, captured>>
    BY <1>6 DEF TickStarts
  <2> QED
    BY <2>1, <2>2 DEF Dates, SameRetry, SameWork, Running
<1>7. CASE Capture
  <2>1. /\ stage = "preflight" /\ stage' = "generate" /\ captured' = unseen /\ unseen' = Null
        /\ UNCHANGED <<now, timed, since>>
    BY <1>7 DEF Capture
  <2> QED
    BY <2>1 DEF Dates, Running, UpTo
<1>8. CASE SendPost
  <2>1. /\ stage = "generate" /\ stage' = "post" /\ UNCHANGED <<now, timed, since, unseen, captured>>
    BY <1>8 DEF SendPost
  <2> QED
    BY <2>1 DEF Dates, Running
<1>9. CASE EndGuarded \/ EndNoop
  <2>1. /\ AttemptOver /\ SameRetry(timed, timed')
        /\ timed'.first_dirty_at \in {timed.first_dirty_at, Null}
    BY <1>9, GuardedLeaves, NoopLeaves DEF DoneUpTo
  <2>2. Running /\ unseen' = unseen /\ captured' \in {captured, Null}
    BY <1>9 DEF EndGuarded, EndNoop, Running, Delivered
  <2> QED
    BY <1>1, <2>1, <2>2 DEF Dates, AttemptOver, SameRetry, Running, UpTo
<1>10. CASE EndAccepted
  <2>1. /\ AttemptOver /\ timed'.last_remote_attempt_at = since
        /\ timed'.first_dirty_at \in {timed.first_dirty_at, Null}
        /\ timed'.next_attempt_at \in {Null, since + BackoffDelta(1)}
    BY <1>10, AcceptedLeaves DEF DoneUpTo
  <2>2. Running /\ unseen' = unseen /\ captured' = Null
    BY <1>10 DEF EndAccepted, Running, Delivered
  <2>3. since + BackoffDelta(1) <= now + LongestBackoff
    BY <1>1, Delays
  <2> QED
    BY <1>1, <1>2, <2>1, <2>2, <2>3 DEF Dates, AttemptOver, Running, UpTo
<1>11. CASE EndFailed
  <2>1. /\ AttemptOver /\ timed'.last_remote_attempt_at = since /\ SameWork(timed, timed')
        /\ timed'.next_attempt_at = since + BackoffDelta(timed'.failure_count)
    BY <1>11, FailedLeaves
  <2>2. Running /\ unseen' \in {now, Null} /\ captured' = Null
    BY <1>11 DEF EndFailed, Undelivered
  <2>3. since + BackoffDelta(timed'.failure_count) <= now + LongestBackoff
    BY <1>1, Delays
  <2> QED
    BY <1>1, <1>2, <2>1, <2>2, <2>3 DEF Dates, AttemptOver, Running, UpTo, SameWork
<1>12. CASE EndAbandoned
  <2>1. AttemptOver /\ SameWork(timed, timed') /\ SameRetry(timed, timed')
    BY <1>12, AbandonedLeaves
  <2>2. Running /\ unseen' \in {now, Null} /\ captured' = Null
    BY <1>12 DEF EndAbandoned, Undelivered
  <2> QED
    BY <1>1, <2>1, <2>2 DEF Dates, AttemptOver, Running, UpTo, SameWork, SameRetry
<1>13. CASE Heartbeat
  <2>1. SameRetry(timed, timed') /\ SameWork(timed, timed')
    BY <1>13, StepLeaves
  <2>2. UNCHANGED <<now, stage, since, unseen, captured>>
    BY <1>13 DEF Heartbeat, seenVars
  <2> QED
    BY <2>1, <2>2 DEF Dates, SameRetry, SameWork, Running
<1>14. CASE Elapse
  <2>1. now' = now + 1 /\ UNCHANGED <<timed, stage, since, unseen, captured>>
    BY <1>14 DEF Elapse, loopVars
  <2> QED
    BY <1>1, <1>2, <2>1 DEF Dates, Running, UpTo
<1>15. CASE UNCHANGED clockVars
  BY <1>15 DEF clockVars, loopVars, seenVars, Dates, Running
<1> QED
  BY <1>3, <1>4, <1>5, <1>6, <1>7, <1>8, <1>9, <1>10, <1>11, <1>12, <1>13, <1>14, <1>15 DEF ClockNext

LEMMA WaitsStep ==
  ASSUME Basic, Basic', Windows, Dates, Waits, [ClockNext]_clockVars
  PROVE  Waits'
<1>1. /\ now \in Nat /\ since \in Nat /\ since <= now
      /\ unseen \in Nat \union {Null} /\ captured \in Nat \union {Null}
      /\ timed.first_dirty_at \in Nat \union {Null}
      /\ timed.last_remote_attempt_at \in Nat \union {Null}
      /\ timed.next_attempt_at \in Nat \union {Null}
      /\ timed.desired_revision \in Nat /\ timed.applied_revision \in Nat
      /\ timed'.desired_revision \in Nat /\ timed'.applied_revision \in Nat
      /\ timed.applied_revision <= timed.desired_revision
      /\ attempt.guard \in Nat /\ attempt.target \in Nat
      /\ attempt.guard <= timed.desired_revision /\ attempt.target <= timed.desired_revision
      /\ timed'.failure_count \in Nat
  BY DEF Basic, ClockTypes, ClockRow, Instants, Windows, AttemptType
<1>2. /\ Null \notin Nat /\ LongestBackoff \in Nat /\ Slack \in Nat
      /\ MaxDirtyLatency <= Slack /\ MinInterval <= Slack
      /\ AttemptTimeout <= Slack /\ LongestBackoff <= Slack
      /\ MaxDirtyLatency \in Nat /\ MinInterval \in Nat /\ AttemptTimeout \in Nat /\ PollInterval \in Nat
  BY NullAssumption, WindowsAssumption, ScheduleAssumption, Delays, SlackCovers
<1>3. Running => now - since <= AttemptTimeout
  BY DEF Windows
<1>4. ~ Running => now - since <= PollInterval
  BY DEF Windows
<1>5. /\ UpTo(timed.first_dirty_at, now)
      /\ UpTo(timed.last_remote_attempt_at, now)
      /\ UpTo(timed.next_attempt_at, now + LongestBackoff)
  BY <1>1 DEF Dates, UpTo
<1>6. CASE Write
  <2>1. /\ SameRetry(timed, timed')
        /\ timed'.desired_revision = timed.desired_revision + 1
        /\ timed'.applied_revision = timed.applied_revision
        /\ timed'.first_dirty_at = (IF timed.first_dirty_at = Null THEN now ELSE timed.first_dirty_at)
    BY <1>6, StepLeaves
  <2>2. unseen' = Oldest(unseen, now) /\ UNCHANGED <<now, stage, since, captured, attempt, ready>>
    BY <1>6 DEF Write
  <2>3. Marked'
    BY <1>1, <1>2, <2>1 DEF Marked, Dirty
  <2>4. CASE unseen = Null
    <3>1. unseen' = now
      BY <1>1, <2>2, <2>4, OldestType DEF Instants
    <3>2. timed'.first_dirty_at <= now
      BY <1>1, <1>5, <2>1 DEF UpTo
    <3>3. /\ UpTo(timed'.last_remote_attempt_at, now)
          /\ UpTo(timed'.next_attempt_at, now + LongestBackoff)
      BY <1>5, <2>1 DEF SameRetry
    <3>4. /\ since <= now + Slack /\ since <= now + Slack + PollInterval
          /\ attempt.guard < timed'.desired_revision /\ timed'.desired_revision > attempt.target
      BY <1>1, <1>2, <2>1
    <3>5. now # Null /\ now >= since
      BY <1>1, <1>2
    <3>6. (InFlight' /\ captured' # Null) => since' <= captured' + Slack + PollInterval
      BY <2>2 DEF Waits, InFlight
    <3>7. ~ InFlight' => captured' = Null
      BY <2>2 DEF Waits, InFlight
    <3>8. /\ timed'.first_dirty_at <= unseen'
          /\ UpTo(timed'.last_remote_attempt_at, unseen')
          /\ UpTo(timed'.next_attempt_at, unseen' + LongestBackoff)
          /\ since' <= unseen' + Slack /\ since' <= unseen' + Slack + PollInterval
          /\ unseen' # Null /\ unseen' >= since'
          /\ attempt'.guard < timed'.desired_revision /\ timed'.desired_revision > attempt'.target
      BY <2>2, <3>1, <3>2, <3>3, <3>4, <3>5
    <3> QED
      BY <2>3, <3>6, <3>7, <3>8 DEF Waits
  <2>5. CASE unseen # Null
    <3>1. unseen <= now
      BY <2>5 DEF Dates, UpTo
    <3>7. unseen \in Instants /\ now \in Instants /\ now # Null
      BY <1>1, <1>2 DEF Instants
    <3>8. Oldest(unseen, now) \in {unseen, now} /\ Oldest(unseen, now) <= unseen
      BY <2>5, <3>7, OldestType
    <3>2. unseen' = unseen
      BY <1>1, <2>2, <2>5, <3>1, <3>8
    <3> QED
      BY <1>1, <1>2, <2>1, <2>2, <2>3, <2>5, <3>2 DEF Waits, SameRetry, Running, InFlight, UpTo, Marked
  <2> QED
    BY <2>4, <2>5
<1>7. CASE ChangeSettings
  <2>1. /\ timed'.last_remote_attempt_at = Null /\ timed'.next_attempt_at = Null
        /\ timed'.desired_revision = timed.desired_revision + 1
        /\ timed'.applied_revision = timed.applied_revision
        /\ timed'.first_dirty_at = (IF timed.first_dirty_at = Null THEN now ELSE timed.first_dirty_at)
    BY <1>7, StepLeaves
  <2>2. unseen' = now /\ UNCHANGED <<now, stage, since, captured, attempt>>
    BY <1>7 DEF ChangeSettings
  <2>3. Marked'
    BY <1>1, <1>2, <2>1 DEF Marked, Dirty
  <2> QED
    BY <1>1, <1>2, <1>5, <2>1, <2>2, <2>3 DEF Waits, Running, InFlight, UpTo
<1>8. CASE TickIdle
  <2>1. /\ UNCHANGED <<now, timed, ready, stage, unseen, captured, attempt>> /\ stage = "waiting"
        /\ since' = now /\ ~ Starts
    BY <1>8 DEF TickIdle, TickDue, seenVars
  <2>2. ready /\ unseen # Null => now <= unseen + Slack
    <3> SUFFICES ASSUME ready, unseen # Null PROVE now <= unseen + Slack
      OBVIOUS
    <3>1. /\ Marked /\ timed.first_dirty_at <= unseen
          /\ UpTo(timed.last_remote_attempt_at, unseen)
          /\ UpTo(timed.next_attempt_at, unseen + LongestBackoff)
      BY DEF Waits
    <3>2. timed.first_dirty_at \in Nat
      BY <1>1, <3>1 DEF Marked
    <3> QED
      BY <1>1, <1>2, <2>1, <3>1, <3>2, HeldBack DEF UpTo
  <2> QED
    BY <2>1, <2>2 DEF Waits, Running, InFlight, Marked
<1>9. CASE TickStarts
  <2>1. /\ SameRetry(timed, timed') /\ SameWork(timed, timed')
        /\ stage = "waiting" /\ stage' = "preflight" /\ since' = now /\ now' = now
        /\ attempt'.ready = ready
    BY <1>9, StartLeaves
  <2>2. UNCHANGED <<ready, unseen, captured>>
    BY <1>9 DEF TickStarts
  <2>3. ready /\ unseen # Null => now <= unseen + Slack + PollInterval
    BY <1>1, <1>2, <1>4, <2>1 DEF Waits, Running
  <2>4. captured = Null
    BY <2>1 DEF Waits, InFlight
  <2>5. ready /\ unseen # Null => Marked'
    BY <2>1 DEF Waits, Marked, Dirty, SameWork
  <2> QED
    BY <2>1, <2>2, <2>3, <2>4, <2>5 DEF Waits, SameRetry, SameWork, Running, InFlight
<1>10. CASE Capture
  <2>1. /\ stage = "preflight" /\ stage' = "generate" /\ captured' = unseen /\ unseen' = Null
        /\ attempt.ready /\ UNCHANGED <<now, timed, since, ready>>
    BY <1>10 DEF Capture
  <2>2. captured' # Null => since <= captured' + Slack + PollInterval
    BY <2>1 DEF Waits
  <2>3. ready /\ captured' # Null => Marked'
    BY <2>1 DEF Waits, Marked
  <2> QED
    BY <2>1, <2>2, <2>3 DEF Waits, InFlight, Running
<1>11. CASE SendPost
  <2>1. /\ stage = "generate" /\ stage' = "post"
        /\ UNCHANGED <<now, timed, since, unseen, captured, attempt, ready>>
    BY <1>11 DEF SendPost
  <2> QED
    BY <2>1 DEF Waits, InFlight, Running, Marked
<1>12. CASE EndGuarded
  <2>1. AttemptOver /\ SameRetry(timed, timed') /\ DoneUpTo(timed, timed', attempt.guard)
    BY <1>12, GuardedLeaves
  <2>2. /\ stage = "preflight" /\ ~ attempt.ready /\ UNCHANGED <<unseen, captured>>
    BY <1>12 DEF EndGuarded
  <2>3. captured = Null
    BY <2>2 DEF Waits, InFlight
  <2>4. ready => unseen # Null /\ unseen >= since /\ attempt.guard < timed.desired_revision
    BY <2>2 DEF Waits
  <2>5. ready => Marked' /\ timed'.first_dirty_at = timed.first_dirty_at
    BY <1>1, <2>1, <2>4 DEF Waits, Marked, Dirty, DoneUpTo
  <2>6. ready => now <= unseen + Slack
    BY <1>1, <1>2, <1>3, <2>2, <2>4 DEF Running
  <2> QED
    BY <2>1, <2>2, <2>3, <2>4, <2>5, <2>6 DEF Waits, AttemptOver, SameRetry, Running, InFlight
<1>13. CASE EndNoop \/ EndAccepted
  <2>1. /\ AttemptOver /\ DoneUpTo(timed, timed', attempt.target)
        /\ timed'.last_remote_attempt_at \in {timed.last_remote_attempt_at, since}
        /\ timed'.next_attempt_at \in {timed.next_attempt_at, Null, since + BackoffDelta(1)}
    BY <1>13, NoopLeaves, AcceptedLeaves DEF SameRetry
  <2>2. InFlight /\ Running /\ unseen' = unseen /\ captured' = Null
    BY <1>13 DEF EndNoop, EndAccepted, InFlight, Running, Delivered
  <2>3. unseen # Null => unseen >= since /\ timed.desired_revision > attempt.target
    BY <2>2 DEF Waits
  <2>4. ready /\ unseen # Null => Marked' /\ timed'.first_dirty_at = timed.first_dirty_at
    BY <1>1, <2>1, <2>3 DEF Waits, Marked, Dirty, DoneUpTo
  <2>5. unseen # Null => since + BackoffDelta(1) <= unseen + LongestBackoff
    BY <1>1, <2>3, Delays
  <2>6. unseen # Null => now <= unseen + Slack
    BY <1>1, <1>2, <1>3, <2>2, <2>3
  <2>7. ready /\ unseen # Null => UpTo(timed'.last_remote_attempt_at, unseen)
    BY <2>1, <2>3 DEF Waits, UpTo
  <2>8. ready /\ unseen # Null => UpTo(timed'.next_attempt_at, unseen + LongestBackoff)
    BY <2>1, <2>5 DEF Waits, UpTo
  <2>9. ready /\ unseen # Null => timed'.first_dirty_at <= unseen
    BY <2>4 DEF Waits
  <2>10. /\ ready' = ready /\ stage' = "waiting" /\ since' = now
    BY <2>1 DEF AttemptOver
  <2> QED
    BY <2>2, <2>4, <2>6, <2>7, <2>8, <2>9, <2>10 DEF Waits, Running, InFlight
<1>14. CASE EndFailed \/ EndAbandoned
  <2>1. /\ AttemptOver /\ SameWork(timed, timed')
    BY <1>14, FailedLeaves, AbandonedLeaves
  <2>2. captured' = Null /\ unseen' = (IF captured = Null /\ unseen = Null THEN Null ELSE now)
    BY <1>14 DEF EndFailed, EndAbandoned, Undelivered
  <2>3. ready /\ unseen' # Null => Marked' /\ timed'.first_dirty_at = timed.first_dirty_at
    BY <2>1, <2>2 DEF Waits, Marked, Dirty, SameWork
  <2>4. Dates'
    BY DatesStep
  <2>5. ready' = ready /\ stage' = "waiting" /\ since' = now /\ now' = now
    BY <2>1 DEF AttemptOver
  <2>6. /\ UpTo(timed'.first_dirty_at, now) /\ UpTo(timed'.last_remote_attempt_at, now)
        /\ UpTo(timed'.next_attempt_at, now + LongestBackoff)
    BY <2>4, <2>5 DEF Dates, Running
  <2>7. unseen' # Null => unseen' = now
    BY <2>2
  <2>8. ready /\ unseen' # Null => timed'.first_dirty_at <= now
    BY <2>3, <2>6 DEF UpTo, Marked
  <2>9. now <= now + Slack
    BY <1>1, <1>2
  <2> QED
    BY <2>2, <2>3, <2>5, <2>6, <2>7, <2>8, <2>9 DEF Waits, Running, InFlight
<1>15. CASE Heartbeat
  <2>1. SameRetry(timed, timed') /\ SameWork(timed, timed')
    BY <1>15, StepLeaves
  <2>2. UNCHANGED <<now, ready, stage, since, unseen, captured, attempt>>
    BY <1>15 DEF Heartbeat, seenVars
  <2>3. Marked' = Marked
    BY <2>1 DEF Marked, Dirty, SameWork
  <2> QED
    BY <2>1, <2>2, <2>3 DEF Waits, SameRetry, SameWork, Running, InFlight
<1>16. CASE Elapse
  <2>1. UNCHANGED <<timed, ready, stage, since, unseen, captured, attempt>>
    BY <1>16 DEF Elapse, loopVars
  <2> QED
    BY <2>1 DEF Waits, Running, InFlight, Marked
<1>17. CASE UNCHANGED clockVars
  BY <1>17 DEF clockVars, loopVars, seenVars, Waits, Running, InFlight, Marked
<1> QED
  BY <1>6, <1>7, <1>8, <1>9, <1>10, <1>11, <1>12, <1>13, <1>14, <1>15, <1>16, <1>17 DEF ClockNext

LEMMA WaitsInTime ==
  ASSUME Basic, Windows, Dates, Waits
  PROVE  ReflectedInTime
<1> SUFFICES ASSUME ready, Oldest(captured, unseen) # Null
             PROVE  now - Oldest(captured, unseen) <= Slack + PollInterval + AttemptTimeout
  BY DEF ReflectedInTime, Slack
<1>1. /\ now \in Nat /\ since \in Nat /\ captured \in Instants /\ unseen \in Instants
      /\ captured # Null => captured \in Nat
      /\ unseen # Null => unseen \in Nat
      /\ stage \in {"waiting", "preflight", "generate", "post"}
      /\ Slack \in Nat /\ PollInterval \in Nat /\ AttemptTimeout \in Nat
  BY ScheduleAssumption, SlackCovers DEF Basic, ClockTypes, Instants
<1>2. unseen # Null => now <= unseen + Slack + PollInterval + AttemptTimeout
  <2>1. CASE stage = "waiting"
    BY <1>1, <2>1 DEF Windows, Waits, Running
  <2>2. CASE stage = "preflight"
    BY <1>1, <2>2 DEF Windows, Waits, Running
  <2>3. CASE InFlight
    BY <1>1, <2>3 DEF Windows, Waits, Running, InFlight
  <2> QED
    BY <1>1, <2>1, <2>2, <2>3 DEF InFlight
<1>3. captured # Null => now <= captured + Slack + PollInterval + AttemptTimeout
  BY <1>1 DEF Windows, Waits, Running, InFlight
<1>4. Oldest(captured, unseen) \in {captured, unseen}
  BY <1>1, OldestType
<1> QED
  BY <1>1, <1>2, <1>3, <1>4

(* While the settings are ready no write waits longer for an attempt that    *)
(* carries it than the longest of latency, floor, backoff and a whole        *)
(* attempt, one poll and the attempt itself (coordinator.py: _run, _tick).   *)
THEOREM WritesReachPaisaInTime == ClockSpec => []ReflectedInTime
<1> DEFINE Inv == Basic /\ Windows /\ Dates /\ Waits
<1>1. ClockInit => Inv
  BY BasicInit, WindowsInit, DatesInit, WaitsInit
<1>2. Inv /\ [ClockNext]_clockVars => Inv'
  BY BasicStep, WindowsStep, DatesStep, WaitsStep
<1>3. Inv => ReflectedInTime
  BY WaitsInTime
<1> QED
  BY <1>1, <1>2, <1>3, PTL DEF ClockSpec

-----------------------------------------------------------------------------
(* The coordinator's own commits never make it spin.                        *)

\* The row gives no reason to start an attempt now.
Settled == ReconcileEligibility(timed, now) \notin DueReasons

Calm ==
  /\ spins <= 1
  /\ spins > 0 =>
       /\ ready
       /\ IF Running
            THEN /\ since = now /\ attempt.ready
                 /\ InFlight => attempt.target = timed.desired_revision
                 /\ ~ attempt.force =>
                      /\ ~ timed.force_reload
                      /\ ~ Reached(timed.last_remote_attempt_at, ForceReloadInterval, now)
            ELSE Settled

LEMMA CalmInit ==
  ASSUME ClockInit
  PROVE  Calm
BY DEF ClockInit, Calm

LEMMA CalmStep ==
  ASSUME "raise" \notin Troubles, Basic, Basic', Calm, [ClockNext]_clockVars
  PROVE  Calm'
<1>1. /\ now \in Nat /\ since \in Nat /\ spins \in Nat
      /\ timed.last_remote_attempt_at \in Nat \union {Null}
      /\ timed.next_attempt_at \in Nat \union {Null}
      /\ timed.desired_revision \in Nat /\ timed'.desired_revision \in Nat
      /\ timed'.failure_count \in Nat
  BY DEF Basic, ClockTypes, ClockRow, Instants
<1>2. /\ Null \notin Nat /\ AttemptTimeout \in Nat /\ AttemptTimeout > 0
      /\ ForceReloadInterval \in Nat /\ ForceReloadInterval > 0
  BY NullAssumption, WindowsAssumption, ScheduleAssumption
<1>3. CASE Write \/ ChangeSettings \/ Elapse
  <2>1. spins' = 0
    BY <1>3 DEF Write, ChangeSettings, Elapse
  <2> QED
    BY <2>1 DEF Calm
<1>4. CASE TickIdle
  <2>1. UNCHANGED <<now, timed, ready, stage, attempt, spins>> /\ stage = "waiting"
    BY <1>4 DEF TickIdle, TickDue, seenVars
  <2> QED
    BY <2>1 DEF Calm, Running, Settled
<1>5. CASE TickStarts
  <2>1. /\ SameRetry(timed, timed') /\ SameWork(timed, timed')
        /\ stage = "waiting" /\ stage' = "preflight" /\ since' = now /\ now' = now
        /\ attempt'.ready = ready
        /\ attempt'.force = (timed.force_reload \/ ReconcileEligibility(timed, now) = "periodic_reload")
    BY <1>5, StartLeaves
  <2>2. /\ ready' = ready /\ spins' = (IF ready THEN spins + 1 ELSE 0) /\ Starts
    BY <1>5 DEF TickStarts
  <2>3. spins = 0
    BY <1>1, <2>1, <2>2 DEF Calm, Running, Settled, Starts
  <2>4. ~ attempt'.force => /\ ~ timed.force_reload
                            /\ ~ Reached(timed.last_remote_attempt_at, ForceReloadInterval, now)
    <3>1. SUFFICES ASSUME ~ timed.force_reload, ReconcileEligibility(timed, now) # "periodic_reload"
                   PROVE  ~ Reached(timed.last_remote_attempt_at, ForceReloadInterval, now)
      BY <2>1, Zenon
    <3>2. ~ (timed.next_attempt_at # Null /\ now < timed.next_attempt_at)
      BY <2>2, StartsMeans
    <3> QED
      BY <3>1, <3>2 DEF ReconcileEligibility
  <2>5. /\ timed'.force_reload = timed.force_reload
        /\ timed'.last_remote_attempt_at = timed.last_remote_attempt_at
    BY <2>1, Zenon DEF SameRetry, SameWork
  <2> QED
    BY <2>1, <2>2, <2>3, <2>4, <2>5 DEF Calm, Running, InFlight
<1>6. CASE Capture
  <2>1. /\ stage = "preflight" /\ stage' = "generate" /\ UNCHANGED <<now, timed, since, ready, spins>>
    BY <1>6 DEF Capture
  <2>2. /\ attempt'.ready = attempt.ready /\ attempt'.force = attempt.force
    BY <1>6, Zenon DEF Capture, Basic, ClockTypes, AttemptType
  <2>3. attempt'.target = timed.desired_revision
    BY <1>6 DEF Capture, Basic, ClockTypes, AttemptType
  <2> QED
    BY <2>1, <2>2, <2>3 DEF Calm, Running, InFlight
<1>7. CASE SendPost
  <2>1. /\ stage = "generate" /\ stage' = "post" /\ UNCHANGED <<now, timed, since, ready, spins, attempt>>
    BY <1>7 DEF SendPost
  <2> QED
    BY <2>1 DEF Calm, Running, InFlight
<1>8. CASE EndGuarded
  <2>1. AttemptOver /\ stage = "preflight" /\ ~ attempt.ready
    BY <1>8, GuardedLeaves DEF EndGuarded
  <2>2. spins = 0
    BY <1>1, <2>1 DEF Calm, Running
  <2> QED
    BY <2>1, <2>2 DEF Calm, AttemptOver
<1>9. CASE EndNoop
  <2>1. AttemptOver /\ SameRetry(timed, timed') /\ DoneUpTo(timed, timed', attempt.target)
    BY <1>9, NoopLeaves
  <2>2. stage = "generate" /\ ~ attempt.force
    BY <1>9 DEF EndNoop
  <2>3. ASSUME spins > 0 PROVE ready /\ Settled'
    <3>1. /\ ready /\ attempt.target = timed.desired_revision
          /\ ~ Reached(timed.last_remote_attempt_at, ForceReloadInterval, now)
      BY <2>2, <2>3 DEF Calm, Running, InFlight
    <3>2. timed'.force_reload = FALSE
      BY <2>1, <3>1, Zenon DEF DoneUpTo
    <3>3. ~ Dirty(timed')
      BY <1>1, <2>1, <3>1 DEF DoneUpTo, Dirty
    <3>4. now' = now /\ timed'.last_remote_attempt_at = timed.last_remote_attempt_at
      BY <2>1 DEF AttemptOver, SameRetry
    <3>5. ~ timed'.force_reload /\ ~ Dirty(timed')
          /\ ~ Reached(timed'.last_remote_attempt_at, ForceReloadInterval, now')
      BY <3>1, <3>2, <3>3, <3>4
    <3>6. Settled'
      BY <3>5 DEF Settled, ReconcileEligibility, DueReasons
    <3> QED
      BY <3>1, <3>6
  <2> QED
    BY <1>1, <2>1, <2>3 DEF Calm, AttemptOver, Running
<1>10. CASE EndAccepted
  <2>1. /\ AttemptOver /\ DoneUpTo(timed, timed', attempt.target) /\ timed'.last_remote_attempt_at = since
        /\ stage = "post"
    BY <1>10, AcceptedLeaves DEF EndAccepted
  <2>2. ASSUME spins > 0 PROVE ready /\ Settled'
    <3>1. /\ ready /\ attempt.target = timed.desired_revision /\ since = now
      BY <2>1, <2>2 DEF Calm, Running, InFlight
    <3>2. timed'.force_reload = FALSE
      BY <2>1, <3>1, Zenon DEF DoneUpTo
    <3>3. ~ Dirty(timed')
      BY <1>1, <2>1, <3>1 DEF DoneUpTo, Dirty
    <3>4. now' = now
      BY <2>1 DEF AttemptOver
    <3>5. ~ Reached(timed'.last_remote_attempt_at, ForceReloadInterval, now')
      BY <1>1, <1>2, <2>1, <3>1, <3>4 DEF Reached
    <3>6. Settled'
      BY <3>2, <3>3, <3>5 DEF Settled, ReconcileEligibility, DueReasons
    <3> QED
      BY <3>1, <3>6
  <2> QED
    BY <1>1, <2>1, <2>2 DEF Calm, AttemptOver, Running
<1>11. CASE EndFailed
  <2>1. /\ AttemptOver /\ timed'.next_attempt_at = since + BackoffDelta(timed'.failure_count)
    BY <1>11, FailedLeaves
  <2>2. Running
    BY <1>11 DEF EndFailed
  <2>3. ASSUME spins > 0 PROVE ready /\ Settled'
    <3>1. ready /\ since = now
      BY <2>2, <2>3 DEF Calm
    <3>2. now' = now
      BY <2>1 DEF AttemptOver
    <3>3. timed'.next_attempt_at # Null /\ now' < timed'.next_attempt_at
      BY <1>1, <1>2, <2>1, <3>1, <3>2, Delays
    <3>4. Settled'
      BY <3>3 DEF Settled, ReconcileEligibility, DueReasons
    <3> QED
      BY <3>1, <3>4
  <2> QED
    BY <1>1, <2>1, <2>3 DEF Calm, AttemptOver, Running
<1>12. CASE EndAbandoned
  <2>1. AttemptOver
    BY <1>12, AbandonedLeaves
  <2>2. Running /\ now - since >= AttemptTimeout
    BY <1>12 DEF EndAbandoned
  <2>3. spins = 0
    BY <1>1, <1>2, <2>2 DEF Calm
  <2> QED
    BY <2>1, <2>3 DEF Calm, AttemptOver
<1>13. CASE Heartbeat
  <2>1. SameRetry(timed, timed') /\ SameWork(timed, timed')
    BY <1>13, StepLeaves
  <2>2. UNCHANGED <<now, ready, stage, since, spins, attempt>> /\ Running
    BY <1>13 DEF Heartbeat, seenVars
  <2>3. /\ timed'.force_reload = timed.force_reload
        /\ timed'.last_remote_attempt_at = timed.last_remote_attempt_at
        /\ timed'.desired_revision = timed.desired_revision
    BY <2>1, Zenon DEF SameRetry, SameWork
  <2> QED
    BY <2>2, <2>3 DEF Calm, Running, InFlight
<1>14. CASE UNCHANGED clockVars
  BY <1>14 DEF clockVars, loopVars, seenVars, Calm, Running, InFlight, Settled
<1> QED
  BY <1>3, <1>4, <1>5, <1>6, <1>7, <1>8, <1>9, <1>10, <1>11, <1>12, <1>13, <1>14 DEF ClockNext

(* Unless attempts raise, the coordinator begins one attempt at most between *)
(* one write or instant and the next while the settings are ready            *)
(* (coordinator.py: its own commits set the event that wakes _run).          *)
THEOREM OneAttemptPerInstant == "raise" \notin Troubles /\ ClockSpec => []NoHotLoop
<1> DEFINE Inv == Basic /\ Calm
<1> SUFFICES ASSUME "raise" \notin Troubles PROVE ClockSpec => []NoHotLoop
  OBVIOUS
<1>1. ClockInit => Inv
  BY BasicInit, CalmInit
<1>2. Inv /\ [ClockNext]_clockVars => Inv'
  BY BasicStep, CalmStep
<1>3. Inv => NoHotLoop
  BY DEF Calm, NoHotLoop
<1> QED
  BY <1>1, <1>2, <1>3, PTL DEF ClockSpec
=============================================================================
