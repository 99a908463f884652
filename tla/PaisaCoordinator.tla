-------------------------- MODULE PaisaCoordinator --------------------------
(***************************************************************************)
(* services/paisa/coordinator.py: one tick of the automatic worker and the *)
(* staged attempt it starts, a step per await.                             *)
(***************************************************************************)
EXTENDS PaisaWorld

(* _tick, first half: read the row and judge it by the clock.  A row that  *)
(* is not due ends the tick with no effect.  The revision and the force    *)
(* flag of this snapshot are what the attempt is started with.             *)
ReadSnapshot(c) ==
  /\ pc[c] = "idle"
  /\ \E now \in ClockReadings :
       LET reason == ReconcileEligibility(row, now)
       IN  /\ reason \in DueReasons
           /\ (reason \in {"dirty", "max_latency"} /\ ~ row.force_reload)
                => RemoteFloorSatisfied(row, now, MinInterval)
           /\ run' = [run EXCEPT
                ![c].guard = row.desired_revision,
                ![c].force = row.force_reload \/ reason = "periodic_reload"]
  /\ Goto(c, "config")
  /\ UNCHANGED <<row, dbVars, file, remote, mishaps>>

(* _tick, second half: the config comes from the process's cache.          *)
LoadConfig(c) ==
  /\ pc[c] = "config"
  /\ IF cache \in ProjectConfigs \intersect AutoConfigs
       THEN /\ run' = [run EXCEPT ![c].cfg = cache]
            /\ Goto(c, "claim")
       ELSE Finish(c)
  /\ UNCHANGED <<row, dbVars, file, remote, mishaps>>

(* Preflight: readiness of the loaded config first, then Paisa is probed.  *)
Preflight(c) ==
  /\ pc[c] = "preflight"
  /\ \/ /\ run[c].cfg \notin ReadyConfigs
        /\ Goto(c, "guard")
        /\ UNCHANGED mishaps
     \/ /\ run[c].cfg \in ReadyConfigs
        /\ Goto(c, "capture")
        /\ UNCHANGED mishaps
     \/ /\ run[c].cfg \in ReadyConfigs
        /\ Mishap
        /\ Goto(c, "fail")
  /\ UNCHANGED <<row, dbVars, file, remote, run>>

CaptureTarget(c) ==
  /\ pc[c] = "capture"
  /\ run' = [run EXCEPT ![c].target = row.desired_revision, ![c].seen = data]
  /\ Goto(c, "generate")
  /\ UNCHANGED <<row, dbVars, file, remote, mishaps>>

Generate(c) ==
  /\ pc[c] = "generate"
  /\ \/ Publish(c, "publish")
     \/ /\ Mishap
        /\ Goto(c, "fail")
        /\ UNCHANGED <<row, dbVars, file, remote, run>>

(* Mutant: the completion is not fenced by the token. *)
RecordUnfenced(c, stage, newRow, next) ==
  /\ pc[c] = stage
  /\ row' = newRow
  /\ Goto(c, next)
  /\ UNCHANGED <<dbVars, file, remote, run, mishaps>>

(* A completion transaction: it commits only while the token holds, else   *)
(* LeaseStaleError sends the attempt to its cleanup.                       *)
Record(c, stage, newRow, next) ==
  /\ pc[c] = stage
  /\ IF Holds(row, c)
       THEN row' = newRow /\ Goto(c, next)
       ELSE UNCHANGED row /\ Goto(c, "release")
  /\ UNCHANGED <<dbVars, file, remote, run, mishaps>>

RecordPublished(c) == Record(c, "publish", row, "decide")

(* Re-read the row and decide whether Paisa already holds these bytes.     *)
DecideRemote(c) ==
  /\ pc[c] = "decide"
  /\ Goto(c, IF ~ run[c].force /\ ShouldSkipRemotePost(run[c].hash, row)
               THEN "noop" ELSE "post")
  /\ UNCHANGED <<row, dbVars, file, remote, run, mishaps>>

RecordGuard(c) ==
  Record(c, "guard", RecordGuardCaughtUp(row, run[c].guard), "release")

RecordNoop(c) ==
  Record(c, "noop", RecordHashNoop(row, run[c].target), "release")

RecordAccepted(c) ==
  Record(c, "accepted",
         RecordAcceptedPost(row, run[c].target, run[c].hash, Stamp), "diagnose")

RecordQuality(c) ==
  Record(c, "diagnose", RecordDiagnosis(row, run[c].outcome, Stamp), "release")

(* Mutant: an unconfirmed POST is recorded as accepted. *)
RecordFailureAsAccepted(c) ==
  Record(c, "fail",
         RecordAcceptedPost(row, run[c].target, run[c].hash, Stamp), "release")

RecordFailure(c) ==
  Record(c, "fail", RecordPrePostFailure(row, Stamp), "release")

CoordinatorStep(c) ==
  \/ ReadSnapshot(c)
  \/ LoadConfig(c)
  \/ ClaimWins(c, "preflight")
  \/ ClaimLoses(c)
  \/ Preflight(c)
  \/ CaptureTarget(c)
  \/ Generate(c)
  \/ RecordPublished(c)
  \/ DecideRemote(c)
  \/ PostAccepted(c, "accepted")
  \/ PostFailed(c, "fail")
  \/ RecordGuard(c)
  \/ RecordNoop(c)
  \/ RecordAccepted(c)
  \/ RecordQuality(c)
  \/ RecordFailure(c)
  \/ Interrupt(c)
  \/ Release(c)
=============================================================================
