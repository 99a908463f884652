--------------------------- MODULE PaisaManualOps ---------------------------
(***************************************************************************)
(* services/paisa/surface.py: the audited manual sync and manual generate. *)
(* A request waits for the same lease as the coordinator (or gives up as   *)
(* busy), and its state changes, its release and its audit row commit      *)
(* together at the end.                                                    *)
(***************************************************************************)
EXTENDS PaisaWorld

(* _audited commits the running audit row before the operation starts.     *)
Request(m) ==
  /\ pc[m] = "request"
  /\ Goto(m, "claim")
  /\ UNCHANGED <<row, dbVars, file, remote, run, mishaps>>

(* Manual sync: the target is captured before the config is loaded.        *)
SyncCapture(m) ==
  /\ pc[m] = "capture"
  /\ run' = [run EXCEPT ![m].target = row.desired_revision, ![m].seen = data]
  /\ Goto(m, "preflight")
  /\ UNCHANGED <<row, dbVars, file, remote, mishaps>>

SyncPreflight(m) ==
  /\ pc[m] = "preflight"
  /\ \/ /\ cache \in ReadyConfigs
        /\ run' = [run EXCEPT ![m].cfg = cache]
        /\ Goto(m, "generate")
        /\ UNCHANGED mishaps
     \/ /\ cache \notin ReadyConfigs
        /\ run' = [run EXCEPT ![m].outcome = "guard"]
        /\ Goto(m, "finish")
        /\ UNCHANGED mishaps
     \/ /\ cache \in ReadyConfigs
        /\ Mishap
        /\ run' = [run EXCEPT ![m].outcome = "failed"]
        /\ Goto(m, "finish")
  /\ UNCHANGED <<row, dbVars, file, remote>>

SyncGenerate(m) ==
  /\ pc[m] = "generate"
  /\ \/ Publish(m, "post")
     \/ /\ Mishap
        /\ run' = [run EXCEPT ![m].outcome = "failed"]
        /\ Goto(m, "finish")
        /\ UNCHANGED <<row, dbVars, file, remote>>

(* _apply_manual_sync_state: what the outcome does to the row.             *)
ManualSyncState(m) ==
  LET r == run[m]
  IN  CASE r.outcome = "guard"  -> row
        [] r.outcome = "failed" -> RecordPrePostFailure(row, Stamp)
        [] OTHER -> RecordDiagnosis(
                      RecordAcceptedPost(row, r.target, r.hash, Stamp),
                      r.outcome, Stamp)

(* One commit; with a stale token it changes nothing and the stale state   *)
(* is only reported in the audit row.                                      *)
SyncFinish(m) ==
  /\ pc[m] = "finish"
  /\ row' = IF Holds(row, m) THEN ReleaseLease(ManualSyncState(m), m) ELSE row
  /\ Finish(m)
  /\ UNCHANGED <<dbVars, file, remote, mishaps>>

SyncStep(m) ==
  \/ Request(m)
  \/ ClaimWins(m, "capture")
  \/ ClaimLoses(m)
  \/ SyncCapture(m)
  \/ SyncPreflight(m)
  \/ SyncGenerate(m)
  \/ PostAccepted(m, "finish")
  \/ PostFailed(m, "finish")
  \/ SyncFinish(m)
  \/ Interrupt(m)
  \/ Release(m)

(* Manual generate: no target, no Paisa; it only replaces the file.        *)
GenerateLoad(g) ==
  /\ pc[g] = "preflight"
  /\ run' = [run EXCEPT ![g].cfg = cache, ![g].seen = data]
  /\ Goto(g, IF cache \in ReadyConfigs THEN "generate" ELSE "finish")
  /\ UNCHANGED <<row, dbVars, file, remote, mishaps>>

GenerateFile(g) ==
  /\ pc[g] = "generate"
  /\ \/ Publish(g, "finish")
     \/ /\ Mishap
        /\ Goto(g, "finish")
        /\ UNCHANGED <<row, dbVars, file, remote, run>>

GenerateFinish(g) ==
  /\ pc[g] = "finish"
  /\ row' = ReleaseLease(row, g)
  /\ Finish(g)
  /\ UNCHANGED <<dbVars, file, remote, mishaps>>

GenerateStep(g) ==
  \/ Request(g)
  \/ ClaimWins(g, "preflight")
  \/ ClaimLoses(g)
  \/ GenerateLoad(g)
  \/ GenerateFile(g)
  \/ GenerateFinish(g)
  \/ Interrupt(g)
  \/ Release(g)
=============================================================================
