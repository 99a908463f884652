--------------------------- MODULE PaisaSyncState ---------------------------
(***************************************************************************)
(* The persisted row extension_sync_state and the primitives of            *)
(* services/paisa/sync_state.py that read and change it, one operator per  *)
(* SQL statement.  A primitive maps the committed row to the row its       *)
(* UPDATE leaves; the transaction that contains it is an action of the     *)
(* modules that use this one.                                              *)
(*                                                                         *)
(* Instants are natural numbers and Null is SQL's NULL.  The columns that  *)
(* no code reads back to decide anything (last_published_hash,             *)
(* last_healthy_hash, diagnosis_state, lease_owner, updated_at) are left   *)
(* out of the row; the fence of the statements that write them is kept.    *)
(***************************************************************************)
EXTENDS Integers, Sequences

CONSTANTS
  Null,                 \* SQL NULL / Python None
  QuietDebounce,        \* DEFAULT_QUIET_DEBOUNCE, 5 s in the code
  MaxDirtyLatency,      \* DEFAULT_MAX_DIRTY_LATENCY, 30 s
  ForceReloadInterval,  \* DEFAULT_FORCE_RELOAD_INTERVAL, 6 h
  LeaseTTL,             \* DEFAULT_LEASE_TTL_SECONDS, 90 s
  BackoffSteps,         \* BACKOFF_MINUTES, <<1, 2, 5, 10, 15>> minutes
  MinInterval           \* paisa.auto_sync_min_interval_minutes, at least 1

ASSUME WindowsAssumption ==
  /\ QuietDebounce \in Nat
  /\ MaxDirtyLatency \in Nat
  /\ ForceReloadInterval \in Nat \ {0}
  /\ LeaseTTL \in Nat
  /\ BackoffSteps \in Seq(Nat \ {0})
  /\ Len(BackoffSteps) > 0
  /\ MinInterval \in Nat \ {0}

ASSUME NullAssumption == Null \notin Nat

-----------------------------------------------------------------------------
(* The row ensure_sync_state inserts (and init_db seeds on every boot):    *)
(* dirty at revision 1 with a one-shot force.                              *)
Seed(now) ==
  [ desired_revision       |-> 1,
    applied_revision       |-> 0,
    first_dirty_at         |-> now,
    last_dirty_at          |-> now,
    last_remote_hash       |-> Null,
    last_remote_attempt_at |-> Null,
    next_attempt_at        |-> Null,
    failure_count          |-> 0,
    force_reload           |-> TRUE,
    lease_token            |-> Null,
    lease_expires_at       |-> Null ]

Dirty(row) == row.desired_revision > row.applied_revision

(* The AFTER triggers: every core-table write bumps the wanted revision in *)
(* its own transaction; a paisa.% setting also clears the retry fields.    *)
Bump(row, now) ==
  [row EXCEPT !.desired_revision = @ + 1,
              !.first_dirty_at   = IF @ = Null THEN now ELSE @,
              !.last_dirty_at    = now]

BumpSettings(row, now) ==
  [Bump(row, now) EXCEPT !.failure_count          = 0,
                         !.next_attempt_at        = Null,
                         !.last_remote_attempt_at = Null]

-----------------------------------------------------------------------------
(* The retry delay after the n-th consecutive failure, clamped at both ends. *)
BackoffDelta(n) ==
  LET last == Len(BackoffSteps)
  IN  BackoffSteps[IF n < 1 THEN 1 ELSE IF n > last THEN last ELSE n]

Reached(at, window, now) == at # Null /\ now - at >= window

DueReasons == {"force_reload", "periodic_reload", "max_latency", "dirty"}

(* Mutant: a clean row is never due. *)
EligibilityCleanFirst(row, now) ==
  IF row.next_attempt_at # Null /\ now < row.next_attempt_at THEN "backoff"
  ELSE IF row.force_reload THEN "force_reload"
  ELSE IF ~ Dirty(row) THEN "caught_up"
  ELSE IF Reached(row.first_dirty_at, MaxDirtyLatency, now) THEN "max_latency"
  ELSE IF row.last_dirty_at # Null /\ now - row.last_dirty_at < QuietDebounce
         THEN "debounce"
  ELSE "dirty"

ReconcileEligibility(row, now) ==
  IF row.next_attempt_at # Null /\ now < row.next_attempt_at THEN "backoff"
  ELSE IF row.force_reload THEN "force_reload"
  ELSE IF Reached(row.last_remote_attempt_at, ForceReloadInterval, now)
         THEN "periodic_reload"
  ELSE IF ~ Dirty(row) THEN "caught_up"
  ELSE IF Reached(row.first_dirty_at, MaxDirtyLatency, now) THEN "max_latency"
  ELSE IF row.last_dirty_at # Null /\ now - row.last_dirty_at < QuietDebounce
         THEN "debounce"
  ELSE "dirty"

ShouldSkipRemotePost(hash, row) ==
  hash # Null /\ row.last_remote_hash # Null /\ row.last_remote_hash = hash

-----------------------------------------------------------------------------
(* The lease.  A token is minted per claim; a completion statement carries *)
(* WHERE lease_token = :token, so it changes the row only when Holds.      *)
(* Mutant: the claim does not look at the lease. *)
ClaimAnyway(row, now) == TRUE

CanClaim(row, now) == row.lease_expires_at # Null => row.lease_expires_at < now

ClaimLease(row, token, now) ==
  [row EXCEPT !.lease_token = token, !.lease_expires_at = now + LeaseTTL]

Holds(row, token) == row.lease_token = token

HeartbeatLease(row, token, now) ==
  IF Holds(row, token) THEN [row EXCEPT !.lease_expires_at = now + LeaseTTL]
                       ELSE row

ReleaseLease(row, token) ==
  IF Holds(row, token)
    THEN [row EXCEPT !.lease_token = Null, !.lease_expires_at = Null]
    ELSE row

-----------------------------------------------------------------------------
(* Completion primitives: the row after the UPDATE, given that Holds.      *)

(* Mutants: the next revision is recorded; any run settles the row; the
   one-shot force is not cleared.                                          *)
ApplyNext(row, target) == [row EXCEPT !.applied_revision = target + 1]
ApplyAlways(row, target) ==
  [row EXCEPT !.applied_revision = row.desired_revision, !.force_reload = FALSE,
              !.first_dirty_at = Null, !.last_dirty_at = Null]
ApplyKeepingForce(row, target) ==
  LET caughtUp == target >= row.desired_revision
  IN  [row EXCEPT
         !.applied_revision = IF caughtUp THEN row.desired_revision ELSE target,
         !.first_dirty_at   = IF caughtUp THEN Null ELSE @,
         !.last_dirty_at    = IF caughtUp THEN Null ELSE @]

ApplyCaughtUp(row, target) ==
  LET caughtUp == target >= row.desired_revision
  IN  [row EXCEPT
         !.applied_revision = IF caughtUp THEN row.desired_revision ELSE target,
         !.force_reload     = IF caughtUp THEN FALSE ELSE @,
         !.first_dirty_at   = IF caughtUp THEN Null ELSE @,
         !.last_dirty_at    = IF caughtUp THEN Null ELSE @]

RecordHashNoop(row, target) == ApplyCaughtUp(row, target)

RecordGuardCaughtUp(row, target) == ApplyCaughtUp(row, target)

RecordAcceptedPost(row, target, hash, now) ==
  [ApplyCaughtUp(row, target) EXCEPT
     !.last_remote_hash       = hash,
     !.last_remote_attempt_at = now,
     !.failure_count          = 0,
     !.next_attempt_at        = Null]

Diagnoses == {"healthy", "accepted", "fatal", "unknown"}

RecordDiagnosis(row, state, now) ==
  CASE state = "fatal" ->
         [row EXCEPT !.failure_count   = @ + 1,
                     !.next_attempt_at = now + BackoffDelta(row.failure_count + 1)]
    [] state \in {"healthy", "accepted"} ->
         [row EXCEPT !.failure_count = 0, !.next_attempt_at = Null]
    [] OTHER -> row

(* Mutant: the delay is that of the failure before. *)
FailureWithOldDelay(row, now) ==
  [row EXCEPT !.failure_count          = @ + 1,
              !.next_attempt_at        = now + BackoffDelta(row.failure_count),
              !.last_remote_attempt_at = now]

RecordPrePostFailure(row, now) ==
  [row EXCEPT !.failure_count          = @ + 1,
              !.next_attempt_at        = now + BackoffDelta(row.failure_count + 1),
              !.last_remote_attempt_at = now]

(* The coordinator's floor between remote attempts (coordinator.py).       *)
RemoteFloorSatisfied(row, now, minInterval) ==
  row.last_remote_attempt_at # Null =>
    now - row.last_remote_attempt_at >= minInterval
=============================================================================
