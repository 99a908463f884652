---------------------------- MODULE PaisaSchedule ---------------------------
(***************************************************************************)
(* When the coordinator acts: debounce, latency, floor, backoff, periodic  *)
(* reload, heartbeat and the wake that every commit causes, on a clock of  *)
(* integer instants.  One coordinator; what its attempts deliver is the    *)
(* matter of PaisaReconcile.                                               *)
(***************************************************************************)
EXTENDS PaisaSyncState, FiniteSets, FiniteSetsExt

CONSTANTS
  PollInterval,       \* DEFAULT_POLL_INTERVAL_SECONDS, 2 s
  AttemptTimeout,     \* DEFAULT_ATTEMPT_TIMEOUT_SECONDS, 120 s
  HeartbeatInterval,  \* 20 s
  MaxLostBeats,       \* bound: heartbeats that fail in a row
  Readiness,          \* whether saved settings can be ready_to_project or not
  Troubles,           \* what attempts can meet: "reject", "raise", "timeout"
  Horizon,            \* bound: last instant
  MaxWrites           \* bound: committed writes

ASSUME ScheduleAssumption ==
  /\ {PollInterval, AttemptTimeout, HeartbeatInterval} \subseteq Nat \ {0}
  /\ MaxLostBeats \in Nat
  /\ (MaxLostBeats + 1) * HeartbeatInterval <= LeaseTTL
  /\ Readiness \subseteq BOOLEAN /\ Readiness # {}
  /\ Troubles \subseteq {"reject", "raise", "timeout"}
  /\ Horizon \in Nat
  /\ MaxWrites \in Nat \ {0}

Me == "coordinator"
Body == "body"     \* the hash of any rendered journal

VARIABLES
  now,       \* the clock
  timed,     \* the committed sync-state row
  ready,     \* the committed settings are ready_to_project
  awake,     \* the coordinator's asyncio.Event
  stage,     \* waiting, or how far the attempt has come
  since,     \* when the attempt, or else the wait, began
  attempt,   \* what the attempt holds in its local variables
  beat,      \* when the heartbeat last had its turn, and how many it missed
  (* Observed, never read by the coordinator:                              *)
  spins,     \* attempts begun, while ready, since clock or user last moved
  tried,     \* start of the last POST or failure not excused since
  failed,    \* start and ordinal of the last failure not excused since
  unseen,    \* since when the oldest uncaptured write waits for an attempt
  captured   \* instant of the oldest write the running attempt carries

loopVars == <<awake, stage, since, attempt, beat>>
seenVars == <<spins, tried, failed, unseen, captured>>
clockVars == <<now, timed, ready, loopVars, seenVars>>

NoAttempt == [guard |-> 0, target |-> 0, force |-> FALSE, ready |-> FALSE]

Oldest(a, b) == IF a = Null THEN b ELSE IF b = Null THEN a ELSE Min({a, b})

ClockInit ==
  /\ now = 0
  /\ timed = Seed(0)
  /\ ready \in Readiness
  /\ awake = FALSE
  /\ stage = "waiting"
  /\ since = 0
  /\ attempt = NoAttempt
  /\ beat = [at |-> 0, lost |-> 0]
  /\ spins = 0
  /\ tried = Null
  /\ failed = Null
  /\ unseen = 0
  /\ captured = Null

-----------------------------------------------------------------------------
(* The user.  A write of this process wakes the coordinator.               *)
Write ==
  /\ timed.desired_revision < MaxWrites
  /\ timed' = Bump(timed, now)
  /\ awake' \in {TRUE, awake}
  /\ unseen' = Oldest(unseen, now)
  /\ spins' = 0
  /\ UNCHANGED <<now, ready, stage, since, attempt, beat, tried, failed, captured>>

(* A settings change excuses the next retry and reload, and what waited    *)
(* waits from now on.                                                      *)
ChangeSettings ==
  /\ timed.desired_revision < MaxWrites
  /\ ready' \in Readiness
  /\ timed' = BumpSettings(timed, now)
  /\ awake' = TRUE
  /\ unseen' = now
  /\ spins' = 0
  /\ tried' = Null
  /\ failed' = Null
  /\ UNCHANGED <<now, stage, since, attempt, beat, captured>>

-----------------------------------------------------------------------------
(* _run: tick at once when awake, else after the poll interval.            *)
TickDue == stage = "waiting" /\ (awake \/ now - since >= PollInterval)

Starts ==
  LET reason == ReconcileEligibility(timed, now)
  IN  /\ reason \in DueReasons
      /\ (reason \in {"dirty", "max_latency"} /\ ~ timed.force_reload)
           => RemoteFloorSatisfied(timed, now, MinInterval)

TickIdle ==
  /\ TickDue
  /\ ~ Starts
  /\ awake' = FALSE
  /\ since' = now
  /\ UNCHANGED <<now, timed, ready, stage, attempt, beat, seenVars>>

(* The claim commits, which sets the event again during the tick.          *)
TickStarts ==
  /\ TickDue
  /\ Starts
  /\ CanClaim(timed, now)
  /\ timed' = ClaimLease(timed, Me, now)
  /\ stage' = "preflight"
  /\ since' = now
  /\ attempt' = [NoAttempt EXCEPT
       !.guard = timed.desired_revision,
       !.force = \/ timed.force_reload
                 \/ ReconcileEligibility(timed, now) = "periodic_reload",
       !.ready = ready]
  /\ beat' = [at |-> now, lost |-> 0]
  /\ awake' = TRUE
  /\ spins' = IF ready THEN spins + 1 ELSE 0
  /\ UNCHANGED <<now, ready, tried, failed, unseen, captured>>

Running == stage # "waiting"

Capture ==
  /\ stage = "preflight"
  /\ attempt.ready
  /\ attempt' = [attempt EXCEPT !.target = timed.desired_revision]
  /\ stage' = "generate"
  /\ captured' = unseen
  /\ unseen' = Null
  /\ UNCHANGED <<now, timed, ready, awake, since, beat, spins, tried, failed>>

SendPost ==
  /\ stage = "generate"
  /\ stage' = "post"
  /\ tried' = since
  /\ UNCHANGED <<now, timed, ready, awake, since, attempt, beat, spins, failed,
                 unseen, captured>>

(* The end of an attempt: what it recorded, the release and the audit row,  *)
(* whose commits wake the coordinator once more.                           *)
End(recorded) ==
  /\ timed' = ReleaseLease(recorded, Me)
  /\ stage' = "waiting"
  /\ since' = now
  /\ attempt' = NoAttempt
  /\ awake' = TRUE
  /\ UNCHANGED <<now, ready, beat, spins>>

Delivered == unseen' = unseen /\ captured' = Null
Undelivered ==
  /\ unseen' = IF captured = Null /\ unseen = Null THEN Null ELSE now
  /\ captured' = Null

EndGuarded ==
  /\ stage = "preflight"
  /\ ~ attempt.ready
  /\ End(RecordGuardCaughtUp(timed, attempt.guard))
  /\ UNCHANGED <<tried, failed, unseen, captured>>

EndNoop ==
  /\ stage = "generate"
  /\ ~ attempt.force
  /\ ShouldSkipRemotePost(Body, timed)
  /\ End(RecordHashNoop(timed, attempt.target))
  /\ Delivered
  /\ UNCHANGED <<tried, failed>>

(* Every stamp is the instant the stages began, not the one they end at.   *)
EndAccepted ==
  /\ stage = "post"
  /\ \E state \in Diagnoses :
       LET accepted == RecordAcceptedPost(timed, attempt.target, Body, since)
           diagnosed == RecordDiagnosis(accepted, state, since)
       IN  /\ state # "fatal" \/ "reject" \in Troubles
           /\ End(diagnosed)
           /\ failed' = IF state = "fatal"
                          THEN [start |-> since, n |-> diagnosed.failure_count]
                          ELSE IF state = "unknown" THEN failed ELSE Null
  /\ Delivered
  /\ UNCHANGED tried

EndFailed ==
  /\ "reject" \in Troubles
  /\ Running
  /\ attempt.ready
  /\ LET recorded == RecordPrePostFailure(timed, since)
     IN  /\ End(recorded)
         /\ failed' = [start |-> since, n |-> recorded.failure_count]
  /\ tried' = since
  /\ Undelivered

(* A stage raises, or the overall timeout strikes: nothing is recorded.    *)
EndAbandoned ==
  /\ Running
  /\ \/ "raise" \in Troubles
     \/ "timeout" \in Troubles /\ now - since >= AttemptTimeout
  /\ End(timed)
  /\ tried' = Null
  /\ Undelivered
  /\ UNCHANGED failed

Heartbeat ==
  /\ Running
  /\ now - beat.at >= HeartbeatInterval
  /\ \/ /\ timed' = HeartbeatLease(timed, Me, now)
        /\ beat' = [at |-> now, lost |-> 0]
        /\ awake' = TRUE
     \/ /\ beat.lost < MaxLostBeats
        /\ beat' = [at |-> now, lost |-> beat.lost + 1]
        /\ UNCHANGED <<timed, awake>>
  /\ UNCHANGED <<now, ready, stage, since, attempt, seenVars>>

-----------------------------------------------------------------------------
(* Time passes while the coordinator has nothing it must do now.           *)
Elapse ==
  /\ now < Horizon
  /\ ~ TickDue
  /\ Running => /\ now - since < AttemptTimeout
                /\ now - beat.at < HeartbeatInterval
  /\ now' = now + 1
  /\ spins' = 0
  /\ UNCHANGED <<timed, ready, loopVars, tried, failed, unseen, captured>>

ClockNext ==
  \/ Write \/ ChangeSettings
  \/ TickIdle \/ TickStarts \/ Capture \/ SendPost
  \/ EndGuarded \/ EndNoop \/ EndAccepted \/ EndFailed \/ EndAbandoned
  \/ Heartbeat \/ Elapse

ClockSpec == ClockInit /\ [][ClockNext]_clockVars

-----------------------------------------------------------------------------
(* The heartbeat (HEARTBEAT_INTERVAL against the lease TTL) keeps the lease *)
(* of a running attempt alive to the end, lost beats included: the fact     *)
(* PaisaWorld takes for granted unless it has "lease_expiry".               *)
HeldLeaseIsLive == Running => ~ CanClaim(timed, now)

(* Between one write or instant and the next the coordinator begins one     *)
(* attempt at most while the settings are ready: its own commits, which    *)
(* wake it, never make it spin.                                            *)
NoHotLoop == spins <= 1

(* Attempts keep their distance.  However the row was dirtied, two attempts *)
(* that reload Paisa for dirt begin at least the floor apart, a failed one  *)
(* included, unless settings were saved or an attempt was abandoned         *)
(* between; and no step of the loop erases a backoff: after the n-th        *)
(* failure in a row the next attempt begins the n-th delay later than the   *)
(* failed one, unless settings were saved between.                          *)
AttemptsPaced ==
  [][/\ (SendPost /\ ~ attempt.force /\ tried # Null)
          => since - tried >= MinInterval
     /\ (TickStarts /\ failed # Null)
          => now - failed.start >= BackoffDelta(failed.n)]_clockVars

(* While the settings are ready, no write waits for an attempt that carries *)
(* it (or for the next, after one that failed) longer than the longest of  *)
(* latency, floor, backoff and a whole attempt in its way, plus one poll    *)
(* and the attempt itself.                                                 *)
LongestBackoff == Max({BackoffSteps[i] : i \in DOMAIN BackoffSteps})

ReflectedInTime ==
  LET oldest == Oldest(captured, unseen)
  IN  ready /\ oldest # Null =>
        now - oldest <=
          Max({MaxDirtyLatency, MinInterval, AttemptTimeout, LongestBackoff})
            + PollInterval + AttemptTimeout

=============================================================================
