-------------------------- MODULE AssistantProofs ---------------------------
(* Type correctness of the assistant's turns, what their writes and          *)
(* confirmations are safe against, and where the files of receipts are, for  *)
(* any updates, messages, workers, rows and faults.                          *)
EXTENDS AssistantTurns, Receipts, TLAPS

LEMMA InitTypeOK == Init => TypeOK
BY TurnsAssumption DEF Init, TypeOK, TurnType, Pendings, WorkerType, NoPending, Idle

(* The records a step stores. *)
LEMMA IdleIsWorker == Idle \in WorkerType /\ Idle.pc = "idle" /\ NoPending \in Pendings
BY TurnsAssumption DEF Idle, WorkerType, Pendings, NoPending

LEMMA TurnSteps ==
  ASSUME NEW t \in TurnType
  PROVE  /\ \A s \in {"claimed", "ready_to_send", "failed"} : Close(t, s) \in TurnType
         /\ AuthorizationChanged(t) \in TurnType
BY DEF TurnType, Close, AuthorizationChanged

LEMMA ClaimedIsTurn ==
  ASSUME NEW t \in TurnType, t.attempts < MaxTurnAttempts, NEW w \in Workers
  PROVE  [t EXCEPT !.status = "processing", !.token = w, !.live = TRUE, !.attempts = @ + 1]
           \in TurnType
<1> DEFINE n == t.attempts + 1
<1>1. n \in 0..MaxTurnAttempts
  BY TurnsAssumption DEF TurnType
<1> HIDE DEF n
<1>2. [t EXCEPT !.status = "processing", !.token = w, !.live = TRUE, !.attempts = n] \in TurnType
  BY <1>1 DEF TurnType
<1> QED
  BY <1>2 DEF n

(* Taking up a turn. *)
LEMMA TakeUpTypes ==
  ASSUME TypeOK, NEW w \in Workers, NEW u \in Updates,
         Arrive(w, u) \/ Redeliver(w, u) \/ Resume(w, u)
  PROVE  TypeOK'
<1>1. [Idle EXCEPT !.pc = "arrived", !.u = u] \in WorkerType
  BY IdleIsWorker DEF WorkerType
<1>2. [Idle EXCEPT !.pc = "arrived", !.u = u].u = u
  BY DEF Idle
<1> DEFINE arrived == [Idle EXCEPT !.pc = "arrived", !.u = u]
<1>3. worker' = [worker EXCEPT ![w] = arrived]
  BY DEF Arrive, Redeliver, Resume
<1> HIDE DEF arrived
<1>4. turn' \in [Updates -> TurnType]
  BY DEF Arrive, Redeliver, Resume, TypeOK, TurnType
<1>5. UNCHANGED <<pending, data, authorised, crashes, asked, writes>>
  BY DEF Arrive, Redeliver, Resume
<1> QED
  BY <1>1, <1>2, <1>3, <1>4, <1>5 DEF TypeOK, arrived

(* A worker that gives up its turn keeps its type. *)
LEMMA LeaveTypes ==
  ASSUME TypeOK, NEW w \in Workers, worker' = [worker EXCEPT ![w] = Idle]
  PROVE  /\ worker' \in [Workers -> WorkerType]
         /\ \A v \in Workers : worker'[v].pc # "idle" => worker'[v].u \in Updates
BY IdleIsWorker DEF TypeOK

(* A worker that goes on keeps its turn. *)
LEMMA GoOnTypes ==
  ASSUME TypeOK, NEW w \in Workers, worker[w].pc # "idle",
         NEW pc \in {"begin", "turn", "apply", "tap", "dismiss"},
         NEW seen \in Pendings, NEW base \in 0..MaxData,
         worker' = [worker EXCEPT ![w] = [@ EXCEPT !.pc = pc, !.seen = seen, !.base = base]]
  PROVE  /\ worker' \in [Workers -> WorkerType]
         /\ \A v \in Workers : worker'[v].pc # "idle" => worker'[v].u \in Updates
BY DEF TypeOK, WorkerType

LEMMA ClaimTypes ==
  ASSUME TypeOK, NEW w \in Workers, ClaimProcessing(w)
  PROVE  TypeOK'
<1> DEFINE u == worker[w].u
           claimed == [turn[u] EXCEPT !.status = "processing", !.token = w,
                                      !.live = TRUE, !.attempts = @ + 1]
<1>1. u \in Updates /\ turn[u] \in TurnType
  BY DEF ClaimProcessing, TypeOK
<1>2. UNCHANGED <<pending, data, authorised, crashes, asked, writes>>
  BY DEF ClaimProcessing
<1>3. turn[u].attempts < MaxTurnAttempts => claimed \in TurnType
  BY <1>1, ClaimedIsTurn
<1> HIDE DEF claimed
<1>4. turn' \in [Updates -> TurnType]
  <2>1. CASE UNCHANGED turn
    BY <2>1 DEF TypeOK
  <2>2. CASE turn' = [turn EXCEPT ![u] = Close(@, "failed")]
    BY <1>1, <2>2, TurnSteps DEF TypeOK
  <2>3. CASE ~(turn[u].attempts >= MaxTurnAttempts)
             /\ (turn' = [turn EXCEPT ![u] = AuthorizationChanged(claimed)]
                 \/ turn' = [turn EXCEPT ![u] = claimed])
    <3>1. claimed \in TurnType
      BY <1>1, <1>3, <2>3, TurnsAssumption DEF TurnType
    <3> QED
      BY <1>1, <2>3, <3>1, TurnSteps DEF TypeOK
  <2> QED
    BY <2>1, <2>2, <2>3 DEF ClaimProcessing, claimed
<1>5. /\ worker' \in [Workers -> WorkerType]
      /\ \A v \in Workers : worker'[v].pc # "idle" => worker'[v].u \in Updates
  <2>1. CASE worker' = [worker EXCEPT ![w] = Idle]
    BY <2>1, LeaveTypes
  <2>2. CASE worker' = [worker EXCEPT ![w].pc = "begin"]
    BY <1>1, <2>2 DEF TypeOK, WorkerType
  <2> QED
    BY <2>1, <2>2 DEF ClaimProcessing
<1> QED
  BY <1>2, <1>4, <1>5 DEF TypeOK

LEMMA BeginTypes ==
  ASSUME TypeOK, NEW w \in Workers, Begin(w)
  PROVE  TypeOK'
<1> DEFINE u == worker[w].u
           next == CASE Kind[u] = "tap" -> "tap"
                     [] Kind[u] = "screenshot" -> "turn"
                     [] Kind[u] = "yes" /\ pending.source = Question[u] -> "apply"
                     [] OTHER -> IF pending = NoPending THEN "turn" ELSE "dismiss"
<1>1. next \in {"begin", "turn", "apply", "tap", "dismiss"}
  <2>1. next \in {"tap", "turn", "apply", "dismiss"}
    OBVIOUS
  <2> HIDE DEF next
  <2> QED
    BY <2>1
<1>2. worker' = [worker EXCEPT ![w] = [@ EXCEPT !.seen = pending, !.base = data, !.pc = next]]
  BY DEF Begin
<1>3. pending \in Pendings /\ data \in 0..MaxData /\ worker[w].pc # "idle"
  BY DEF Begin, TypeOK
<1>4. UNCHANGED <<turn, pending, data, authorised, crashes, asked, writes>>
  BY DEF Begin
<1> HIDE DEF next
<1>5. /\ worker' \in [Workers -> WorkerType]
      /\ \A v \in Workers : worker'[v].pc # "idle" => worker'[v].u \in Updates
  BY <1>1, <1>2, <1>3 DEF TypeOK, WorkerType
<1> QED
  BY <1>4, <1>5 DEF TypeOK

LEMMA DismissTypes ==
  ASSUME TypeOK, NEW w \in Workers, Dismiss(w)
  PROVE  TypeOK'
<1>1. /\ worker' \in [Workers -> WorkerType]
      /\ \A v \in Workers : worker'[v].pc # "idle" => worker'[v].u \in Updates
  BY DEF Dismiss, TypeOK, WorkerType
<1> QED
  BY <1>1, IdleIsWorker DEF Dismiss, TypeOK

LEMMA RenewTypes ==
  ASSUME TypeOK, NEW w \in Workers, Renew(w)
  PROVE  TypeOK'
<1>1. CASE turn' = [turn EXCEPT ![worker[w].u].live = TRUE] /\ UNCHANGED worker
  <2>1. turn' \in [Updates -> TurnType]
    BY <1>1 DEF TypeOK, TurnType
  <2> QED
    BY <1>1, <2>1 DEF Renew, TypeOK
<1>2. CASE worker' = [worker EXCEPT ![w] = Idle] /\ UNCHANGED turn
  BY <1>2, LeaveTypes DEF Renew, TypeOK
<1> QED
  BY <1>1, <1>2 DEF Renew

(* Leaving a turn without having changed anything but its row. *)
LEMMA GiveUpTypes ==
  ASSUME TypeOK, NEW w \in Workers, FailAuthorization(w) \/ LoseTurn(w) \/ Fail(w)
  PROVE  TypeOK'
<1>1. UNCHANGED <<pending, data, authorised, crashes, asked, writes>>
      /\ worker' = [worker EXCEPT ![w] = Idle]
  BY DEF FailAuthorization, LoseTurn, Fail
<1>2. turn' \in [Updates -> TurnType]
  <2>1. CASE UNCHANGED turn
    BY <2>1 DEF TypeOK
  <2>2. CASE turn' = [turn EXCEPT ![worker[w].u] = AuthorizationChanged(@)]
    BY <2>2, TurnSteps DEF TypeOK
  <2> QED
    BY <2>1, <2>2 DEF FailAuthorization, LoseTurn, Fail
<1> QED
  BY <1>1, <1>2, LeaveTypes DEF TypeOK

LEMMA FinishTypes ==
  ASSUME TypeOK, NEW w \in Workers, Finish(w)
  PROVE  /\ turn' \in [Updates -> TurnType] /\ authorised' \in BOOLEAN
         /\ worker' \in [Workers -> WorkerType]
         /\ \A v \in Workers : worker'[v].pc # "idle" => worker'[v].u \in Updates
         /\ crashes' \in 0..MaxCrashes
         /\ worker[w].u \in Updates /\ worker[w].pc # "idle" /\ authorised
<1>1. turn' = [turn EXCEPT ![worker[w].u] = Close(@, "ready_to_send")]
      /\ worker' = [worker EXCEPT ![w] = Idle] /\ UNCHANGED <<authorised, crashes>>
  BY DEF Finish
<1>2. worker[w].u \in Updates /\ worker[w].pc # "idle" /\ authorised
  BY DEF Finish, LockAuthorizedChat, Working, TypeOK
<1>3. turn' \in [Updates -> TurnType]
  BY <1>1, <1>2, TurnSteps DEF TypeOK
<1> QED
  BY <1>1, <1>2, <1>3, LeaveTypes DEF TypeOK

LEMMA WriteTypes ==
  ASSUME TypeOK, NEW u \in Updates, Write(u)
  PROVE  data' \in 0..MaxData /\ data' = data + 1 /\ writes' \in [Updates -> Nat]
BY TurnsAssumption DEF Write, TypeOK

LEMMA AskTypes ==
  ASSUME TypeOK, NEW u \in Updates, NEW version \in 0..MaxData, Ask(u, version)
  PROVE  pending' \in Pendings /\ asked' \in [Updates -> 0..MaxData \cup {None}]
BY DEF Ask, Pendings, TypeOK

(* The six ways in which a turn finishes. *)
LEMMA FinishedTypes ==
  ASSUME TypeOK, NEW w \in Workers,
         \/ Answer(w) \/ WriteNow(w) \/ AskFirst(w)
         \/ ApplyPending(w) \/ RefusePending(w) \/ DeclinePending(w)
  PROVE  TypeOK'
<1>1. Finish(w)
  BY DEF Answer, WriteNow, AskFirst, ApplyPending, RefusePending, DeclinePending
<1>2. worker[w].u \in Updates
  BY <1>1, FinishTypes
<1>3. data' \in 0..MaxData /\ writes' \in [Updates -> Nat]
  <2>1. CASE Write(worker[w].u)
    BY <1>2, <2>1, WriteTypes
  <2>2. CASE UNCHANGED <<data, writes>>
    BY <2>2 DEF TypeOK
  <2> QED
    BY <2>1, <2>2 DEF Answer, WriteNow, AskFirst, ApplyPending, RefusePending, DeclinePending
<1>4. pending' \in Pendings /\ asked' \in [Updates -> 0..MaxData \cup {None}]
  <2>1. CASE pending' \in {pending, NoPending} /\ UNCHANGED asked
    BY <2>1, IdleIsWorker DEF TypeOK
  <2>2. CASE Ask(worker[w].u, data)
    BY <1>2, <2>2, AskTypes DEF TypeOK
  <2>3. CASE Write(worker[w].u) /\ Ask(worker[w].u, data + 1)
    BY <1>2, <2>3, AskTypes, WriteTypes
  <2> QED
    BY <2>1, <2>2, <2>3
       DEF Answer, WriteNow, AskFirst, ApplyPending, RefusePending, DeclinePending
<1> QED
  BY <1>1, <1>3, <1>4, FinishTypes DEF TypeOK

LEMMA EnvironmentTypes ==
  ASSUME TypeOK,
         \/ \E u \in Updates : LeaseExpires(u)
         \/ Recover \/ Edit \/ Revoke \/ Crash
  PROVE  TypeOK'
<1>1. ASSUME NEW u \in Updates, LeaseExpires(u) PROVE TypeOK'
  <2>1. turn' \in [Updates -> TurnType]
    BY <1>1 DEF LeaseExpires, TypeOK, TurnType
  <2> QED
    BY <1>1, <2>1 DEF LeaseExpires, TypeOK
<1>2. CASE Recover
  <2>1. turn' \in [Updates -> TurnType]
    BY <1>2, TurnSteps DEF Recover, TypeOK
  <2> QED
    BY <1>2, <2>1 DEF Recover, TypeOK
<1>3. CASE Edit
  <2>1. data' \in 0..MaxData
    BY <1>3, TurnsAssumption DEF Edit, TypeOK
  <2> QED
    BY <1>3, <2>1 DEF Edit, TypeOK
<1>4. CASE Revoke
  BY <1>4 DEF Revoke, TypeOK
<1>5. CASE Crash
  <2>1. worker' \in [Workers -> WorkerType] /\ \A w \in Workers : worker'[w].pc = "idle"
    BY <1>5, IdleIsWorker DEF Crash
  <2>2. crashes' \in 0..MaxCrashes
    BY <1>5, TurnsAssumption DEF Crash, TypeOK
  <2> QED
    BY <1>5, <2>1, <2>2 DEF Crash, TypeOK
<1> QED
  BY <1>1, <1>2, <1>3, <1>4, <1>5

LEMMA NextTypeOK == TypeOK /\ [Next]_vars => TypeOK'
<1> SUFFICES ASSUME TypeOK, [Next]_vars PROVE TypeOK'
  OBVIOUS
<1>1. CASE UNCHANGED vars
  BY <1>1 DEF vars, TypeOK
<1>2. ASSUME NEW w \in Workers, NEW u \in Updates,
             Arrive(w, u) \/ Redeliver(w, u) \/ Resume(w, u)
      PROVE  TypeOK'
  BY <1>2, TakeUpTypes
<1>3. ASSUME NEW w \in Workers, WorkerStep(w) \/ Renew(w) \/ Fail(w) PROVE TypeOK'
  BY <1>3, ClaimTypes, BeginTypes, DismissTypes, RenewTypes, GiveUpTypes, FinishedTypes
     DEF WorkerStep
<1>4. CASE \/ \E u \in Updates : LeaseExpires(u)
           \/ Recover \/ Edit \/ Revoke \/ Crash
  BY <1>4, EnvironmentTypes
<1> QED
  BY <1>1, <1>2, <1>3, <1>4 DEF Next

(* Every state is well typed; no turn is attempted more often than its limit, *)
(* whatever is redelivered, resumed or crashes.                               *)
THEOREM TurnsTypeCorrect == Spec => []TypeOK
BY InitTypeOK, NextTypeOK, PTL DEF Spec

-----------------------------------------------------------------------------
(* What a step can do to the writes of a turn.                               *)

(* A turn that answered has ended: no step takes it up again.                *)
LEMMA AnsweredStays ==
  ASSUME TypeOK, [Next]_vars, NEW u \in Updates, turn[u].status = "ready_to_send"
  PROVE  turn'[u].status = "ready_to_send"
<1>1. CASE UNCHANGED turn
  BY <1>1
<1>2. ASSUME NEW w \in Workers, NEW v \in Updates, Arrive(w, v) PROVE turn'[u].status = "ready_to_send"
  BY <1>2 DEF Arrive, TypeOK, TurnType
<1>3. ASSUME NEW w \in Workers, ClaimProcessing(w) PROVE turn'[u].status = "ready_to_send"
  <2>1. CASE u = worker[w].u
    <3>1. ~Claimable(turn[u])
      BY DEF Claimable
    <3> QED
      BY <1>3, <2>1, <3>1 DEF ClaimProcessing
  <2>2. CASE u # worker[w].u
    BY <1>3, <2>2 DEF ClaimProcessing, TypeOK
  <2> QED
    BY <2>1, <2>2
<1>4. ASSUME NEW w \in Workers, Renew(w) PROVE turn'[u].status = "ready_to_send"
  BY <1>4 DEF Renew, TypeOK, TurnType
<1>5. ASSUME NEW w \in Workers, FailAuthorization(w) PROVE turn'[u].status = "ready_to_send"
  BY <1>5 DEF FailAuthorization, AuthorizationChanged, TypeOK
<1>6. ASSUME NEW w \in Workers, Finish(w) PROVE turn'[u].status = "ready_to_send"
  BY <1>6 DEF Finish, Close, TypeOK, TurnType
<1>7. ASSUME NEW v \in Updates, LeaseExpires(v) PROVE turn'[u].status = "ready_to_send"
  BY <1>7 DEF LeaseExpires, TypeOK, TurnType
<1>8. CASE Recover
  BY <1>8 DEF Recover, TypeOK
<1> QED
  BY <1>1, <1>2, <1>3, <1>4, <1>5, <1>6, <1>7, <1>8
     DEF Next, WorkerStep, vars, Redeliver, Resume, Begin, Dismiss, LoseTurn, Answer, WriteNow,
         AskFirst, ApplyPending, RefusePending, DeclinePending, Fail, Edit, Revoke, Crash

(* Who writes ends its own turn with the same commit, and owns it before. *)
WriteOf(w) ==
  /\ WriteNow(w) \/ ApplyPending(w)
  /\ Finish(w) /\ Write(worker[w].u)

LEMMA OnlyFinishWrites ==
  ASSUME [Next]_vars
  PROVE  UNCHANGED writes \/ \E w \in Workers : WriteOf(w)
<1>1. ASSUME NEW w \in Workers, WriteNow(w) \/ ApplyPending(w) PROVE WriteOf(w)
  BY <1>1 DEF WriteNow, ApplyPending, WriteOf
<1>2. CASE UNCHANGED vars
  BY <1>2 DEF vars
<1>3. ASSUME NEW w \in Workers, NEW u \in Updates,
             Arrive(w, u) \/ Redeliver(w, u) \/ Resume(w, u)
      PROVE  UNCHANGED writes
  BY <1>3 DEF Arrive, Redeliver, Resume
<1>4. ASSUME NEW w \in Workers, WorkerStep(w) \/ Renew(w) \/ Fail(w)
      PROVE  UNCHANGED writes \/ WriteNow(w) \/ ApplyPending(w)
  BY <1>4 DEF WorkerStep, Renew, Fail, ClaimProcessing, Begin, Dismiss, FailAuthorization,
              LoseTurn, Answer, AskFirst, RefusePending, DeclinePending
<1>5. CASE \/ \E u \in Updates : LeaseExpires(u)
           \/ Recover \/ Edit \/ Revoke \/ Crash
  BY <1>5 DEF LeaseExpires, Recover, Edit, Revoke, Crash
<1> QED
  BY <1>1, <1>2, <1>3, <1>4, <1>5 DEF Next

(* WritesOnce is inductive with the types: the fence of finalize_interaction *)
(* lets a write through only while the turn has none.                        *)
LEMMA WritesOnceStep == TypeOK /\ WritesOnce /\ [Next]_vars => WritesOnce'
<1> SUFFICES ASSUME TypeOK, WritesOnce, [Next]_vars, NEW u \in Updates
             PROVE  writes'[u] <= 1 /\ (writes'[u] = 1 => turn'[u].status = "ready_to_send")
  BY DEF WritesOnce
<1>1. writes[u] <= 1 /\ (writes[u] = 1 => turn[u].status = "ready_to_send")
  BY DEF WritesOnce
<1>2. CASE UNCHANGED writes
  BY <1>1, <1>2, AnsweredStays
<1>3. ASSUME NEW w \in Workers, WriteOf(w)
      PROVE  writes'[u] <= 1 /\ (writes'[u] = 1 => turn'[u].status = "ready_to_send")
  <2>1. CASE u # worker[w].u
    <3>1. writes'[u] = writes[u]
      BY <1>3, <2>1 DEF WriteOf, Write, TypeOK
    <3> QED
      BY <1>1, <3>1, AnsweredStays
  <2>2. CASE u = worker[w].u
    <3>1. turn[u].status = "processing" /\ writes[u] \in Nat /\ writes'[u] = writes[u] + 1
      BY <1>3, <2>2 DEF WriteOf, Write, Finish, Owns, TypeOK
    <3>2. turn'[u].status = "ready_to_send"
      BY <1>3, <2>2 DEF WriteOf, Finish, Close, TypeOK, TurnType
    <3> QED
      BY <1>1, <3>1, <3>2
  <2> QED
    BY <2>1, <2>2
<1> QED
  BY <1>2, <1>3, OnlyFinishWrites

(* For any updates, workers, crashes, redeliveries and lost leases, a turn   *)
(* commits its writes at most once, together with its answer.                *)
THEOREM TurnWritesOnce == Spec => []WritesOnce
<1>1. Init => WritesOnce
  <2> SUFFICES ASSUME Init, NEW u \in Updates
               PROVE  writes[u] <= 1 /\ writes[u] # 1
    BY DEF WritesOnce
  <2>1. writes[u] = 0
    BY DEF Init
  <2> QED
    BY <2>1
<1> QED
  BY <1>1, InitTypeOK, NextTypeOK, WritesOnceStep, PTL DEF Spec

(* A chat that is no longer the configured one gets nothing written: the     *)
(* lock of the last session is taken together with the check.                *)
THEOREM RevokedWritesNothing == Spec => NoWriteAfterRevocation
<1>1. ASSUME [Next]_vars, ~authorised
      PROVE  writes' = writes /\ pending' \in {pending, NoPending}
  <2>1. \A w \in Workers : ~Finish(w)
    BY <1>1 DEF Finish, LockAuthorizedChat
  <2>2. writes' = writes
    BY <1>1, <2>1, OnlyFinishWrites DEF WriteOf
  <2>3. pending' \in {pending, NoPending}
    <3>1. ASSUME NEW w \in Workers, WorkerStep(w) \/ Renew(w) \/ Fail(w)
          PROVE  pending' \in {pending, NoPending}
      BY <2>1, <3>1
         DEF WorkerStep, Renew, Fail, ClaimProcessing, Begin, Dismiss, FailAuthorization,
             LoseTurn, Answer, WriteNow, AskFirst, ApplyPending, RefusePending, DeclinePending
    <3> QED
      BY <1>1, <3>1
         DEF Next, vars, Arrive, Redeliver, Resume, LeaseExpires, Recover, Edit, Revoke, Crash
  <2> QED
    BY <2>2, <2>3
<1>2. [Next]_vars => [~authorised => writes' = writes /\ pending' \in {pending, NoPending}]_vars
  BY <1>1
<1> QED
  BY <1>2, PTL DEF Spec, NoWriteAfterRevocation

(* The pending confirmation is the last question its turn stored, about the  *)
(* data it was asked about. YesIsFresh needs it: the code compares the data  *)
(* with the hash in the conversation, not with what the question saw.        *)
PendingIsAsked ==
  pending # NoPending => pending.source \in Updates /\ asked[pending.source] = pending.hash

LEMMA PendingIsAskedStep == TypeOK /\ PendingIsAsked /\ [Next]_vars => PendingIsAsked'
<1> SUFFICES ASSUME TypeOK, PendingIsAsked, [Next]_vars PROVE PendingIsAsked'
  OBVIOUS
<1>1. CASE UNCHANGED <<pending, asked>>
  BY <1>1 DEF PendingIsAsked
<1>2. CASE pending' = NoPending
  BY <1>2 DEF PendingIsAsked
<1>3. ASSUME NEW w \in Workers, NEW version, Finish(w), Ask(worker[w].u, version)
      PROVE  PendingIsAsked'
  <2>1. worker[w].u \in Updates
    BY <1>3, FinishTypes
  <2> QED
    BY <1>3, <2>1 DEF Ask, PendingIsAsked, TypeOK
<1>4. ASSUME NEW w \in Workers, WorkerStep(w) \/ Renew(w) \/ Fail(w) PROVE PendingIsAsked'
  <2>1. CASE AskFirst(w) \/ ApplyPending(w)
    BY <1>2, <1>3, <2>1 DEF AskFirst, ApplyPending
  <2>2. CASE ~AskFirst(w) /\ ~ApplyPending(w)
    BY <1>1, <1>2, <1>4, <2>2
       DEF WorkerStep, Renew, Fail, ClaimProcessing, Begin, Dismiss, FailAuthorization,
           LoseTurn, Answer, WriteNow, RefusePending, DeclinePending
  <2> QED
    BY <2>1, <2>2
<1>5. ASSUME NEW w \in Workers, NEW u \in Updates,
             Arrive(w, u) \/ Redeliver(w, u) \/ Resume(w, u)
      PROVE  PendingIsAsked'
  BY <1>1, <1>5 DEF Arrive, Redeliver, Resume
<1>6. CASE \/ \E u \in Updates : LeaseExpires(u)
           \/ Recover \/ Edit \/ Revoke \/ Crash
  BY <1>1, <1>6 DEF LeaseExpires, Recover, Edit, Revoke, Crash
<1>7. CASE UNCHANGED vars
  BY <1>1, <1>7 DEF vars
<1> QED
  BY <1>4, <1>5, <1>6, <1>7 DEF Next

(* A Yes, typed or tapped, applies only the question it answers, and only    *)
(* while the data is what that question was about, whatever raced with it.   *)
THEOREM YesAppliesFresh == Spec => YesIsFresh
<1> DEFINE Fresh(w) ==
      LET u == worker[w].u
      IN  worker[w].pc \in {"apply", "tap"} /\ writes' # writes /\ worker'[w] = Idle =>
            pending.source = Question[u] /\ asked[Question[u]] = data
<1>1. Init => PendingIsAsked
  BY DEF Init, PendingIsAsked
<1>2. ASSUME TypeOK, PendingIsAsked, [Next]_vars, NEW w \in Workers PROVE Fresh(w)
  <2> SUFFICES ASSUME worker[w].pc \in {"apply", "tap"}, writes' # writes, worker'[w] = Idle
               PROVE  /\ pending.source = Question[worker[w].u]
                      /\ asked[Question[worker[w].u]] = data
    OBVIOUS
  <2>1. PICK v \in Workers : WriteOf(v)
    BY <1>2, OnlyFinishWrites
  <2>2. v = w
    <3>1. worker' = [worker EXCEPT ![v] = Idle]
      BY <2>1 DEF WriteOf, Finish
    <3>2. v # w => worker'[w] = worker[w]
      BY <1>2, <3>1 DEF TypeOK
    <3> QED
      BY <3>2 DEF Idle
  <2>3. ApplyPending(w)
    BY <2>1, <2>2 DEF WriteOf, WriteNow
  <2>4. /\ pending = Stored(w) /\ pending # NoPending
        /\ pending.source = Question[worker[w].u] /\ data = pending.hash
    BY <2>3 DEF ApplyPending, Applies
  <2> QED
    BY <1>2, <2>4 DEF PendingIsAsked
<1>3. TypeOK /\ PendingIsAsked /\ [Next]_vars => [\A w \in Workers : Fresh(w)]_vars
  BY <1>2
<1> QED
  BY <1>1, <1>3, InitTypeOK, NextTypeOK, PendingIsAskedStep, PTL DEF Spec, YesIsFresh

-----------------------------------------------------------------------------
(* Receipts. Where the file of a worker, of a question and of a row may be,  *)
(* and to which rows it was sent.                                            *)

\* A worker that answers a text to a question
Talks(w) == task[w].pc \in {"heard", "reviewed"}

Turn == [status : {"absent", "claimed", "processing", "answered"}, by : Hands \cup {Nil},
         row : Ids \cup {Nil}, births : SUBSET (1..MaxBirths), answers : Messages \cup {Nil}]

FilesOK ==
  /\ files \in 0..MaxFiles /\ births \in 0..MaxBirths
  /\ disk \subseteq 1..files /\ torn \subseteq 1..files
  /\ receipt \in [Ids -> 1..files \cup {Nil}]
  /\ isVoid \in [Ids -> BOOLEAN]
  /\ carries \in [Ids -> SUBSET (1..MaxBirths)]
  /\ sentFor \in [1..MaxFiles -> SUBSET (1..MaxBirths)]
  /\ msg \in [Messages -> Turn]
  /\ taken \subseteq Ids
  /\ draft = [s \in Screens |-> draft[s]]
  /\ task = [w \in Hands |-> task[w]]

\* What a worker holds at each point of its turn.
TasksOK ==
  /\ \A s \in Screens : draft[s].file \in 1..files \cup {Nil} /\ draft[s].kind \in BOOLEAN
  /\ \A s \in Screens : draft[s].kind => Asked(s)
  /\ \A w \in Hands : task[w].file \in 1..files \cup {Nil}
  /\ \A w \in Hands : task[w].pc \in {"begin", "fetched", "heard", "reviewed"} => task[w].msg \in Messages
  /\ \A w \in Hands : task[w].pc \in {"clean", "fetched", "heard", "reviewed"} => task[w].file # Nil
  /\ \A w \in Hands : Talks(w) => Sort[task[w].msg] = "reply"
  /\ \A w \in Hands : task[w].pc = "fetched" => Sort[task[w].msg] \in {"receipt", "screenshot"}

\* The file of a row is there, and is its own; an id that is free has none.
RowsOK ==
  /\ \A i \in Ids : receipt[i] \in disk \cup torn \cup {Nil}
  /\ \A i, j \in Ids : receipt[i] = receipt[j] /\ i # j => receipt[i] = Nil
  /\ \A i \in Ids : i \notin taken => receipt[i] = Nil

\* The file of a question that may be answered is there, and no row's.
QuestionsOK ==
  /\ \A s \in Screens : Open(s) => draft[s].file \in disk \cup torn
  /\ \A s \in Screens, i \in Ids : Open(s) => receipt[i] # draft[s].file

\* A file just downloaded is there, and nothing but its worker knows it.
FetchedOK ==
  /\ \A w \in Hands : task[w].pc = "fetched" => task[w].file \in disk
  /\ \A w \in Hands, i \in Ids : task[w].pc = "fetched" => receipt[i] # task[w].file
  /\ \A w \in Hands, s \in Screens : task[w].pc = "fetched" /\ Asked(s) => draft[s].file # task[w].file
  /\ \A v, w \in Hands : task[w].pc = "fetched" /\ v # w => task[v].file # task[w].file

\* A file about to be removed is no row's and no open question's.
CleaningOK ==
  /\ \A w \in Hands, i \in Ids : task[w].pc = "clean" => receipt[i] # task[w].file
  /\ \A w \in Hands, s \in Screens : task[w].pc = "clean" /\ Open(s) => draft[s].file # task[w].file

\* A file is of one conversation: its question, and the turns that answer it.
TalkOK ==
  /\ \A r, s \in Screens : Asked(r) /\ Asked(s) /\ r # s => draft[r].file # draft[s].file
  /\ \A w \in Hands, s \in Screens : Talks(w) /\ Asked(s) => (draft[s].file = task[w].file <=> s = Screen[task[w].msg])
  /\ \A v, w \in Hands : Talks(v) /\ Talks(w) => (task[v].file = task[w].file <=> Screen[task[v].msg] = Screen[task[w].msg])
  /\ \A s \in Screens : Asked(s) => msg[s].status = "answered"
  /\ \A w \in Hands : Talks(w) => msg[Screen[task[w].msg]].status = "answered"

\* A receipt waits for, or is on, a row that carries what it was sent to.
AimsOK ==
  /\ \A m \in Messages : msg[m].row # Nil => msg[m].row \in taken /\ msg[m].births \subseteq carries[msg[m].row]
  /\ \A i \in Ids : receipt[i] # Nil => sentFor[receipt[i]] \subseteq carries[i]

\* The file of a screenshot was sent to no row.
SentOK ==
  /\ \A s \in Screens : Asked(s) => sentFor[draft[s].file] = {}
  /\ \A w \in Hands : Talks(w) => sentFor[task[w].file] = {}
  /\ \A w \in Hands : task[w].pc = "fetched" /\ Sort[task[w].msg] = "receipt" =>
       sentFor[task[w].file] = msg[task[w].msg].births
  /\ \A w \in Hands : task[w].pc = "fetched" /\ Sort[task[w].msg] = "screenshot" => sentFor[task[w].file] = {}
  /\ \A f \in 1..MaxFiles : f > files => sentFor[f] = {}
  /\ \A w \in Hands : task[w].pc = "fetched" => msg[task[w].msg].status # "absent"
  /\ \A w \in Hands : task[w].pc = "begin" => msg[task[w].msg].status # "absent"

ReceiptsInv == /\ FilesOK /\ TasksOK /\ RowsOK /\ QuestionsOK /\ FetchedOK
               /\ CleaningOK /\ TalkOK /\ AimsOK /\ SentOK


\* What the other steps of a message never change.
Same(m) == /\ msg'[m].row = msg[m].row /\ msg'[m].births = msg[m].births
           /\ msg[m].status = "answered" => msg'[m].status = "answered"
           /\ msg[m].status # "absent" => msg'[m].status # "absent"

(* A worker that answers its turn changes no more than its status. *)
LEMMA AnswerKeeps ==
  ASSUME FilesOK, TasksOK, NEW w \in Hands, task[w].msg \in Messages, msg' = TurnAnswered(w)
  PROVE  /\ msg' \in [Messages -> Turn]
         /\ \A m \in Messages : Same(m)
         /\ Mine(w) => msg'[task[w].msg].status = "answered"
<1> DEFINE t == task[w].msg
           new == [msg[t] EXCEPT !.status = IF Mine(w) THEN "answered" ELSE @]
<1>1. new \in Turn /\ new.row = msg[t].row /\ new.births = msg[t].births
      /\ (msg[t].status = "answered" => new.status = "answered") /\ (msg[t].status # "absent" => new.status # "absent") /\ (Mine(w) => new.status = "answered")
  BY SMT DEF Turn, FilesOK
<1>2. msg' = [msg EXCEPT ![t] = new]
  BY DEF TurnAnswered
<1> HIDE DEF new
<1> QED  BY <1>1, <1>2 DEF FilesOK, Same

(* A new turn is about a row that is there. *)
LEMMA ReceiveKeeps ==
  ASSUME ReceiptsInv, NEW t \in Messages, Receive(t)
  PROVE  ReceiptsInv'
<1> USE DEF ReceiptsInv
<1>1. Nil \notin 1..files /\ Screens \subseteq Messages /\ (\A m \in Messages : Screen[m] \in Messages)
  BY ReceiptsAssumption DEF FilesOK, Screens
<1>2. UNCHANGED <<disk, files, sentFor, taken, says, isVoid, receipt, births, carries, draft, task, torn>>
  BY DEF Receive, disks, rows, At, Free, FilesOK, TasksOK
<1>3. msg[t].status = "absent" /\ msg[t] \in Turn
  BY DEF Receive, disks, rows, At, Free, FilesOK, TasksOK
<1>4. PICK new \in Turn : /\ msg' = [msg EXCEPT ![t] = new] /\ new.status # "absent"
                       /\ \/ new.row = msg[t].row /\ new.births = msg[t].births
                          \/ new.row \in taken /\ new.births = carries[new.row]
  <2>1. CASE Sort[t] = "receipt"
    <3>1. PICK i \in taken : msg' = [msg EXCEPT ![t] = [status |-> "claimed", by |-> Nil, row |-> i, births |-> carries[i], answers |-> Nil]]
      BY <2>1 DEF Receive
    <3>2. [status |-> "claimed", by |-> Nil, row |-> i, births |-> carries[i], answers |-> Nil] \in Turn
      BY SMT DEF Turn, FilesOK
    <3> QED  BY <3>1, <3>2
  <2>2. CASE Sort[t] = "screenshot"
    <3>1. msg' = [msg EXCEPT ![t] = [msg[t] EXCEPT !.status = "claimed"]]
      BY <2>2 DEF Receive
    <3>2. [msg[t] EXCEPT !.status = "claimed"] \in Turn
      BY <1>3 DEF Turn
    <3>3. [msg[t] EXCEPT !.status = "claimed"].row = msg[t].row
            /\ [msg[t] EXCEPT !.status = "claimed"].births = msg[t].births
            /\ [msg[t] EXCEPT !.status = "claimed"].status = "claimed"
      BY <1>3 DEF Turn
    <3> QED  BY <3>1, <3>2, <3>3
  <2>3. CASE Sort[t] = "reply"
    <3>1. PICK q \in Messages : msg' = [msg EXCEPT ![t] = [msg[t] EXCEPT !.status = "claimed", !.answers = q]]
      BY <2>3 DEF Receive
    <3> DEFINE new == [msg[t] EXCEPT !.status = "claimed", !.answers = q]
    <3>2. new \in Turn
      BY <1>3 DEF Turn
    <3>3. new.row = msg[t].row /\ new.births = msg[t].births /\ new.status = "claimed"
      BY <1>3 DEF Turn
    <3> QED  BY <3>1, <3>2, <3>3
  <2> QED  BY <2>1, <2>2, <2>3 DEF Receive
<1>5. FilesOK'
  <2>1. (files \in 0..MaxFiles /\ births \in 0..MaxBirths)'
    BY <1>1, <1>2, <1>3 DEF FilesOK
  <2>2. (disk \subseteq 1..files /\ torn \subseteq 1..files)'
    BY <1>1, <1>2, <1>3 DEF FilesOK
  <2>3. (receipt \in [Ids -> 1..files \cup {Nil}])'
    BY <1>1, <1>2, <1>3 DEF FilesOK, TasksOK
  <2>4. (isVoid \in [Ids -> BOOLEAN])'
    BY <1>1, <1>2, <1>3 DEF FilesOK
  <2>5. (carries \in [Ids -> SUBSET (1..MaxBirths)])'
    BY <1>1, <1>2, <1>3 DEF FilesOK
  <2>6. (sentFor \in [1..MaxFiles -> SUBSET (1..MaxBirths)])'
    BY <1>1, <1>2, <1>3 DEF FilesOK
  <2>7. (msg \in [Messages -> Turn])'
    BY <1>1, <1>2, <1>3, <1>4 DEF FilesOK
  <2>8. (taken \subseteq Ids)'
    BY <1>1, <1>2, <1>3 DEF FilesOK
  <2>9. (draft = [s \in Screens |-> draft[s]])'
    BY <1>1, <1>2, <1>3 DEF FilesOK, Screens
  <2>10. (task = [w \in Hands |-> task[w]])'
    BY <1>1, <1>2, <1>3 DEF FilesOK
  <2> QED  BY <2>1, <2>2, <2>3, <2>4, <2>5, <2>6, <2>7, <2>8, <2>9, <2>10 DEF FilesOK
<1>6. TasksOK'
  <2>1. (\A s \in Screens : draft[s].file \in 1..files \cup {Nil} /\ draft[s].kind \in BOOLEAN)'
    BY <1>1, <1>2, <1>3 DEF FilesOK, TasksOK, Talks, Asked, Open
  <2>2. (\A s \in Screens : draft[s].kind => Asked(s))'
    BY <1>1, <1>2, <1>3 DEF FilesOK, TasksOK, Talks, Asked, Open
  <2>3. (\A w \in Hands : task[w].file \in 1..files \cup {Nil})'
    BY <1>1, <1>2, <1>3 DEF FilesOK, TasksOK, Talks, Asked, Open
  <2>4. (\A w \in Hands : task[w].pc \in {"begin", "fetched", "heard", "reviewed"} =>
         task[w].msg \in Messages)'
    BY <1>1, <1>2, <1>3, <1>4 DEF FilesOK, TasksOK, Talks, Asked, Open
  <2>5. (\A w \in Hands : task[w].pc \in {"clean", "fetched", "heard", "reviewed"} =>
         task[w].file # Nil)'
    BY <1>1, <1>2, <1>3 DEF FilesOK, TasksOK, Talks, Asked, Open
  <2>6. (\A w \in Hands : Talks(w) => Sort[task[w].msg] = "reply")'
    BY <1>1, <1>2, <1>3, <1>4 DEF FilesOK, TasksOK, Talks, Asked, Open
  <2>7. (\A w \in Hands : task[w].pc = "fetched" => Sort[task[w].msg] \in {"receipt", "screenshot"})'
    BY <1>1, <1>2, <1>3, <1>4 DEF FilesOK, TasksOK, Talks, Asked, Open
  <2> QED  BY <2>1, <2>2, <2>3, <2>4, <2>5, <2>6, <2>7 DEF TasksOK
<1>7. RowsOK'
  <2>1. (\A i \in Ids : receipt[i] \in disk \cup torn \cup {Nil})'
    BY <1>1, <1>2, <1>3 DEF FilesOK, TasksOK, RowsOK, FetchedOK, CleaningOK, QuestionsOK, Talks, Asked,
         Open
  <2>2. (\A i, j \in Ids : receipt[i] = receipt[j] /\ i # j => receipt[i] = Nil)'
    BY <1>1, <1>2, <1>3 DEF FilesOK, TasksOK, RowsOK, FetchedOK, CleaningOK, QuestionsOK, Talks, Asked,
         Open
  <2>3. (\A i \in Ids : i \notin taken => receipt[i] = Nil)'
    BY <1>1, <1>2, <1>3 DEF FilesOK, TasksOK, RowsOK, FetchedOK, CleaningOK, QuestionsOK, Talks, Asked,
         Open
  <2> QED  BY <2>1, <2>2, <2>3 DEF RowsOK
<1>8. QuestionsOK'
  <2>1. (\A s \in Screens : Open(s) => draft[s].file \in disk \cup torn)'
    BY <1>1, <1>2, <1>3 DEF FilesOK, TasksOK, QuestionsOK, FetchedOK, CleaningOK, TalkOK, Talks, Asked,
         Open
  <2>2. (\A s \in Screens, i \in Ids : Open(s) => receipt[i] # draft[s].file)'
    BY <1>1, <1>2, <1>3 DEF FilesOK, TasksOK, QuestionsOK, FetchedOK, CleaningOK, TalkOK, Talks, Asked,
         Open
  <2> QED  BY <2>1, <2>2 DEF QuestionsOK
<1>9. FetchedOK'
  <2>1. (\A w \in Hands : task[w].pc = "fetched" => task[w].file \in disk)'
    BY <1>1, <1>2, <1>3 DEF FilesOK, TasksOK, RowsOK, FetchedOK, Talks, Asked, Open
  <2>2. (\A w \in Hands, i \in Ids : task[w].pc = "fetched" => receipt[i] # task[w].file)'
    BY <1>1, <1>2, <1>3 DEF FilesOK, TasksOK, RowsOK, FetchedOK, Talks, Asked, Open
  <2>3. (\A w \in Hands, s \in Screens : task[w].pc = "fetched" /\ Asked(s) =>
         draft[s].file # task[w].file)'
    BY <1>1, <1>2, <1>3 DEF FilesOK, TasksOK, RowsOK, FetchedOK, Talks, Asked, Open
  <2>4. (\A v, w \in Hands : task[w].pc = "fetched" /\ v # w => task[v].file # task[w].file)'
    BY <1>1, <1>2, <1>3 DEF FilesOK, TasksOK, RowsOK, FetchedOK, Talks, Asked, Open
  <2> QED  BY <2>1, <2>2, <2>3, <2>4 DEF FetchedOK
<1>10. CleaningOK'
  <2>1. (\A w \in Hands, i \in Ids : task[w].pc = "clean" => receipt[i] # task[w].file)'
    BY <1>1, <1>2, <1>3 DEF FilesOK, TasksOK, RowsOK, QuestionsOK, FetchedOK, CleaningOK, TalkOK,
         Talks, Asked, Open
  <2>2. (\A w \in Hands, s \in Screens : task[w].pc = "clean" /\ Open(s) =>
         draft[s].file # task[w].file)'
    BY <1>1, <1>2, <1>3 DEF FilesOK, TasksOK, RowsOK, QuestionsOK, FetchedOK, CleaningOK, TalkOK,
         Talks, Asked, Open
  <2> QED  BY <2>1, <2>2 DEF CleaningOK
<1>11. TalkOK'
  <2>1. (\A r, s \in Screens : Asked(r) /\ Asked(s) /\ r # s => draft[r].file # draft[s].file)'
    BY <1>1, <1>2, <1>3 DEF FilesOK, TasksOK, TalkOK, FetchedOK, Mine, Same, Talks, Asked, Open
  <2>2. (\A w \in Hands, s \in Screens : Talks(w) /\ Asked(s) =>
         (draft[s].file = task[w].file <=> s = Screen[task[w].msg]))'
    BY <1>1, <1>2, <1>3, <1>4 DEF FilesOK, TasksOK, TalkOK, FetchedOK, Mine, Same, Talks, Asked, Open
  <2>3. (\A v, w \in Hands : Talks(v) /\ Talks(w) =>
         (task[v].file = task[w].file <=> Screen[task[v].msg] = Screen[task[w].msg]))'
    BY <1>1, <1>2, <1>3, <1>4 DEF FilesOK, TasksOK, TalkOK, FetchedOK, Mine, Same, Talks, Asked, Open
  <2>4. (\A s \in Screens : Asked(s) => msg[s].status = "answered")'
    BY <1>1, <1>2, <1>3, <1>4 DEF FilesOK, TasksOK, TalkOK, FetchedOK, Mine, Same, Talks, Asked, Open
  <2>5. (\A w \in Hands : Talks(w) => msg[Screen[task[w].msg]].status = "answered")'
    BY <1>1, <1>2, <1>3, <1>4 DEF FilesOK, TasksOK, TalkOK, FetchedOK, Mine, Same, Talks, Asked, Open
  <2> QED  BY <2>1, <2>2, <2>3, <2>4, <2>5 DEF TalkOK
<1>12. AimsOK'
  <2>1. (\A m \in Messages : msg[m].row # Nil =>
         msg[m].row \in taken /\ msg[m].births \subseteq carries[msg[m].row])'
    BY <1>1, <1>2, <1>3, <1>4 DEF FilesOK, TasksOK, RowsOK, AimsOK, SentOK, FetchedOK, Same, Talks,
         Asked, Open
  <2>2. (\A i \in Ids : receipt[i] # Nil => sentFor[receipt[i]] \subseteq carries[i])'
    BY <1>1, <1>2, <1>3 DEF FilesOK, TasksOK, RowsOK, AimsOK, SentOK, FetchedOK, Same, Talks, Asked,
         Open
  <2> QED  BY <2>1, <2>2 DEF AimsOK
<1>13. SentOK'
  <2>1. (\A s \in Screens : Asked(s) => sentFor[draft[s].file] = {})'
    BY <1>1, <1>2, <1>3 DEF FilesOK, TasksOK, SentOK, FetchedOK, Same, Talks, Asked, Open
  <2>2. (\A w \in Hands : Talks(w) => sentFor[task[w].file] = {})'
    BY <1>1, <1>2, <1>3 DEF FilesOK, TasksOK, SentOK, FetchedOK, Same, Talks, Asked, Open
  <2>3. (\A w \in Hands : task[w].pc = "fetched" /\ Sort[task[w].msg] = "receipt" =>
         sentFor[task[w].file] = msg[task[w].msg].births)'
    BY <1>1, <1>2, <1>3, <1>4 DEF FilesOK, TasksOK, SentOK, FetchedOK, Same, Talks, Asked, Open
  <2>4. (\A w \in Hands : task[w].pc = "fetched" /\ Sort[task[w].msg] = "screenshot" =>
         sentFor[task[w].file] = {})'
    BY <1>1, <1>2, <1>3, <1>4 DEF FilesOK, TasksOK, SentOK, Talks, Asked, Open
  <2>5. (\A f \in 1..MaxFiles : f > files => sentFor[f] = {})'
    BY <1>1, <1>2, <1>3 DEF FilesOK, TasksOK, SentOK, FetchedOK, Same, Talks, Asked, Open
  <2>6. (\A w \in Hands : task[w].pc = "fetched" => msg[task[w].msg].status # "absent")'
    BY <1>1, <1>2, <1>3, <1>4 DEF FilesOK, TasksOK, SentOK, FetchedOK, Same, Talks, Asked, Open
  <2>7. (\A w \in Hands : task[w].pc = "begin" => msg[task[w].msg].status # "absent")'
    BY <1>1, <1>2, <1>3, <1>4 DEF FilesOK, TasksOK, SentOK, FetchedOK, Same, Talks, Asked, Open
  <2> QED  BY <2>1, <2>2, <2>3, <2>4, <2>5, <2>6, <2>7 DEF SentOK
<1> QED  BY <1>5, <1>6, <1>7, <1>8, <1>9, <1>10, <1>11, <1>12, <1>13 DEF ReceiptsInv

(* A turn that is declined has no file. *)
LEMMA DeclineKeeps ==
  ASSUME ReceiptsInv, NEW h \in Hands, Decline(h)
  PROVE  ReceiptsInv'
<1> USE DEF ReceiptsInv
<1>1. Nil \notin 1..files /\ Screens \subseteq Messages /\ (\A m \in Messages : Screen[m] \in Messages)
  BY ReceiptsAssumption DEF FilesOK, Screens
<1>2. UNCHANGED <<disk, files, sentFor, taken, says, isVoid, receipt, births, carries, draft, torn>>
  BY DEF Decline, Rests, disks, rows, At, Free, FilesOK, TasksOK
<1>3. (\A v \in Hands : v # h => task'[v] = task[v]) /\ task'[h].pc = "idle" /\ task'[h].file = Nil
  BY DEF Decline, Rests, disks, rows, At, Free, FilesOK, TasksOK
<1>4. task' = [v \in Hands |-> task'[v]]
  BY DEF Decline, Rests, disks, rows, At, Free, FilesOK, TasksOK
<1>5. task[h].msg \in Messages /\ msg' = TurnAnswered(h)
  BY DEF Decline, Rests, disks, rows, At, Free, FilesOK, TasksOK
<1>6. msg' \in [Messages -> Turn] /\ (\A m \in Messages : Same(m))
        /\ (Mine(h) => msg'[task[h].msg].status = "answered")
  BY <1>5, AnswerKeeps
<1>7. FilesOK'
  <2>1. (files \in 0..MaxFiles /\ births \in 0..MaxBirths)'
    BY <1>1, <1>2 DEF FilesOK
  <2>2. (disk \subseteq 1..files /\ torn \subseteq 1..files)'
    BY <1>1, <1>2 DEF FilesOK
  <2>3. (receipt \in [Ids -> 1..files \cup {Nil}])'
    BY <1>1, <1>2 DEF FilesOK, TasksOK
  <2>4. (isVoid \in [Ids -> BOOLEAN])'
    BY <1>1, <1>2 DEF FilesOK
  <2>5. (carries \in [Ids -> SUBSET (1..MaxBirths)])'
    BY <1>1, <1>2 DEF FilesOK
  <2>6. (sentFor \in [1..MaxFiles -> SUBSET (1..MaxBirths)])'
    BY <1>1, <1>2 DEF FilesOK
  <2>7. (msg \in [Messages -> Turn])'
    BY <1>1, <1>2, <1>5, <1>6 DEF FilesOK
  <2>8. (taken \subseteq Ids)'
    BY <1>1, <1>2 DEF FilesOK
  <2>9. (draft = [s \in Screens |-> draft[s]])'
    BY <1>1, <1>2 DEF FilesOK, Screens
  <2>10. (task = [w \in Hands |-> task[w]])'
    BY <1>1, <1>2, <1>3, <1>4 DEF FilesOK
  <2> QED  BY <2>1, <2>2, <2>3, <2>4, <2>5, <2>6, <2>7, <2>8, <2>9, <2>10 DEF FilesOK
<1>8. TasksOK'
  <2>1. (\A s \in Screens : draft[s].file \in 1..files \cup {Nil} /\ draft[s].kind \in BOOLEAN)'
    BY <1>1, <1>2 DEF FilesOK, TasksOK, Talks, Asked, Open
  <2>2. (\A s \in Screens : draft[s].kind => Asked(s))'
    BY <1>1, <1>2 DEF FilesOK, TasksOK, Talks, Asked, Open
  <2>3. (\A w \in Hands : task[w].file \in 1..files \cup {Nil})'
    BY <1>1, <1>2, <1>3 DEF FilesOK, TasksOK, Talks, Asked, Open
  <2>4. (\A w \in Hands : task[w].pc \in {"begin", "fetched", "heard", "reviewed"} =>
         task[w].msg \in Messages)'
    BY <1>1, <1>2, <1>3, <1>5, <1>6 DEF FilesOK, TasksOK, Talks, Asked, Open
  <2>5. (\A w \in Hands : task[w].pc \in {"clean", "fetched", "heard", "reviewed"} =>
         task[w].file # Nil)'
    BY <1>1, <1>2, <1>3 DEF FilesOK, TasksOK, Talks, Asked, Open
  <2>6. (\A w \in Hands : Talks(w) => Sort[task[w].msg] = "reply")'
    BY <1>1, <1>2, <1>3, <1>5, <1>6 DEF FilesOK, TasksOK, Talks, Asked, Open
  <2>7. (\A w \in Hands : task[w].pc = "fetched" => Sort[task[w].msg] \in {"receipt", "screenshot"})'
    BY <1>1, <1>2, <1>3, <1>5, <1>6 DEF FilesOK, TasksOK, Talks, Asked, Open
  <2> QED  BY <2>1, <2>2, <2>3, <2>4, <2>5, <2>6, <2>7 DEF TasksOK
<1>9. RowsOK'
  <2>1. (\A i \in Ids : receipt[i] \in disk \cup torn \cup {Nil})'
    BY <1>1, <1>2 DEF FilesOK, TasksOK, RowsOK, FetchedOK, CleaningOK, QuestionsOK, Talks, Asked, Open
  <2>2. (\A i, j \in Ids : receipt[i] = receipt[j] /\ i # j => receipt[i] = Nil)'
    BY <1>1, <1>2 DEF FilesOK, TasksOK, RowsOK, FetchedOK, CleaningOK, QuestionsOK, Talks, Asked, Open
  <2>3. (\A i \in Ids : i \notin taken => receipt[i] = Nil)'
    BY <1>1, <1>2 DEF FilesOK, TasksOK, RowsOK, FetchedOK, CleaningOK, QuestionsOK, Talks, Asked, Open
  <2> QED  BY <2>1, <2>2, <2>3 DEF RowsOK
<1>10. QuestionsOK'
  <2>1. (\A s \in Screens : Open(s) => draft[s].file \in disk \cup torn)'
    BY <1>1, <1>2 DEF FilesOK, TasksOK, QuestionsOK, FetchedOK, CleaningOK, TalkOK, Talks, Asked, Open
  <2>2. (\A s \in Screens, i \in Ids : Open(s) => receipt[i] # draft[s].file)'
    BY <1>1, <1>2 DEF FilesOK, TasksOK, QuestionsOK, FetchedOK, CleaningOK, TalkOK, Talks, Asked, Open
  <2> QED  BY <2>1, <2>2 DEF QuestionsOK
<1>11. FetchedOK'
  <2>1. (\A w \in Hands : task[w].pc = "fetched" => task[w].file \in disk)'
    BY <1>1, <1>2, <1>3 DEF FilesOK, TasksOK, RowsOK, FetchedOK, Talks, Asked, Open
  <2>2. (\A w \in Hands, i \in Ids : task[w].pc = "fetched" => receipt[i] # task[w].file)'
    BY <1>1, <1>2, <1>3 DEF FilesOK, TasksOK, RowsOK, FetchedOK, Talks, Asked, Open
  <2>3. (\A w \in Hands, s \in Screens : task[w].pc = "fetched" /\ Asked(s) =>
         draft[s].file # task[w].file)'
    BY <1>1, <1>2, <1>3 DEF FilesOK, TasksOK, RowsOK, FetchedOK, Talks, Asked, Open
  <2>4. (\A v, w \in Hands : task[w].pc = "fetched" /\ v # w => task[v].file # task[w].file)'
    BY <1>1, <1>2, <1>3 DEF FilesOK, TasksOK, RowsOK, FetchedOK, Talks, Asked, Open
  <2> QED  BY <2>1, <2>2, <2>3, <2>4 DEF FetchedOK
<1>12. CleaningOK'
  <2>1. (\A w \in Hands, i \in Ids : task[w].pc = "clean" => receipt[i] # task[w].file)'
    BY <1>1, <1>2, <1>3 DEF FilesOK, TasksOK, RowsOK, QuestionsOK, FetchedOK, CleaningOK, TalkOK,
         Talks, Asked, Open
  <2>2. (\A w \in Hands, s \in Screens : task[w].pc = "clean" /\ Open(s) =>
         draft[s].file # task[w].file)'
    BY <1>1, <1>2, <1>3 DEF FilesOK, TasksOK, RowsOK, QuestionsOK, FetchedOK, CleaningOK, TalkOK,
         Talks, Asked, Open
  <2> QED  BY <2>1, <2>2 DEF CleaningOK
<1>13. TalkOK'
  <2>1. (\A r, s \in Screens : Asked(r) /\ Asked(s) /\ r # s => draft[r].file # draft[s].file)'
    BY <1>1, <1>2 DEF FilesOK, TasksOK, TalkOK, FetchedOK, Mine, Same, Talks, Asked, Open
  <2>2. (\A w \in Hands, s \in Screens : Talks(w) /\ Asked(s) =>
         (draft[s].file = task[w].file <=> s = Screen[task[w].msg]))'
    BY <1>1, <1>2, <1>3, <1>5, <1>6 DEF FilesOK, TasksOK, TalkOK, FetchedOK, Mine, Same, Talks, Asked,
         Open
  <2>3. (\A v, w \in Hands : Talks(v) /\ Talks(w) =>
         (task[v].file = task[w].file <=> Screen[task[v].msg] = Screen[task[w].msg]))'
    BY <1>1, <1>2, <1>3, <1>5, <1>6 DEF FilesOK, TasksOK, TalkOK, FetchedOK, Mine, Same, Talks, Asked,
         Open
  <2>4. (\A s \in Screens : Asked(s) => msg[s].status = "answered")'
    BY <1>1, <1>2, <1>5, <1>6 DEF FilesOK, TasksOK, TalkOK, FetchedOK, Mine, Same, Talks, Asked, Open
  <2>5. (\A w \in Hands : Talks(w) => msg[Screen[task[w].msg]].status = "answered")'
    BY <1>1, <1>2, <1>3, <1>5, <1>6 DEF FilesOK, TasksOK, TalkOK, FetchedOK, Mine, Same, Talks, Asked,
         Open
  <2> QED  BY <2>1, <2>2, <2>3, <2>4, <2>5 DEF TalkOK
<1>14. AimsOK'
  <2>1. (\A m \in Messages : msg[m].row # Nil =>
         msg[m].row \in taken /\ msg[m].births \subseteq carries[msg[m].row])'
    BY <1>1, <1>2, <1>5, <1>6 DEF FilesOK, TasksOK, RowsOK, AimsOK, SentOK, FetchedOK, Same, Talks,
         Asked, Open
  <2>2. (\A i \in Ids : receipt[i] # Nil => sentFor[receipt[i]] \subseteq carries[i])'
    BY <1>1, <1>2 DEF FilesOK, TasksOK, RowsOK, AimsOK, SentOK, FetchedOK, Same, Talks, Asked, Open
  <2> QED  BY <2>1, <2>2 DEF AimsOK
<1>15. SentOK'
  <2>1. (\A s \in Screens : Asked(s) => sentFor[draft[s].file] = {})'
    BY <1>1, <1>2 DEF FilesOK, TasksOK, SentOK, FetchedOK, Same, Talks, Asked, Open
  <2>2. (\A w \in Hands : Talks(w) => sentFor[task[w].file] = {})'
    BY <1>1, <1>2, <1>3 DEF FilesOK, TasksOK, SentOK, FetchedOK, Same, Talks, Asked, Open
  <2>3. (\A w \in Hands : task[w].pc = "fetched" /\ Sort[task[w].msg] = "receipt" =>
         sentFor[task[w].file] = msg[task[w].msg].births)'
    BY <1>1, <1>2, <1>3, <1>5, <1>6 DEF FilesOK, TasksOK, SentOK, FetchedOK, Same, Talks, Asked, Open
  <2>4. (\A w \in Hands : task[w].pc = "fetched" /\ Sort[task[w].msg] = "screenshot" =>
         sentFor[task[w].file] = {})'
    <3>1. \A w \in Hands : task[w].pc = "fetched"
            /\ Sort[task[w].msg] = "screenshot" => sentFor[task[w].file] = {}
      BY DEF SentOK
    <3> SUFFICES ASSUME NEW w \in Hands, task'[w].pc = "fetched", Sort[task'[w].msg] = "screenshot"
                 PROVE  sentFor'[task'[w].file] = {}
      BY DEF Asked, Talks
    <3> QED  BY <3>1, <1>1, <1>2, <1>3, <1>5, <1>6 DEF Asked, Open, Talks
  <2>5. (\A f \in 1..MaxFiles : f > files => sentFor[f] = {})'
    BY <1>1, <1>2 DEF FilesOK, TasksOK, SentOK, FetchedOK, Same, Talks, Asked, Open
  <2>6. (\A w \in Hands : task[w].pc = "fetched" => msg[task[w].msg].status # "absent")'
    BY <1>1, <1>2, <1>3, <1>5, <1>6 DEF FilesOK, TasksOK, SentOK, FetchedOK, Same, Talks, Asked, Open
  <2>7. (\A w \in Hands : task[w].pc = "begin" => msg[task[w].msg].status # "absent")'
    BY <1>1, <1>2, <1>3, <1>5, <1>6 DEF FilesOK, TasksOK, SentOK, FetchedOK, Same, Talks, Asked, Open
  <2> QED  BY <2>1, <2>2, <2>3, <2>4, <2>5, <2>6, <2>7 DEF SentOK
<1> QED  BY <1>7, <1>8, <1>9, <1>10, <1>11, <1>12, <1>13, <1>14, <1>15 DEF ReceiptsInv

(* A file left behind is only lost. *)
LEMMA AbandonKeeps ==
  ASSUME ReceiptsInv, NEW h \in Hands, Abandon(h)
  PROVE  ReceiptsInv'
<1> USE DEF ReceiptsInv
<1>1. Nil \notin 1..files /\ Screens \subseteq Messages /\ (\A m \in Messages : Screen[m] \in Messages)
  BY ReceiptsAssumption DEF FilesOK, Screens
<1>2. UNCHANGED <<disk, files, sentFor, taken, says, isVoid, receipt, births, carries, msg, draft, torn>>
  BY DEF Abandon, Rests, disks, rows, At, Free, FilesOK, TasksOK
<1>3. (\A v \in Hands : v # h => task'[v] = task[v]) /\ task'[h].pc = "idle" /\ task'[h].file = Nil
  BY DEF Abandon, Rests, disks, rows, At, Free, FilesOK, TasksOK
<1>4. task' = [v \in Hands |-> task'[v]]
  BY DEF Abandon, Rests, disks, rows, At, Free, FilesOK, TasksOK
<1>5. FilesOK'
  <2>1. (files \in 0..MaxFiles /\ births \in 0..MaxBirths)'
    BY <1>1, <1>2 DEF FilesOK
  <2>2. (disk \subseteq 1..files /\ torn \subseteq 1..files)'
    BY <1>1, <1>2 DEF FilesOK
  <2>3. (receipt \in [Ids -> 1..files \cup {Nil}])'
    BY <1>1, <1>2 DEF FilesOK, TasksOK
  <2>4. (isVoid \in [Ids -> BOOLEAN])'
    BY <1>1, <1>2 DEF FilesOK
  <2>5. (carries \in [Ids -> SUBSET (1..MaxBirths)])'
    BY <1>1, <1>2 DEF FilesOK
  <2>6. (sentFor \in [1..MaxFiles -> SUBSET (1..MaxBirths)])'
    BY <1>1, <1>2 DEF FilesOK
  <2>7. (msg \in [Messages -> Turn])'
    BY <1>1, <1>2 DEF FilesOK
  <2>8. (taken \subseteq Ids)'
    BY <1>1, <1>2 DEF FilesOK
  <2>9. (draft = [s \in Screens |-> draft[s]])'
    BY <1>1, <1>2 DEF FilesOK, Screens
  <2>10. (task = [w \in Hands |-> task[w]])'
    BY <1>1, <1>2, <1>3, <1>4 DEF FilesOK
  <2> QED  BY <2>1, <2>2, <2>3, <2>4, <2>5, <2>6, <2>7, <2>8, <2>9, <2>10 DEF FilesOK
<1>6. TasksOK'
  <2>1. (\A s \in Screens : draft[s].file \in 1..files \cup {Nil} /\ draft[s].kind \in BOOLEAN)'
    BY <1>1, <1>2 DEF FilesOK, TasksOK, Talks, Asked, Open
  <2>2. (\A s \in Screens : draft[s].kind => Asked(s))'
    BY <1>1, <1>2 DEF FilesOK, TasksOK, Talks, Asked, Open
  <2>3. (\A w \in Hands : task[w].file \in 1..files \cup {Nil})'
    BY <1>1, <1>2, <1>3 DEF FilesOK, TasksOK, Talks, Asked, Open
  <2>4. (\A w \in Hands : task[w].pc \in {"begin", "fetched", "heard", "reviewed"} =>
         task[w].msg \in Messages)'
    BY <1>1, <1>2, <1>3 DEF FilesOK, TasksOK, Talks, Asked, Open
  <2>5. (\A w \in Hands : task[w].pc \in {"clean", "fetched", "heard", "reviewed"} =>
         task[w].file # Nil)'
    BY <1>1, <1>2, <1>3 DEF FilesOK, TasksOK, Talks, Asked, Open
  <2>6. (\A w \in Hands : Talks(w) => Sort[task[w].msg] = "reply")'
    BY <1>1, <1>2, <1>3 DEF FilesOK, TasksOK, Talks, Asked, Open
  <2>7. (\A w \in Hands : task[w].pc = "fetched" => Sort[task[w].msg] \in {"receipt", "screenshot"})'
    BY <1>1, <1>2, <1>3 DEF FilesOK, TasksOK, Talks, Asked, Open
  <2> QED  BY <2>1, <2>2, <2>3, <2>4, <2>5, <2>6, <2>7 DEF TasksOK
<1>7. RowsOK'
  <2>1. (\A i \in Ids : receipt[i] \in disk \cup torn \cup {Nil})'
    BY <1>1, <1>2 DEF FilesOK, TasksOK, RowsOK, FetchedOK, CleaningOK, QuestionsOK, Talks, Asked, Open
  <2>2. (\A i, j \in Ids : receipt[i] = receipt[j] /\ i # j => receipt[i] = Nil)'
    BY <1>1, <1>2 DEF FilesOK, TasksOK, RowsOK, FetchedOK, CleaningOK, QuestionsOK, Talks, Asked, Open
  <2>3. (\A i \in Ids : i \notin taken => receipt[i] = Nil)'
    BY <1>1, <1>2 DEF FilesOK, TasksOK, RowsOK, FetchedOK, CleaningOK, QuestionsOK, Talks, Asked, Open
  <2> QED  BY <2>1, <2>2, <2>3 DEF RowsOK
<1>8. QuestionsOK'
  <2>1. (\A s \in Screens : Open(s) => draft[s].file \in disk \cup torn)'
    BY <1>1, <1>2 DEF FilesOK, TasksOK, QuestionsOK, FetchedOK, CleaningOK, TalkOK, Talks, Asked, Open
  <2>2. (\A s \in Screens, i \in Ids : Open(s) => receipt[i] # draft[s].file)'
    BY <1>1, <1>2 DEF FilesOK, TasksOK, QuestionsOK, FetchedOK, CleaningOK, TalkOK, Talks, Asked, Open
  <2> QED  BY <2>1, <2>2 DEF QuestionsOK
<1>9. FetchedOK'
  <2>1. (\A w \in Hands : task[w].pc = "fetched" => task[w].file \in disk)'
    BY <1>1, <1>2, <1>3 DEF FilesOK, TasksOK, RowsOK, FetchedOK, Talks, Asked, Open
  <2>2. (\A w \in Hands, i \in Ids : task[w].pc = "fetched" => receipt[i] # task[w].file)'
    BY <1>1, <1>2, <1>3 DEF FilesOK, TasksOK, RowsOK, FetchedOK, Talks, Asked, Open
  <2>3. (\A w \in Hands, s \in Screens : task[w].pc = "fetched" /\ Asked(s) =>
         draft[s].file # task[w].file)'
    BY <1>1, <1>2, <1>3 DEF FilesOK, TasksOK, RowsOK, FetchedOK, Talks, Asked, Open
  <2>4. (\A v, w \in Hands : task[w].pc = "fetched" /\ v # w => task[v].file # task[w].file)'
    BY <1>1, <1>2, <1>3 DEF FilesOK, TasksOK, RowsOK, FetchedOK, Talks, Asked, Open
  <2> QED  BY <2>1, <2>2, <2>3, <2>4 DEF FetchedOK
<1>10. CleaningOK'
  <2>1. (\A w \in Hands, i \in Ids : task[w].pc = "clean" => receipt[i] # task[w].file)'
    BY <1>1, <1>2, <1>3 DEF FilesOK, TasksOK, RowsOK, QuestionsOK, FetchedOK, CleaningOK, TalkOK,
         Talks, Asked, Open
  <2>2. (\A w \in Hands, s \in Screens : task[w].pc = "clean" /\ Open(s) =>
         draft[s].file # task[w].file)'
    BY <1>1, <1>2, <1>3 DEF FilesOK, TasksOK, RowsOK, QuestionsOK, FetchedOK, CleaningOK, TalkOK,
         Talks, Asked, Open
  <2> QED  BY <2>1, <2>2 DEF CleaningOK
<1>11. TalkOK'
  <2>1. (\A r, s \in Screens : Asked(r) /\ Asked(s) /\ r # s => draft[r].file # draft[s].file)'
    BY <1>1, <1>2 DEF FilesOK, TasksOK, TalkOK, FetchedOK, Mine, Same, Talks, Asked, Open
  <2>2. (\A w \in Hands, s \in Screens : Talks(w) /\ Asked(s) =>
         (draft[s].file = task[w].file <=> s = Screen[task[w].msg]))'
    BY <1>1, <1>2, <1>3 DEF FilesOK, TasksOK, TalkOK, FetchedOK, Mine, Same, Talks, Asked, Open
  <2>3. (\A v, w \in Hands : Talks(v) /\ Talks(w) =>
         (task[v].file = task[w].file <=> Screen[task[v].msg] = Screen[task[w].msg]))'
    BY <1>1, <1>2, <1>3 DEF FilesOK, TasksOK, TalkOK, FetchedOK, Mine, Same, Talks, Asked, Open
  <2>4. (\A s \in Screens : Asked(s) => msg[s].status = "answered")'
    BY <1>1, <1>2 DEF FilesOK, TasksOK, TalkOK, FetchedOK, Mine, Same, Talks, Asked, Open
  <2>5. (\A w \in Hands : Talks(w) => msg[Screen[task[w].msg]].status = "answered")'
    BY <1>1, <1>2, <1>3 DEF FilesOK, TasksOK, TalkOK, FetchedOK, Mine, Same, Talks, Asked, Open
  <2> QED  BY <2>1, <2>2, <2>3, <2>4, <2>5 DEF TalkOK
<1>12. AimsOK'
  <2>1. (\A m \in Messages : msg[m].row # Nil =>
         msg[m].row \in taken /\ msg[m].births \subseteq carries[msg[m].row])'
    BY <1>1, <1>2 DEF FilesOK, TasksOK, RowsOK, AimsOK, SentOK, FetchedOK, Same, Talks, Asked, Open
  <2>2. (\A i \in Ids : receipt[i] # Nil => sentFor[receipt[i]] \subseteq carries[i])'
    BY <1>1, <1>2 DEF FilesOK, TasksOK, RowsOK, AimsOK, SentOK, FetchedOK, Same, Talks, Asked, Open
  <2> QED  BY <2>1, <2>2 DEF AimsOK
<1>13. SentOK'
  <2>1. (\A s \in Screens : Asked(s) => sentFor[draft[s].file] = {})'
    BY <1>1, <1>2 DEF FilesOK, TasksOK, SentOK, FetchedOK, Same, Talks, Asked, Open
  <2>2. (\A w \in Hands : Talks(w) => sentFor[task[w].file] = {})'
    BY <1>1, <1>2, <1>3 DEF FilesOK, TasksOK, SentOK, FetchedOK, Same, Talks, Asked, Open
  <2>3. (\A w \in Hands : task[w].pc = "fetched" /\ Sort[task[w].msg] = "receipt" =>
         sentFor[task[w].file] = msg[task[w].msg].births)'
    BY <1>1, <1>2, <1>3 DEF FilesOK, TasksOK, SentOK, FetchedOK, Same, Talks, Asked, Open
  <2>4. (\A w \in Hands : task[w].pc = "fetched" /\ Sort[task[w].msg] = "screenshot" =>
         sentFor[task[w].file] = {})'
    <3>1. \A w \in Hands : task[w].pc = "fetched"
            /\ Sort[task[w].msg] = "screenshot" => sentFor[task[w].file] = {}
      BY DEF SentOK
    <3> SUFFICES ASSUME NEW w \in Hands, task'[w].pc = "fetched", Sort[task'[w].msg] = "screenshot"
                 PROVE  sentFor'[task'[w].file] = {}
      BY DEF Asked, Talks
    <3> QED  BY <3>1, <1>1, <1>2, <1>3 DEF Asked, Open, Talks
  <2>5. (\A f \in 1..MaxFiles : f > files => sentFor[f] = {})'
    BY <1>1, <1>2 DEF FilesOK, TasksOK, SentOK, FetchedOK, Same, Talks, Asked, Open
  <2>6. (\A w \in Hands : task[w].pc = "fetched" => msg[task[w].msg].status # "absent")'
    BY <1>1, <1>2, <1>3 DEF FilesOK, TasksOK, SentOK, FetchedOK, Same, Talks, Asked, Open
  <2>7. (\A w \in Hands : task[w].pc = "begin" => msg[task[w].msg].status # "absent")'
    BY <1>1, <1>2, <1>3 DEF FilesOK, TasksOK, SentOK, FetchedOK, Same, Talks, Asked, Open
  <2> QED  BY <2>1, <2>2, <2>3, <2>4, <2>5, <2>6, <2>7 DEF SentOK
<1> QED  BY <1>5, <1>6, <1>7, <1>8, <1>9, <1>10, <1>11, <1>12, <1>13 DEF ReceiptsInv

(* The file of a failed turn was no one else's. *)
LEMMA DiscardKeeps ==
  ASSUME ReceiptsInv, NEW h \in Hands, Discard(h)
  PROVE  ReceiptsInv'
<1> USE DEF ReceiptsInv
<1>1. Nil \notin 1..files /\ Screens \subseteq Messages /\ (\A m \in Messages : Screen[m] \in Messages)
  BY ReceiptsAssumption DEF FilesOK, Screens
<1>2. UNCHANGED <<files, sentFor, taken, says, isVoid, receipt, births, carries, draft, torn>>
  BY DEF Discard, Rests, disks, rows, At, Free, FilesOK, TasksOK
<1>3. (\A v \in Hands : v # h => task'[v] = task[v]) /\ task'[h].pc = "idle" /\ task'[h].file = Nil
  BY DEF Discard, Rests, disks, rows, At, Free, FilesOK, TasksOK
<1>4. task' = [v \in Hands |-> task'[v]]
  BY DEF Discard, Rests, disks, rows, At, Free, FilesOK, TasksOK
<1>5. task[h].pc = "fetched" /\ disk' = disk \ {task[h].file} /\ task[h].msg \in Messages
  BY DEF Discard, disks, rows, At, Free, FilesOK, TasksOK
<1>6. msg' \in [Messages -> Turn] /\ (\A m \in Messages : Same(m))
  BY <1>5, AnswerKeeps DEF Discard, Same, FilesOK
<1>7. FilesOK'
  <2>1. (files \in 0..MaxFiles /\ births \in 0..MaxBirths)'
    BY <1>1, <1>2 DEF FilesOK
  <2>2. (disk \subseteq 1..files /\ torn \subseteq 1..files)'
    BY <1>1, <1>2, <1>5 DEF FilesOK
  <2>3. (receipt \in [Ids -> 1..files \cup {Nil}])'
    BY <1>1, <1>2 DEF FilesOK, TasksOK
  <2>4. (isVoid \in [Ids -> BOOLEAN])'
    BY <1>1, <1>2 DEF FilesOK
  <2>5. (carries \in [Ids -> SUBSET (1..MaxBirths)])'
    BY <1>1, <1>2 DEF FilesOK
  <2>6. (sentFor \in [1..MaxFiles -> SUBSET (1..MaxBirths)])'
    BY <1>1, <1>2 DEF FilesOK
  <2>7. (msg \in [Messages -> Turn])'
    BY <1>1, <1>2, <1>6 DEF FilesOK
  <2>8. (taken \subseteq Ids)'
    BY <1>1, <1>2 DEF FilesOK
  <2>9. (draft = [s \in Screens |-> draft[s]])'
    BY <1>1, <1>2 DEF FilesOK, Screens
  <2>10. (task = [w \in Hands |-> task[w]])'
    BY <1>1, <1>2, <1>3, <1>4 DEF FilesOK
  <2> QED  BY <2>1, <2>2, <2>3, <2>4, <2>5, <2>6, <2>7, <2>8, <2>9, <2>10 DEF FilesOK
<1>8. TasksOK'
  <2>1. (\A s \in Screens : draft[s].file \in 1..files \cup {Nil} /\ draft[s].kind \in BOOLEAN)'
    BY <1>1, <1>2 DEF FilesOK, TasksOK, Talks, Asked, Open
  <2>2. (\A s \in Screens : draft[s].kind => Asked(s))'
    BY <1>1, <1>2 DEF FilesOK, TasksOK, Talks, Asked, Open
  <2>3. (\A w \in Hands : task[w].file \in 1..files \cup {Nil})'
    BY <1>1, <1>2, <1>3 DEF FilesOK, TasksOK, Talks, Asked, Open
  <2>4. (\A w \in Hands : task[w].pc \in {"begin", "fetched", "heard", "reviewed"} =>
         task[w].msg \in Messages)'
    BY <1>1, <1>2, <1>3, <1>6 DEF FilesOK, TasksOK, Talks, Asked, Open
  <2>5. (\A w \in Hands : task[w].pc \in {"clean", "fetched", "heard", "reviewed"} =>
         task[w].file # Nil)'
    BY <1>1, <1>2, <1>3 DEF FilesOK, TasksOK, Talks, Asked, Open
  <2>6. (\A w \in Hands : Talks(w) => Sort[task[w].msg] = "reply")'
    BY <1>1, <1>2, <1>3, <1>6 DEF FilesOK, TasksOK, Talks, Asked, Open
  <2>7. (\A w \in Hands : task[w].pc = "fetched" => Sort[task[w].msg] \in {"receipt", "screenshot"})'
    BY <1>1, <1>2, <1>3, <1>6 DEF FilesOK, TasksOK, Talks, Asked, Open
  <2> QED  BY <2>1, <2>2, <2>3, <2>4, <2>5, <2>6, <2>7 DEF TasksOK
<1>9. RowsOK'
  <2>1. (\A i \in Ids : receipt[i] \in disk \cup torn \cup {Nil})'
    BY <1>1, <1>2, <1>5 DEF FilesOK, TasksOK, RowsOK, FetchedOK, CleaningOK, QuestionsOK, Talks, Asked,
         Open
  <2>2. (\A i, j \in Ids : receipt[i] = receipt[j] /\ i # j => receipt[i] = Nil)'
    BY <1>1, <1>2 DEF FilesOK, TasksOK, RowsOK, FetchedOK, CleaningOK, QuestionsOK, Talks, Asked, Open
  <2>3. (\A i \in Ids : i \notin taken => receipt[i] = Nil)'
    BY <1>1, <1>2 DEF FilesOK, TasksOK, RowsOK, FetchedOK, CleaningOK, QuestionsOK, Talks, Asked, Open
  <2> QED  BY <2>1, <2>2, <2>3 DEF RowsOK
<1>10. QuestionsOK'
  <2>1. (\A s \in Screens : Open(s) => draft[s].file \in disk \cup torn)'
    BY <1>1, <1>2, <1>5 DEF FilesOK, TasksOK, QuestionsOK, FetchedOK, CleaningOK, TalkOK, Talks, Asked,
         Open
  <2>2. (\A s \in Screens, i \in Ids : Open(s) => receipt[i] # draft[s].file)'
    BY <1>1, <1>2 DEF FilesOK, TasksOK, QuestionsOK, FetchedOK, CleaningOK, TalkOK, Talks, Asked, Open
  <2> QED  BY <2>1, <2>2 DEF QuestionsOK
<1>11. FetchedOK'
  <2>1. (\A w \in Hands : task[w].pc = "fetched" => task[w].file \in disk)'
    BY <1>1, <1>2, <1>3, <1>5 DEF FilesOK, TasksOK, RowsOK, FetchedOK, Talks, Asked, Open
  <2>2. (\A w \in Hands, i \in Ids : task[w].pc = "fetched" => receipt[i] # task[w].file)'
    BY <1>1, <1>2, <1>3 DEF FilesOK, TasksOK, RowsOK, FetchedOK, Talks, Asked, Open
  <2>3. (\A w \in Hands, s \in Screens : task[w].pc = "fetched" /\ Asked(s) =>
         draft[s].file # task[w].file)'
    BY <1>1, <1>2, <1>3 DEF FilesOK, TasksOK, RowsOK, FetchedOK, Talks, Asked, Open
  <2>4. (\A v, w \in Hands : task[w].pc = "fetched" /\ v # w => task[v].file # task[w].file)'
    BY <1>1, <1>2, <1>3 DEF FilesOK, TasksOK, RowsOK, FetchedOK, Talks, Asked, Open
  <2> QED  BY <2>1, <2>2, <2>3, <2>4 DEF FetchedOK
<1>12. CleaningOK'
  <2>1. (\A w \in Hands, i \in Ids : task[w].pc = "clean" => receipt[i] # task[w].file)'
    BY <1>1, <1>2, <1>3 DEF FilesOK, TasksOK, RowsOK, QuestionsOK, FetchedOK, CleaningOK, TalkOK,
         Talks, Asked, Open
  <2>2. (\A w \in Hands, s \in Screens : task[w].pc = "clean" /\ Open(s) =>
         draft[s].file # task[w].file)'
    BY <1>1, <1>2, <1>3 DEF FilesOK, TasksOK, RowsOK, QuestionsOK, FetchedOK, CleaningOK, TalkOK,
         Talks, Asked, Open
  <2> QED  BY <2>1, <2>2 DEF CleaningOK
<1>13. TalkOK'
  <2>1. (\A r, s \in Screens : Asked(r) /\ Asked(s) /\ r # s => draft[r].file # draft[s].file)'
    BY <1>1, <1>2 DEF FilesOK, TasksOK, TalkOK, FetchedOK, Mine, Same, Talks, Asked, Open
  <2>2. (\A w \in Hands, s \in Screens : Talks(w) /\ Asked(s) =>
         (draft[s].file = task[w].file <=> s = Screen[task[w].msg]))'
    BY <1>1, <1>2, <1>3, <1>6 DEF FilesOK, TasksOK, TalkOK, FetchedOK, Mine, Same, Talks, Asked, Open
  <2>3. (\A v, w \in Hands : Talks(v) /\ Talks(w) =>
         (task[v].file = task[w].file <=> Screen[task[v].msg] = Screen[task[w].msg]))'
    BY <1>1, <1>2, <1>3, <1>6 DEF FilesOK, TasksOK, TalkOK, FetchedOK, Mine, Same, Talks, Asked, Open
  <2>4. (\A s \in Screens : Asked(s) => msg[s].status = "answered")'
    BY <1>1, <1>2, <1>6 DEF FilesOK, TasksOK, TalkOK, FetchedOK, Mine, Same, Talks, Asked, Open
  <2>5. (\A w \in Hands : Talks(w) => msg[Screen[task[w].msg]].status = "answered")'
    BY <1>1, <1>2, <1>3, <1>6 DEF FilesOK, TasksOK, TalkOK, FetchedOK, Mine, Same, Talks, Asked, Open
  <2> QED  BY <2>1, <2>2, <2>3, <2>4, <2>5 DEF TalkOK
<1>14. AimsOK'
  <2>1. (\A m \in Messages : msg[m].row # Nil =>
         msg[m].row \in taken /\ msg[m].births \subseteq carries[msg[m].row])'
    BY <1>1, <1>2, <1>6 DEF FilesOK, TasksOK, RowsOK, AimsOK, SentOK, FetchedOK, Same, Talks, Asked,
         Open
  <2>2. (\A i \in Ids : receipt[i] # Nil => sentFor[receipt[i]] \subseteq carries[i])'
    BY <1>1, <1>2 DEF FilesOK, TasksOK, RowsOK, AimsOK, SentOK, FetchedOK, Same, Talks, Asked, Open
  <2> QED  BY <2>1, <2>2 DEF AimsOK
<1>15. SentOK'
  <2>1. (\A s \in Screens : Asked(s) => sentFor[draft[s].file] = {})'
    BY <1>1, <1>2 DEF FilesOK, TasksOK, SentOK, FetchedOK, Same, Talks, Asked, Open
  <2>2. (\A w \in Hands : Talks(w) => sentFor[task[w].file] = {})'
    BY <1>1, <1>2, <1>3 DEF FilesOK, TasksOK, SentOK, FetchedOK, Same, Talks, Asked, Open
  <2>3. (\A w \in Hands : task[w].pc = "fetched" /\ Sort[task[w].msg] = "receipt" =>
         sentFor[task[w].file] = msg[task[w].msg].births)'
    BY <1>1, <1>2, <1>3, <1>6 DEF FilesOK, TasksOK, SentOK, FetchedOK, Same, Talks, Asked, Open
  <2>4. (\A w \in Hands : task[w].pc = "fetched" /\ Sort[task[w].msg] = "screenshot" =>
         sentFor[task[w].file] = {})'
    <3>1. \A w \in Hands : task[w].pc = "fetched"
            /\ Sort[task[w].msg] = "screenshot" => sentFor[task[w].file] = {}
      BY DEF SentOK
    <3> SUFFICES ASSUME NEW w \in Hands, task'[w].pc = "fetched", Sort[task'[w].msg] = "screenshot"
                 PROVE  sentFor'[task'[w].file] = {}
      BY DEF Asked, Talks
    <3> QED  BY <3>1, <1>1, <1>2, <1>3, <1>5, <1>6 DEF Asked, Open, Talks
  <2>5. (\A f \in 1..MaxFiles : f > files => sentFor[f] = {})'
    BY <1>1, <1>2 DEF FilesOK, TasksOK, SentOK, FetchedOK, Same, Talks, Asked, Open
  <2>6. (\A w \in Hands : task[w].pc = "fetched" => msg[task[w].msg].status # "absent")'
    BY <1>1, <1>2, <1>3, <1>6 DEF FilesOK, TasksOK, SentOK, FetchedOK, Same, Talks, Asked, Open
  <2>7. (\A w \in Hands : task[w].pc = "begin" => msg[task[w].msg].status # "absent")'
    BY <1>1, <1>2, <1>3, <1>6 DEF FilesOK, TasksOK, SentOK, FetchedOK, Same, Talks, Asked, Open
  <2> QED  BY <2>1, <2>2, <2>3, <2>4, <2>5, <2>6, <2>7 DEF SentOK
<1> QED  BY <1>7, <1>8, <1>9, <1>10, <1>11, <1>12, <1>13, <1>14, <1>15 DEF ReceiptsInv

(* What is cleaned up is no row's and no open question's. *)
LEMMA CleanKeeps ==
  ASSUME ReceiptsInv, NEW h \in Hands, Clean(h)
  PROVE  ReceiptsInv'
<1> USE DEF ReceiptsInv
<1>1. Nil \notin 1..files /\ Screens \subseteq Messages /\ (\A m \in Messages : Screen[m] \in Messages)
  BY ReceiptsAssumption DEF FilesOK, Screens
<1>2. UNCHANGED <<files, sentFor, taken, says, isVoid, receipt, births, carries, msg, draft, torn>>
  BY DEF Clean, Rests, disks, rows, At, Free, FilesOK, TasksOK
<1>3. (\A v \in Hands : v # h => task'[v] = task[v]) /\ task'[h].pc = "idle" /\ task'[h].file = Nil
  BY DEF Clean, Rests, disks, rows, At, Free, FilesOK, TasksOK
<1>4. task' = [v \in Hands |-> task'[v]]
  BY DEF Clean, Rests, disks, rows, At, Free, FilesOK, TasksOK
<1>5. task[h].pc = "clean" /\ disk' = disk \ {task[h].file}
  BY DEF Clean, disks, rows, At, Free, FilesOK, TasksOK
<1>6. FilesOK'
  <2>1. (files \in 0..MaxFiles /\ births \in 0..MaxBirths)'
    BY <1>1, <1>2 DEF FilesOK
  <2>2. (disk \subseteq 1..files /\ torn \subseteq 1..files)'
    BY <1>1, <1>2, <1>5 DEF FilesOK
  <2>3. (receipt \in [Ids -> 1..files \cup {Nil}])'
    BY <1>1, <1>2 DEF FilesOK, TasksOK
  <2>4. (isVoid \in [Ids -> BOOLEAN])'
    BY <1>1, <1>2 DEF FilesOK
  <2>5. (carries \in [Ids -> SUBSET (1..MaxBirths)])'
    BY <1>1, <1>2 DEF FilesOK
  <2>6. (sentFor \in [1..MaxFiles -> SUBSET (1..MaxBirths)])'
    BY <1>1, <1>2 DEF FilesOK
  <2>7. (msg \in [Messages -> Turn])'
    BY <1>1, <1>2 DEF FilesOK
  <2>8. (taken \subseteq Ids)'
    BY <1>1, <1>2 DEF FilesOK
  <2>9. (draft = [s \in Screens |-> draft[s]])'
    BY <1>1, <1>2 DEF FilesOK, Screens
  <2>10. (task = [w \in Hands |-> task[w]])'
    BY <1>1, <1>2, <1>3, <1>4 DEF FilesOK
  <2> QED  BY <2>1, <2>2, <2>3, <2>4, <2>5, <2>6, <2>7, <2>8, <2>9, <2>10 DEF FilesOK
<1>7. TasksOK'
  <2>1. (\A s \in Screens : draft[s].file \in 1..files \cup {Nil} /\ draft[s].kind \in BOOLEAN)'
    BY <1>1, <1>2 DEF FilesOK, TasksOK, Talks, Asked, Open
  <2>2. (\A s \in Screens : draft[s].kind => Asked(s))'
    BY <1>1, <1>2 DEF FilesOK, TasksOK, Talks, Asked, Open
  <2>3. (\A w \in Hands : task[w].file \in 1..files \cup {Nil})'
    BY <1>1, <1>2, <1>3 DEF FilesOK, TasksOK, Talks, Asked, Open
  <2>4. (\A w \in Hands : task[w].pc \in {"begin", "fetched", "heard", "reviewed"} =>
         task[w].msg \in Messages)'
    BY <1>1, <1>2, <1>3 DEF FilesOK, TasksOK, Talks, Asked, Open
  <2>5. (\A w \in Hands : task[w].pc \in {"clean", "fetched", "heard", "reviewed"} =>
         task[w].file # Nil)'
    BY <1>1, <1>2, <1>3 DEF FilesOK, TasksOK, Talks, Asked, Open
  <2>6. (\A w \in Hands : Talks(w) => Sort[task[w].msg] = "reply")'
    BY <1>1, <1>2, <1>3 DEF FilesOK, TasksOK, Talks, Asked, Open
  <2>7. (\A w \in Hands : task[w].pc = "fetched" => Sort[task[w].msg] \in {"receipt", "screenshot"})'
    BY <1>1, <1>2, <1>3 DEF FilesOK, TasksOK, Talks, Asked, Open
  <2> QED  BY <2>1, <2>2, <2>3, <2>4, <2>5, <2>6, <2>7 DEF TasksOK
<1>8. RowsOK'
  <2>1. (\A i \in Ids : receipt[i] \in disk \cup torn \cup {Nil})'
    BY <1>1, <1>2, <1>5 DEF FilesOK, TasksOK, RowsOK, FetchedOK, CleaningOK, QuestionsOK, Talks, Asked,
         Open
  <2>2. (\A i, j \in Ids : receipt[i] = receipt[j] /\ i # j => receipt[i] = Nil)'
    BY <1>1, <1>2 DEF FilesOK, TasksOK, RowsOK, FetchedOK, CleaningOK, QuestionsOK, Talks, Asked, Open
  <2>3. (\A i \in Ids : i \notin taken => receipt[i] = Nil)'
    BY <1>1, <1>2 DEF FilesOK, TasksOK, RowsOK, FetchedOK, CleaningOK, QuestionsOK, Talks, Asked, Open
  <2> QED  BY <2>1, <2>2, <2>3 DEF RowsOK
<1>9. QuestionsOK'
  <2>1. (\A s \in Screens : Open(s) => draft[s].file \in disk \cup torn)'
    BY <1>1, <1>2, <1>5 DEF FilesOK, TasksOK, QuestionsOK, FetchedOK, CleaningOK, TalkOK, Talks, Asked,
         Open
  <2>2. (\A s \in Screens, i \in Ids : Open(s) => receipt[i] # draft[s].file)'
    BY <1>1, <1>2 DEF FilesOK, TasksOK, QuestionsOK, FetchedOK, CleaningOK, TalkOK, Talks, Asked, Open
  <2> QED  BY <2>1, <2>2 DEF QuestionsOK
<1>10. FetchedOK'
  <2>1. (\A w \in Hands : task[w].pc = "fetched" => task[w].file \in disk)'
    BY <1>1, <1>2, <1>3, <1>5 DEF FilesOK, TasksOK, RowsOK, FetchedOK, Talks, Asked, Open
  <2>2. (\A w \in Hands, i \in Ids : task[w].pc = "fetched" => receipt[i] # task[w].file)'
    BY <1>1, <1>2, <1>3 DEF FilesOK, TasksOK, RowsOK, FetchedOK, Talks, Asked, Open
  <2>3. (\A w \in Hands, s \in Screens : task[w].pc = "fetched" /\ Asked(s) =>
         draft[s].file # task[w].file)'
    BY <1>1, <1>2, <1>3 DEF FilesOK, TasksOK, RowsOK, FetchedOK, Talks, Asked, Open
  <2>4. (\A v, w \in Hands : task[w].pc = "fetched" /\ v # w => task[v].file # task[w].file)'
    BY <1>1, <1>2, <1>3 DEF FilesOK, TasksOK, RowsOK, FetchedOK, Talks, Asked, Open
  <2> QED  BY <2>1, <2>2, <2>3, <2>4 DEF FetchedOK
<1>11. CleaningOK'
  <2>1. (\A w \in Hands, i \in Ids : task[w].pc = "clean" => receipt[i] # task[w].file)'
    BY <1>1, <1>2, <1>3 DEF FilesOK, TasksOK, RowsOK, QuestionsOK, FetchedOK, CleaningOK, TalkOK,
         Talks, Asked, Open
  <2>2. (\A w \in Hands, s \in Screens : task[w].pc = "clean" /\ Open(s) =>
         draft[s].file # task[w].file)'
    BY <1>1, <1>2, <1>3 DEF FilesOK, TasksOK, RowsOK, QuestionsOK, FetchedOK, CleaningOK, TalkOK,
         Talks, Asked, Open
  <2> QED  BY <2>1, <2>2 DEF CleaningOK
<1>12. TalkOK'
  <2>1. (\A r, s \in Screens : Asked(r) /\ Asked(s) /\ r # s => draft[r].file # draft[s].file)'
    BY <1>1, <1>2 DEF FilesOK, TasksOK, TalkOK, FetchedOK, Mine, Same, Talks, Asked, Open
  <2>2. (\A w \in Hands, s \in Screens : Talks(w) /\ Asked(s) =>
         (draft[s].file = task[w].file <=> s = Screen[task[w].msg]))'
    BY <1>1, <1>2, <1>3 DEF FilesOK, TasksOK, TalkOK, FetchedOK, Mine, Same, Talks, Asked, Open
  <2>3. (\A v, w \in Hands : Talks(v) /\ Talks(w) =>
         (task[v].file = task[w].file <=> Screen[task[v].msg] = Screen[task[w].msg]))'
    BY <1>1, <1>2, <1>3 DEF FilesOK, TasksOK, TalkOK, FetchedOK, Mine, Same, Talks, Asked, Open
  <2>4. (\A s \in Screens : Asked(s) => msg[s].status = "answered")'
    BY <1>1, <1>2 DEF FilesOK, TasksOK, TalkOK, FetchedOK, Mine, Same, Talks, Asked, Open
  <2>5. (\A w \in Hands : Talks(w) => msg[Screen[task[w].msg]].status = "answered")'
    BY <1>1, <1>2, <1>3 DEF FilesOK, TasksOK, TalkOK, FetchedOK, Mine, Same, Talks, Asked, Open
  <2> QED  BY <2>1, <2>2, <2>3, <2>4, <2>5 DEF TalkOK
<1>13. AimsOK'
  <2>1. (\A m \in Messages : msg[m].row # Nil =>
         msg[m].row \in taken /\ msg[m].births \subseteq carries[msg[m].row])'
    BY <1>1, <1>2 DEF FilesOK, TasksOK, RowsOK, AimsOK, SentOK, FetchedOK, Same, Talks, Asked, Open
  <2>2. (\A i \in Ids : receipt[i] # Nil => sentFor[receipt[i]] \subseteq carries[i])'
    BY <1>1, <1>2 DEF FilesOK, TasksOK, RowsOK, AimsOK, SentOK, FetchedOK, Same, Talks, Asked, Open
  <2> QED  BY <2>1, <2>2 DEF AimsOK
<1>14. SentOK'
  <2>1. (\A s \in Screens : Asked(s) => sentFor[draft[s].file] = {})'
    BY <1>1, <1>2 DEF FilesOK, TasksOK, SentOK, FetchedOK, Same, Talks, Asked, Open
  <2>2. (\A w \in Hands : Talks(w) => sentFor[task[w].file] = {})'
    BY <1>1, <1>2, <1>3 DEF FilesOK, TasksOK, SentOK, FetchedOK, Same, Talks, Asked, Open
  <2>3. (\A w \in Hands : task[w].pc = "fetched" /\ Sort[task[w].msg] = "receipt" =>
         sentFor[task[w].file] = msg[task[w].msg].births)'
    BY <1>1, <1>2, <1>3 DEF FilesOK, TasksOK, SentOK, FetchedOK, Same, Talks, Asked, Open
  <2>4. (\A w \in Hands : task[w].pc = "fetched" /\ Sort[task[w].msg] = "screenshot" =>
         sentFor[task[w].file] = {})'
    <3>1. \A w \in Hands : task[w].pc = "fetched"
            /\ Sort[task[w].msg] = "screenshot" => sentFor[task[w].file] = {}
      BY DEF SentOK
    <3> SUFFICES ASSUME NEW w \in Hands, task'[w].pc = "fetched", Sort[task'[w].msg] = "screenshot"
                 PROVE  sentFor'[task'[w].file] = {}
      BY DEF Asked, Talks
    <3> QED  BY <3>1, <1>1, <1>2, <1>3, <1>5 DEF Asked, Open, Talks
  <2>5. (\A f \in 1..MaxFiles : f > files => sentFor[f] = {})'
    BY <1>1, <1>2 DEF FilesOK, TasksOK, SentOK, FetchedOK, Same, Talks, Asked, Open
  <2>6. (\A w \in Hands : task[w].pc = "fetched" => msg[task[w].msg].status # "absent")'
    BY <1>1, <1>2, <1>3 DEF FilesOK, TasksOK, SentOK, FetchedOK, Same, Talks, Asked, Open
  <2>7. (\A w \in Hands : task[w].pc = "begin" => msg[task[w].msg].status # "absent")'
    BY <1>1, <1>2, <1>3 DEF FilesOK, TasksOK, SentOK, FetchedOK, Same, Talks, Asked, Open
  <2> QED  BY <2>1, <2>2, <2>3, <2>4, <2>5, <2>6, <2>7 DEF SentOK
<1> QED  BY <1>6, <1>7, <1>8, <1>9, <1>10, <1>11, <1>12, <1>13, <1>14 DEF ReceiptsInv

(* The file of a refused screenshot is no one's. *)
LEMMA RefuseKeeps ==
  ASSUME ReceiptsInv, NEW h \in Hands, Refuse(h)
  PROVE  ReceiptsInv'
<1> USE DEF ReceiptsInv
<1>1. Nil \notin 1..files /\ Screens \subseteq Messages /\ (\A m \in Messages : Screen[m] \in Messages)
  BY ReceiptsAssumption DEF FilesOK, Screens
<1>2. UNCHANGED <<disk, files, sentFor, taken, says, isVoid, receipt, births, carries, draft, torn>>
  BY DEF Refuse, Doing, disks, rows, At, Free, FilesOK, TasksOK
<1>3. (\A v \in Hands : v # h => task'[v] = task[v]) /\ task'[h].pc = "clean"
        /\ task'[h].file = task[h].file
  BY DEF Refuse, Doing, disks, rows, At, Free, FilesOK, TasksOK
<1>4. task' = [v \in Hands |-> task'[v]]
  BY DEF Refuse, Doing, disks, rows, At, Free, FilesOK, TasksOK
<1>5. task[h].pc = "fetched"
  BY DEF Refuse, Doing, disks, rows, At, Free, FilesOK, TasksOK
<1>6. task[h].msg \in Messages /\ msg' = TurnAnswered(h)
  BY DEF Refuse, Doing, disks, rows, At, Free, FilesOK, TasksOK
<1>7. msg' \in [Messages -> Turn] /\ (\A m \in Messages : Same(m))
        /\ (Mine(h) => msg'[task[h].msg].status = "answered")
  BY <1>6, AnswerKeeps
<1>8. FilesOK'
  <2>1. (files \in 0..MaxFiles /\ births \in 0..MaxBirths)'
    BY <1>1, <1>2, <1>5 DEF FilesOK
  <2>2. (disk \subseteq 1..files /\ torn \subseteq 1..files)'
    BY <1>1, <1>2, <1>5 DEF FilesOK
  <2>3. (receipt \in [Ids -> 1..files \cup {Nil}])'
    BY <1>1, <1>2, <1>5 DEF FilesOK, TasksOK
  <2>4. (isVoid \in [Ids -> BOOLEAN])'
    BY <1>1, <1>2, <1>5 DEF FilesOK
  <2>5. (carries \in [Ids -> SUBSET (1..MaxBirths)])'
    BY <1>1, <1>2, <1>5 DEF FilesOK
  <2>6. (sentFor \in [1..MaxFiles -> SUBSET (1..MaxBirths)])'
    BY <1>1, <1>2, <1>5 DEF FilesOK
  <2>7. (msg \in [Messages -> Turn])'
    BY <1>1, <1>2, <1>5, <1>6, <1>7 DEF FilesOK
  <2>8. (taken \subseteq Ids)'
    BY <1>1, <1>2, <1>5 DEF FilesOK
  <2>9. (draft = [s \in Screens |-> draft[s]])'
    BY <1>1, <1>2, <1>5 DEF FilesOK, Screens
  <2>10. (task = [w \in Hands |-> task[w]])'
    BY <1>1, <1>2, <1>3, <1>4, <1>5 DEF FilesOK
  <2> QED  BY <2>1, <2>2, <2>3, <2>4, <2>5, <2>6, <2>7, <2>8, <2>9, <2>10 DEF FilesOK
<1>9. TasksOK'
  <2>1. (\A s \in Screens : draft[s].file \in 1..files \cup {Nil} /\ draft[s].kind \in BOOLEAN)'
    BY <1>1, <1>2, <1>5 DEF FilesOK, TasksOK, Talks, Asked, Open
  <2>2. (\A s \in Screens : draft[s].kind => Asked(s))'
    BY <1>1, <1>2, <1>5 DEF FilesOK, TasksOK, Talks, Asked, Open
  <2>3. (\A w \in Hands : task[w].file \in 1..files \cup {Nil})'
    BY <1>1, <1>2, <1>3, <1>5 DEF FilesOK, TasksOK, Talks, Asked, Open
  <2>4. (\A w \in Hands : task[w].pc \in {"begin", "fetched", "heard", "reviewed"} =>
         task[w].msg \in Messages)'
    BY <1>1, <1>2, <1>3, <1>5, <1>6, <1>7 DEF FilesOK, TasksOK, Talks, Asked, Open
  <2>5. (\A w \in Hands : task[w].pc \in {"clean", "fetched", "heard", "reviewed"} =>
         task[w].file # Nil)'
    BY <1>1, <1>2, <1>3, <1>5 DEF FilesOK, TasksOK, Talks, Asked, Open
  <2>6. (\A w \in Hands : Talks(w) => Sort[task[w].msg] = "reply")'
    BY <1>1, <1>2, <1>3, <1>5, <1>6, <1>7 DEF FilesOK, TasksOK, Talks, Asked, Open
  <2>7. (\A w \in Hands : task[w].pc = "fetched" => Sort[task[w].msg] \in {"receipt", "screenshot"})'
    BY <1>1, <1>2, <1>3, <1>5, <1>6, <1>7 DEF FilesOK, TasksOK, Talks, Asked, Open
  <2> QED  BY <2>1, <2>2, <2>3, <2>4, <2>5, <2>6, <2>7 DEF TasksOK
<1>10. RowsOK'
  <2>1. (\A i \in Ids : receipt[i] \in disk \cup torn \cup {Nil})'
    BY <1>1, <1>2, <1>5 DEF FilesOK, TasksOK, RowsOK, FetchedOK, CleaningOK, QuestionsOK, Talks, Asked,
         Open
  <2>2. (\A i, j \in Ids : receipt[i] = receipt[j] /\ i # j => receipt[i] = Nil)'
    BY <1>1, <1>2, <1>5 DEF FilesOK, TasksOK, RowsOK, FetchedOK, CleaningOK, QuestionsOK, Talks, Asked,
         Open
  <2>3. (\A i \in Ids : i \notin taken => receipt[i] = Nil)'
    BY <1>1, <1>2, <1>5 DEF FilesOK, TasksOK, RowsOK, FetchedOK, CleaningOK, QuestionsOK, Talks, Asked,
         Open
  <2> QED  BY <2>1, <2>2, <2>3 DEF RowsOK
<1>11. QuestionsOK'
  <2>1. (\A s \in Screens : Open(s) => draft[s].file \in disk \cup torn)'
    BY <1>1, <1>2, <1>5 DEF FilesOK, TasksOK, QuestionsOK, FetchedOK, CleaningOK, TalkOK, Talks, Asked,
         Open
  <2>2. (\A s \in Screens, i \in Ids : Open(s) => receipt[i] # draft[s].file)'
    BY <1>1, <1>2, <1>5 DEF FilesOK, TasksOK, QuestionsOK, FetchedOK, CleaningOK, TalkOK, Talks, Asked,
         Open
  <2> QED  BY <2>1, <2>2 DEF QuestionsOK
<1>12. FetchedOK'
  <2>1. (\A w \in Hands : task[w].pc = "fetched" => task[w].file \in disk)'
    BY <1>1, <1>2, <1>3, <1>5 DEF FilesOK, TasksOK, RowsOK, FetchedOK, Talks, Asked, Open
  <2>2. (\A w \in Hands, i \in Ids : task[w].pc = "fetched" => receipt[i] # task[w].file)'
    BY <1>1, <1>2, <1>3, <1>5 DEF FilesOK, TasksOK, RowsOK, FetchedOK, Talks, Asked, Open
  <2>3. (\A w \in Hands, s \in Screens : task[w].pc = "fetched" /\ Asked(s) =>
         draft[s].file # task[w].file)'
    BY <1>1, <1>2, <1>3, <1>5 DEF FilesOK, TasksOK, RowsOK, FetchedOK, Talks, Asked, Open
  <2>4. (\A v, w \in Hands : task[w].pc = "fetched" /\ v # w => task[v].file # task[w].file)'
    BY <1>1, <1>2, <1>3, <1>5 DEF FilesOK, TasksOK, RowsOK, FetchedOK, Talks, Asked, Open
  <2> QED  BY <2>1, <2>2, <2>3, <2>4 DEF FetchedOK
<1>13. CleaningOK'
  <2>1. (\A w \in Hands, i \in Ids : task[w].pc = "clean" => receipt[i] # task[w].file)'
    BY <1>1, <1>2, <1>3, <1>5 DEF FilesOK, TasksOK, RowsOK, QuestionsOK, FetchedOK, CleaningOK, TalkOK,
         Talks, Asked, Open
  <2>2. (\A w \in Hands, s \in Screens : task[w].pc = "clean" /\ Open(s) =>
         draft[s].file # task[w].file)'
    BY <1>1, <1>2, <1>3, <1>5 DEF FilesOK, TasksOK, RowsOK, QuestionsOK, FetchedOK, CleaningOK, TalkOK,
         Talks, Asked, Open
  <2> QED  BY <2>1, <2>2 DEF CleaningOK
<1>14. TalkOK'
  <2>1. (\A r, s \in Screens : Asked(r) /\ Asked(s) /\ r # s => draft[r].file # draft[s].file)'
    BY <1>1, <1>2, <1>5 DEF FilesOK, TasksOK, TalkOK, FetchedOK, Mine, Same, Talks, Asked, Open
  <2>2. (\A w \in Hands, s \in Screens : Talks(w) /\ Asked(s) =>
         (draft[s].file = task[w].file <=> s = Screen[task[w].msg]))'
    BY <1>1, <1>2, <1>3, <1>5, <1>6, <1>7 DEF FilesOK, TasksOK, TalkOK, FetchedOK, Mine, Same, Talks,
         Asked, Open
  <2>3. (\A v, w \in Hands : Talks(v) /\ Talks(w) =>
         (task[v].file = task[w].file <=> Screen[task[v].msg] = Screen[task[w].msg]))'
    BY <1>1, <1>2, <1>3, <1>5, <1>6, <1>7 DEF FilesOK, TasksOK, TalkOK, FetchedOK, Mine, Same, Talks,
         Asked, Open
  <2>4. (\A s \in Screens : Asked(s) => msg[s].status = "answered")'
    BY <1>1, <1>2, <1>5, <1>6, <1>7 DEF FilesOK, TasksOK, TalkOK, FetchedOK, Mine, Same, Talks, Asked,
         Open
  <2>5. (\A w \in Hands : Talks(w) => msg[Screen[task[w].msg]].status = "answered")'
    BY <1>1, <1>2, <1>3, <1>5, <1>6, <1>7 DEF FilesOK, TasksOK, TalkOK, FetchedOK, Mine, Same, Talks,
         Asked, Open
  <2> QED  BY <2>1, <2>2, <2>3, <2>4, <2>5 DEF TalkOK
<1>15. AimsOK'
  <2>1. (\A m \in Messages : msg[m].row # Nil =>
         msg[m].row \in taken /\ msg[m].births \subseteq carries[msg[m].row])'
    BY <1>1, <1>2, <1>5, <1>6, <1>7 DEF FilesOK, TasksOK, RowsOK, AimsOK, SentOK, FetchedOK, Same,
         Talks, Asked, Open
  <2>2. (\A i \in Ids : receipt[i] # Nil => sentFor[receipt[i]] \subseteq carries[i])'
    BY <1>1, <1>2, <1>5 DEF FilesOK, TasksOK, RowsOK, AimsOK, SentOK, FetchedOK, Same, Talks, Asked,
         Open
  <2> QED  BY <2>1, <2>2 DEF AimsOK
<1>16. SentOK'
  <2>1. (\A s \in Screens : Asked(s) => sentFor[draft[s].file] = {})'
    BY <1>1, <1>2, <1>5 DEF FilesOK, TasksOK, SentOK, FetchedOK, Same, Talks, Asked, Open
  <2>2. (\A w \in Hands : Talks(w) => sentFor[task[w].file] = {})'
    BY <1>1, <1>2, <1>3, <1>5 DEF FilesOK, TasksOK, SentOK, FetchedOK, Same, Talks, Asked, Open
  <2>3. (\A w \in Hands : task[w].pc = "fetched" /\ Sort[task[w].msg] = "receipt" =>
         sentFor[task[w].file] = msg[task[w].msg].births)'
    BY <1>1, <1>2, <1>3, <1>5, <1>6, <1>7 DEF FilesOK, TasksOK, SentOK, FetchedOK, Same, Talks, Asked,
         Open
  <2>4. (\A w \in Hands : task[w].pc = "fetched" /\ Sort[task[w].msg] = "screenshot" =>
         sentFor[task[w].file] = {})'
    <3>1. \A w \in Hands : task[w].pc = "fetched"
            /\ Sort[task[w].msg] = "screenshot" => sentFor[task[w].file] = {}
      BY DEF SentOK
    <3> SUFFICES ASSUME NEW w \in Hands, task'[w].pc = "fetched", Sort[task'[w].msg] = "screenshot"
                 PROVE  sentFor'[task'[w].file] = {}
      BY DEF Asked, Talks
    <3> QED  BY <3>1, <1>1, <1>2, <1>3, <1>5, <1>6, <1>7 DEF Asked, Open, Talks
  <2>5. (\A f \in 1..MaxFiles : f > files => sentFor[f] = {})'
    BY <1>1, <1>2, <1>5 DEF FilesOK, TasksOK, SentOK, FetchedOK, Same, Talks, Asked, Open
  <2>6. (\A w \in Hands : task[w].pc = "fetched" => msg[task[w].msg].status # "absent")'
    BY <1>1, <1>2, <1>3, <1>5, <1>6, <1>7 DEF FilesOK, TasksOK, SentOK, FetchedOK, Same, Talks, Asked,
         Open
  <2>7. (\A w \in Hands : task[w].pc = "begin" => msg[task[w].msg].status # "absent")'
    BY <1>1, <1>2, <1>3, <1>5, <1>6, <1>7 DEF FilesOK, TasksOK, SentOK, FetchedOK, Same, Talks, Asked,
         Open
  <2> QED  BY <2>1, <2>2, <2>3, <2>4, <2>5, <2>6, <2>7 DEF SentOK
<1> QED  BY <1>8, <1>9, <1>10, <1>11, <1>12, <1>13, <1>14, <1>15, <1>16 DEF ReceiptsInv

(* A worker takes a turn with its row. *)
LEMMA ClaimKeeps ==
  ASSUME ReceiptsInv, NEW h \in Hands, NEW t \in Messages, Claim(h, t)
  PROVE  ReceiptsInv'
<1> USE DEF ReceiptsInv
<1>1. Nil \notin 1..files /\ Screens \subseteq Messages /\ (\A m \in Messages : Screen[m] \in Messages)
  BY ReceiptsAssumption DEF FilesOK, Screens
<1>2. UNCHANGED <<disk, files, sentFor, taken, says, isVoid, receipt, births, carries, draft, torn>>
  BY DEF Claim, disks, rows, At, Free, FilesOK, TasksOK
<1>3. (\A v \in Hands : v # h => task'[v] = task[v]) /\ task'[h].pc = "begin" /\ task'[h].msg = t
        /\ task'[h].file = Nil
  BY DEF Claim, disks, rows, At, Free, FilesOK, TasksOK
<1>4. task' = [v \in Hands |-> task'[v]]
  BY DEF Claim, disks, rows, At, Free, FilesOK, TasksOK
<1>5. task[h].pc = "idle" /\ msg[t] \in Turn
  BY DEF Claim, disks, rows, At, Free, FilesOK, TasksOK
<1>6. [msg[t] EXCEPT !.status = "processing", !.by = h] \in Turn
  BY <1>5 DEF Turn
<1>7. msg' = [msg EXCEPT ![t] = [msg[t] EXCEPT !.status = "processing", !.by = h]]
  BY DEF Claim
<1>8. msg' \in [Messages -> Turn] /\ (\A m \in Messages : Same(m)) /\ msg'[t].status = "processing"
  BY <1>5, <1>6, <1>7 DEF FilesOK, Same, Turn, Claim
<1>9. FilesOK'
  <2>1. (files \in 0..MaxFiles /\ births \in 0..MaxBirths)'
    BY <1>1, <1>2, <1>5, <1>6 DEF FilesOK
  <2>2. (disk \subseteq 1..files /\ torn \subseteq 1..files)'
    BY <1>1, <1>2, <1>5, <1>6 DEF FilesOK
  <2>3. (receipt \in [Ids -> 1..files \cup {Nil}])'
    BY <1>1, <1>2, <1>5, <1>6 DEF FilesOK, TasksOK
  <2>4. (isVoid \in [Ids -> BOOLEAN])'
    BY <1>1, <1>2, <1>5, <1>6 DEF FilesOK
  <2>5. (carries \in [Ids -> SUBSET (1..MaxBirths)])'
    BY <1>1, <1>2, <1>5, <1>6 DEF FilesOK
  <2>6. (sentFor \in [1..MaxFiles -> SUBSET (1..MaxBirths)])'
    BY <1>1, <1>2, <1>5, <1>6 DEF FilesOK
  <2>7. (msg \in [Messages -> Turn])'
    BY <1>1, <1>2, <1>5, <1>6, <1>7, <1>8 DEF FilesOK
  <2>8. (taken \subseteq Ids)'
    BY <1>1, <1>2, <1>5, <1>6 DEF FilesOK
  <2>9. (draft = [s \in Screens |-> draft[s]])'
    BY <1>1, <1>2, <1>5, <1>6 DEF FilesOK, Screens
  <2>10. (task = [w \in Hands |-> task[w]])'
    BY <1>1, <1>2, <1>3, <1>4, <1>5, <1>6 DEF FilesOK
  <2> QED  BY <2>1, <2>2, <2>3, <2>4, <2>5, <2>6, <2>7, <2>8, <2>9, <2>10 DEF FilesOK
<1>10. TasksOK'
  <2>1. (\A s \in Screens : draft[s].file \in 1..files \cup {Nil} /\ draft[s].kind \in BOOLEAN)'
    BY <1>1, <1>2, <1>5, <1>6 DEF FilesOK, TasksOK, Talks, Asked, Open
  <2>2. (\A s \in Screens : draft[s].kind => Asked(s))'
    BY <1>1, <1>2, <1>5, <1>6 DEF FilesOK, TasksOK, Talks, Asked, Open
  <2>3. (\A w \in Hands : task[w].file \in 1..files \cup {Nil})'
    BY <1>1, <1>2, <1>3, <1>5, <1>6 DEF FilesOK, TasksOK, Talks, Asked, Open
  <2>4. (\A w \in Hands : task[w].pc \in {"begin", "fetched", "heard", "reviewed"} =>
         task[w].msg \in Messages)'
    BY <1>1, <1>2, <1>3, <1>5, <1>6, <1>7, <1>8 DEF FilesOK, TasksOK, Talks, Asked, Open
  <2>5. (\A w \in Hands : task[w].pc \in {"clean", "fetched", "heard", "reviewed"} =>
         task[w].file # Nil)'
    BY <1>1, <1>2, <1>3, <1>5, <1>6 DEF FilesOK, TasksOK, Talks, Asked, Open
  <2>6. (\A w \in Hands : Talks(w) => Sort[task[w].msg] = "reply")'
    BY <1>1, <1>2, <1>3, <1>5, <1>6, <1>7, <1>8 DEF FilesOK, TasksOK, Talks, Asked, Open
  <2>7. (\A w \in Hands : task[w].pc = "fetched" => Sort[task[w].msg] \in {"receipt", "screenshot"})'
    BY <1>1, <1>2, <1>3, <1>5, <1>6, <1>7, <1>8 DEF FilesOK, TasksOK, Talks, Asked, Open
  <2> QED  BY <2>1, <2>2, <2>3, <2>4, <2>5, <2>6, <2>7 DEF TasksOK
<1>11. RowsOK'
  <2>1. (\A i \in Ids : receipt[i] \in disk \cup torn \cup {Nil})'
    BY <1>1, <1>2, <1>5, <1>6 DEF FilesOK, TasksOK, RowsOK, FetchedOK, CleaningOK, QuestionsOK, Talks,
         Asked, Open
  <2>2. (\A i, j \in Ids : receipt[i] = receipt[j] /\ i # j => receipt[i] = Nil)'
    BY <1>1, <1>2, <1>5, <1>6 DEF FilesOK, TasksOK, RowsOK, FetchedOK, CleaningOK, QuestionsOK, Talks,
         Asked, Open
  <2>3. (\A i \in Ids : i \notin taken => receipt[i] = Nil)'
    BY <1>1, <1>2, <1>5, <1>6 DEF FilesOK, TasksOK, RowsOK, FetchedOK, CleaningOK, QuestionsOK, Talks,
         Asked, Open
  <2> QED  BY <2>1, <2>2, <2>3 DEF RowsOK
<1>12. QuestionsOK'
  <2>1. (\A s \in Screens : Open(s) => draft[s].file \in disk \cup torn)'
    BY <1>1, <1>2, <1>5, <1>6 DEF FilesOK, TasksOK, QuestionsOK, FetchedOK, CleaningOK, TalkOK, Talks,
         Asked, Open
  <2>2. (\A s \in Screens, i \in Ids : Open(s) => receipt[i] # draft[s].file)'
    BY <1>1, <1>2, <1>5, <1>6 DEF FilesOK, TasksOK, QuestionsOK, FetchedOK, CleaningOK, TalkOK, Talks,
         Asked, Open
  <2> QED  BY <2>1, <2>2 DEF QuestionsOK
<1>13. FetchedOK'
  <2>1. (\A w \in Hands : task[w].pc = "fetched" => task[w].file \in disk)'
    BY <1>1, <1>2, <1>3, <1>5, <1>6 DEF FilesOK, TasksOK, RowsOK, FetchedOK, Talks, Asked, Open
  <2>2. (\A w \in Hands, i \in Ids : task[w].pc = "fetched" => receipt[i] # task[w].file)'
    BY <1>1, <1>2, <1>3, <1>5, <1>6 DEF FilesOK, TasksOK, RowsOK, FetchedOK, Talks, Asked, Open
  <2>3. (\A w \in Hands, s \in Screens : task[w].pc = "fetched" /\ Asked(s) =>
         draft[s].file # task[w].file)'
    BY <1>1, <1>2, <1>3, <1>5, <1>6 DEF FilesOK, TasksOK, RowsOK, FetchedOK, Talks, Asked, Open
  <2>4. (\A v, w \in Hands : task[w].pc = "fetched" /\ v # w => task[v].file # task[w].file)'
    BY <1>1, <1>2, <1>3, <1>5, <1>6 DEF FilesOK, TasksOK, RowsOK, FetchedOK, Talks, Asked, Open
  <2> QED  BY <2>1, <2>2, <2>3, <2>4 DEF FetchedOK
<1>14. CleaningOK'
  <2>1. (\A w \in Hands, i \in Ids : task[w].pc = "clean" => receipt[i] # task[w].file)'
    BY <1>1, <1>2, <1>3, <1>5, <1>6 DEF FilesOK, TasksOK, RowsOK, QuestionsOK, FetchedOK, CleaningOK,
         TalkOK, Talks, Asked, Open
  <2>2. (\A w \in Hands, s \in Screens : task[w].pc = "clean" /\ Open(s) =>
         draft[s].file # task[w].file)'
    BY <1>1, <1>2, <1>3, <1>5, <1>6 DEF FilesOK, TasksOK, RowsOK, QuestionsOK, FetchedOK, CleaningOK,
         TalkOK, Talks, Asked, Open
  <2> QED  BY <2>1, <2>2 DEF CleaningOK
<1>15. TalkOK'
  <2>1. (\A r, s \in Screens : Asked(r) /\ Asked(s) /\ r # s => draft[r].file # draft[s].file)'
    BY <1>1, <1>2, <1>5, <1>6 DEF FilesOK, TasksOK, TalkOK, FetchedOK, Mine, Same, Talks, Asked, Open
  <2>2. (\A w \in Hands, s \in Screens : Talks(w) /\ Asked(s) =>
         (draft[s].file = task[w].file <=> s = Screen[task[w].msg]))'
    BY <1>1, <1>2, <1>3, <1>5, <1>6, <1>7, <1>8 DEF FilesOK, TasksOK, TalkOK, FetchedOK, Mine, Same,
         Talks, Asked, Open
  <2>3. (\A v, w \in Hands : Talks(v) /\ Talks(w) =>
         (task[v].file = task[w].file <=> Screen[task[v].msg] = Screen[task[w].msg]))'
    BY <1>1, <1>2, <1>3, <1>5, <1>6, <1>7, <1>8 DEF FilesOK, TasksOK, TalkOK, FetchedOK, Mine, Same,
         Talks, Asked, Open
  <2>4. (\A s \in Screens : Asked(s) => msg[s].status = "answered")'
    BY <1>1, <1>2, <1>5, <1>6, <1>7, <1>8 DEF FilesOK, TasksOK, TalkOK, FetchedOK, Mine, Same, Talks,
         Asked, Open
  <2>5. (\A w \in Hands : Talks(w) => msg[Screen[task[w].msg]].status = "answered")'
    BY <1>1, <1>2, <1>3, <1>5, <1>6, <1>7, <1>8 DEF FilesOK, TasksOK, TalkOK, FetchedOK, Mine, Same,
         Talks, Asked, Open
  <2> QED  BY <2>1, <2>2, <2>3, <2>4, <2>5 DEF TalkOK
<1>16. AimsOK'
  <2>1. (\A m \in Messages : msg[m].row # Nil =>
         msg[m].row \in taken /\ msg[m].births \subseteq carries[msg[m].row])'
    BY <1>1, <1>2, <1>5, <1>6, <1>7, <1>8 DEF FilesOK, TasksOK, RowsOK, AimsOK, SentOK, FetchedOK,
         Same, Talks, Asked, Open
  <2>2. (\A i \in Ids : receipt[i] # Nil => sentFor[receipt[i]] \subseteq carries[i])'
    BY <1>1, <1>2, <1>5, <1>6 DEF FilesOK, TasksOK, RowsOK, AimsOK, SentOK, FetchedOK, Same, Talks,
         Asked, Open
  <2> QED  BY <2>1, <2>2 DEF AimsOK
<1>17. SentOK'
  <2>1. (\A s \in Screens : Asked(s) => sentFor[draft[s].file] = {})'
    BY <1>1, <1>2, <1>5, <1>6 DEF FilesOK, TasksOK, SentOK, FetchedOK, Same, Talks, Asked, Open
  <2>2. (\A w \in Hands : Talks(w) => sentFor[task[w].file] = {})'
    BY <1>1, <1>2, <1>3, <1>5, <1>6 DEF FilesOK, TasksOK, SentOK, FetchedOK, Same, Talks, Asked, Open
  <2>3. (\A w \in Hands : task[w].pc = "fetched" /\ Sort[task[w].msg] = "receipt" =>
         sentFor[task[w].file] = msg[task[w].msg].births)'
    BY <1>1, <1>2, <1>3, <1>5, <1>6, <1>7, <1>8 DEF FilesOK, TasksOK, SentOK, FetchedOK, Same, Talks,
         Asked, Open
  <2>4. (\A w \in Hands : task[w].pc = "fetched" /\ Sort[task[w].msg] = "screenshot" =>
         sentFor[task[w].file] = {})'
    <3>1. \A w \in Hands : task[w].pc = "fetched"
            /\ Sort[task[w].msg] = "screenshot" => sentFor[task[w].file] = {}
      BY DEF SentOK
    <3> SUFFICES ASSUME NEW w \in Hands, task'[w].pc = "fetched", Sort[task'[w].msg] = "screenshot"
                 PROVE  sentFor'[task'[w].file] = {}
      BY DEF Asked, Talks
    <3> QED  BY <3>1, <1>1, <1>2, <1>3, <1>5, <1>6, <1>7, <1>8 DEF Asked, Open, Talks
  <2>5. (\A f \in 1..MaxFiles : f > files => sentFor[f] = {})'
    BY <1>1, <1>2, <1>5, <1>6 DEF FilesOK, TasksOK, SentOK, FetchedOK, Same, Talks, Asked, Open
  <2>6. (\A w \in Hands : task[w].pc = "fetched" => msg[task[w].msg].status # "absent")'
    BY <1>1, <1>2, <1>3, <1>5, <1>6, <1>7, <1>8 DEF FilesOK, TasksOK, SentOK, FetchedOK, Same, Talks,
         Asked, Open
  <2>7. (\A w \in Hands : task[w].pc = "begin" => msg[task[w].msg].status # "absent")'
    BY <1>1, <1>2, <1>3, <1>5, <1>6, <1>7, <1>8 DEF FilesOK, TasksOK, SentOK, FetchedOK, Same, Talks,
         Asked, Open
  <2> QED  BY <2>1, <2>2, <2>3, <2>4, <2>5, <2>6, <2>7 DEF SentOK
<1> QED  BY <1>9, <1>10, <1>11, <1>12, <1>13, <1>14, <1>15, <1>16, <1>17 DEF ReceiptsInv

(* A downloaded file is new to everyone. *)
LEMMA FetchKeeps ==
  ASSUME ReceiptsInv, NEW h \in Hands, Fetch(h)
  PROVE  ReceiptsInv'
<1> USE DEF ReceiptsInv
<1>1. Nil \notin 1..files /\ Screens \subseteq Messages /\ (\A m \in Messages : Screen[m] \in Messages)
  BY ReceiptsAssumption DEF FilesOK, Screens
<1>2. UNCHANGED <<taken, says, isVoid, receipt, births, carries, msg, draft, torn>>
  BY DEF Fetch, disks, rows, At, Free, FilesOK, TasksOK
<1>3. (\A v \in Hands : v # h => task'[v] = task[v]) /\ task'[h].pc = "fetched"
        /\ task'[h].msg = task[h].msg /\ task'[h].file = files'
  BY DEF Fetch, disks, rows, At, Free, FilesOK, TasksOK
<1>4. task' = [v \in Hands |-> task'[v]]
  BY DEF Fetch, disks, rows, At, Free, FilesOK, TasksOK
<1>5. files' = files + 1 /\ files' \in 1..MaxFiles /\ disk' = disk \cup {files'} /\ task[h].pc = "begin"
  BY ReceiptsAssumption DEF Fetch, FilesOK
<1>6. task[h].msg \in Messages /\ Sort[task[h].msg] \in {"receipt", "screenshot"}
        /\ msg[task[h].msg].births \in SUBSET (1..MaxBirths)
  BY DEF Fetch, Turn, disks, rows, At, Free, FilesOK, TasksOK
<1>7. sentFor[files'] = {}
  BY <1>5 DEF SentOK, FilesOK
<1>8. Sort[task[h].msg] = "receipt" => sentFor' = [sentFor EXCEPT ![files'] = msg[task[h].msg].births]
  BY DEF Fetch
<1>9. Sort[task[h].msg] = "screenshot" => sentFor' = sentFor
  BY DEF Fetch
<1>10. /\ sentFor' \in [1..MaxFiles -> SUBSET (1..MaxBirths)]
       /\ (\A f \in 1..MaxFiles : f # files' => sentFor'[f] = sentFor[f])
       /\ (Sort[task[h].msg] = "receipt" => sentFor'[files'] = msg[task[h].msg].births)
       /\ (Sort[task[h].msg] = "screenshot" => sentFor'[files'] = {})
  BY <1>5, <1>6, <1>7, <1>8, <1>9 DEF FilesOK
<1>11. (\A f \in 1..files : f # files' /\ f \in 1..MaxFiles) /\ files' # Nil /\ sentFor[files'] = {}
  BY <1>5, <1>7, ReceiptsAssumption DEF FilesOK
<1>12. FilesOK'
  <2>1. (files \in 0..MaxFiles /\ births \in 0..MaxBirths)'
    BY <1>1, <1>2, <1>3, <1>5, <1>6, <1>7, <1>8, <1>10, <1>11 DEF FilesOK
  <2>2. (disk \subseteq 1..files /\ torn \subseteq 1..files)'
    BY <1>1, <1>2, <1>3, <1>5, <1>6, <1>7, <1>8, <1>10, <1>11 DEF FilesOK
  <2>3. (receipt \in [Ids -> 1..files \cup {Nil}])'
    BY <1>1, <1>2, <1>3, <1>5, <1>6, <1>7, <1>8, <1>10, <1>11 DEF FilesOK, TasksOK
  <2>4. (isVoid \in [Ids -> BOOLEAN])'
    BY <1>1, <1>2, <1>6 DEF FilesOK
  <2>5. (carries \in [Ids -> SUBSET (1..MaxBirths)])'
    BY <1>1, <1>2, <1>6 DEF FilesOK
  <2>6. (sentFor \in [1..MaxFiles -> SUBSET (1..MaxBirths)])'
    BY <1>1, <1>2, <1>6, <1>8, <1>9, <1>10 DEF FilesOK
  <2>7. (msg \in [Messages -> Turn])'
    BY <1>1, <1>2, <1>6 DEF FilesOK
  <2>8. (taken \subseteq Ids)'
    BY <1>1, <1>2, <1>6 DEF FilesOK
  <2>9. (draft = [s \in Screens |-> draft[s]])'
    BY <1>1, <1>2, <1>6 DEF FilesOK, Screens
  <2>10. (task = [w \in Hands |-> task[w]])'
    BY <1>1, <1>2, <1>3, <1>4, <1>6 DEF FilesOK
  <2> QED  BY <2>1, <2>2, <2>3, <2>4, <2>5, <2>6, <2>7, <2>8, <2>9, <2>10 DEF FilesOK
<1>13. TasksOK'
  <2>1. (\A s \in Screens : draft[s].file \in 1..files \cup {Nil} /\ draft[s].kind \in BOOLEAN)'
    BY <1>1, <1>2, <1>3, <1>5, <1>6, <1>7, <1>8, <1>10, <1>11 DEF FilesOK, TasksOK, Talks, Asked, Open
  <2>2. (\A s \in Screens : draft[s].kind => Asked(s))'
    BY <1>1, <1>2, <1>6 DEF FilesOK, TasksOK, Talks, Asked, Open
  <2>3. (\A w \in Hands : task[w].file \in 1..files \cup {Nil})'
    BY <1>1, <1>2, <1>3, <1>5, <1>6, <1>7, <1>8, <1>10, <1>11 DEF FilesOK, TasksOK, Talks, Asked, Open
  <2>4. (\A w \in Hands : task[w].pc \in {"begin", "fetched", "heard", "reviewed"} =>
         task[w].msg \in Messages)'
    BY <1>1, <1>2, <1>3, <1>6 DEF FilesOK, TasksOK, Talks, Asked, Open
  <2>5. (\A w \in Hands : task[w].pc \in {"clean", "fetched", "heard", "reviewed"} =>
         task[w].file # Nil)'
    BY <1>1, <1>2, <1>3, <1>5, <1>6, <1>7, <1>8, <1>9, <1>10, <1>11 DEF FilesOK, TasksOK, Talks, Asked,
         Open
  <2>6. (\A w \in Hands : Talks(w) => Sort[task[w].msg] = "reply")'
    BY <1>1, <1>2, <1>3, <1>6 DEF FilesOK, TasksOK, Talks, Asked, Open
  <2>7. (\A w \in Hands : task[w].pc = "fetched" => Sort[task[w].msg] \in {"receipt", "screenshot"})'
    BY <1>1, <1>2, <1>3, <1>6 DEF FilesOK, TasksOK, Talks, Asked, Open
  <2> QED  BY <2>1, <2>2, <2>3, <2>4, <2>5, <2>6, <2>7 DEF TasksOK
<1>14. RowsOK'
  <2>1. (\A i \in Ids : receipt[i] \in disk \cup torn \cup {Nil})'
    BY <1>1, <1>2, <1>5, <1>6 DEF FilesOK, TasksOK, RowsOK, FetchedOK, CleaningOK, QuestionsOK, Talks,
         Asked, Open
  <2>2. (\A i, j \in Ids : receipt[i] = receipt[j] /\ i # j => receipt[i] = Nil)'
    BY <1>1, <1>2, <1>6 DEF FilesOK, TasksOK, RowsOK, FetchedOK, CleaningOK, QuestionsOK, Talks, Asked,
         Open
  <2>3. (\A i \in Ids : i \notin taken => receipt[i] = Nil)'
    BY <1>1, <1>2, <1>6 DEF FilesOK, TasksOK, RowsOK, FetchedOK, CleaningOK, QuestionsOK, Talks, Asked,
         Open
  <2> QED  BY <2>1, <2>2, <2>3 DEF RowsOK
<1>15. QuestionsOK'
  <2>1. (\A s \in Screens : Open(s) => draft[s].file \in disk \cup torn)'
    BY <1>1, <1>2, <1>5, <1>6 DEF FilesOK, TasksOK, QuestionsOK, FetchedOK, CleaningOK, TalkOK, Talks,
         Asked, Open
  <2>2. (\A s \in Screens, i \in Ids : Open(s) => receipt[i] # draft[s].file)'
    BY <1>1, <1>2, <1>6 DEF FilesOK, TasksOK, QuestionsOK, FetchedOK, CleaningOK, TalkOK, Talks, Asked,
         Open
  <2> QED  BY <2>1, <2>2 DEF QuestionsOK
<1>16. FetchedOK'
  <2>1. (\A w \in Hands : task[w].pc = "fetched" => task[w].file \in disk)'
    BY <1>1, <1>2, <1>3, <1>5, <1>6 DEF FilesOK, TasksOK, RowsOK, FetchedOK, Talks, Asked, Open
  <2>2. (\A w \in Hands, i \in Ids : task[w].pc = "fetched" => receipt[i] # task[w].file)'
    BY <1>1, <1>2, <1>3, <1>5, <1>6, <1>7, <1>8, <1>9, <1>10, <1>11 DEF FilesOK, TasksOK, RowsOK,
         FetchedOK, Talks, Asked, Open
  <2>3. (\A w \in Hands, s \in Screens : task[w].pc = "fetched" /\ Asked(s) =>
         draft[s].file # task[w].file)'
    BY <1>1, <1>2, <1>3, <1>5, <1>6, <1>7, <1>8, <1>9, <1>10, <1>11 DEF FilesOK, TasksOK, RowsOK,
         FetchedOK, Talks, Asked, Open
  <2>4. (\A v, w \in Hands : task[w].pc = "fetched" /\ v # w => task[v].file # task[w].file)'
    BY <1>1, <1>2, <1>3, <1>5, <1>6, <1>7, <1>8, <1>9, <1>10, <1>11 DEF FilesOK, TasksOK, RowsOK,
         FetchedOK, Talks, Asked, Open
  <2> QED  BY <2>1, <2>2, <2>3, <2>4 DEF FetchedOK
<1>17. CleaningOK'
  <2>1. (\A w \in Hands, i \in Ids : task[w].pc = "clean" => receipt[i] # task[w].file)'
    BY <1>1, <1>2, <1>3, <1>6 DEF FilesOK, TasksOK, RowsOK, QuestionsOK, FetchedOK, CleaningOK, TalkOK,
         Talks, Asked, Open
  <2>2. (\A w \in Hands, s \in Screens : task[w].pc = "clean" /\ Open(s) =>
         draft[s].file # task[w].file)'
    BY <1>1, <1>2, <1>3, <1>6 DEF FilesOK, TasksOK, RowsOK, QuestionsOK, FetchedOK, CleaningOK, TalkOK,
         Talks, Asked, Open
  <2> QED  BY <2>1, <2>2 DEF CleaningOK
<1>18. TalkOK'
  <2>1. (\A r, s \in Screens : Asked(r) /\ Asked(s) /\ r # s => draft[r].file # draft[s].file)'
    BY <1>1, <1>2, <1>6 DEF FilesOK, TasksOK, TalkOK, FetchedOK, Mine, Same, Talks, Asked, Open
  <2>2. (\A w \in Hands, s \in Screens : Talks(w) /\ Asked(s) =>
         (draft[s].file = task[w].file <=> s = Screen[task[w].msg]))'
    BY <1>1, <1>2, <1>3, <1>6 DEF FilesOK, TasksOK, TalkOK, FetchedOK, Mine, Same, Talks, Asked, Open
  <2>3. (\A v, w \in Hands : Talks(v) /\ Talks(w) =>
         (task[v].file = task[w].file <=> Screen[task[v].msg] = Screen[task[w].msg]))'
    BY <1>1, <1>2, <1>3, <1>6 DEF FilesOK, TasksOK, TalkOK, FetchedOK, Mine, Same, Talks, Asked, Open
  <2>4. (\A s \in Screens : Asked(s) => msg[s].status = "answered")'
    BY <1>1, <1>2, <1>6 DEF FilesOK, TasksOK, TalkOK, FetchedOK, Mine, Same, Talks, Asked, Open
  <2>5. (\A w \in Hands : Talks(w) => msg[Screen[task[w].msg]].status = "answered")'
    BY <1>1, <1>2, <1>3, <1>6 DEF FilesOK, TasksOK, TalkOK, FetchedOK, Mine, Same, Talks, Asked, Open
  <2> QED  BY <2>1, <2>2, <2>3, <2>4, <2>5 DEF TalkOK
<1>19. AimsOK'
  <2>1. (\A m \in Messages : msg[m].row # Nil =>
         msg[m].row \in taken /\ msg[m].births \subseteq carries[msg[m].row])'
    BY <1>1, <1>2, <1>6 DEF FilesOK, TasksOK, RowsOK, AimsOK, SentOK, FetchedOK, Same, Talks, Asked,
         Open
  <2>2. (\A i \in Ids : receipt[i] # Nil => sentFor[receipt[i]] \subseteq carries[i])'
    BY <1>1, <1>2, <1>3, <1>5, <1>6, <1>7, <1>8, <1>9, <1>10, <1>11 DEF FilesOK, TasksOK, RowsOK,
         AimsOK, SentOK, FetchedOK, Same, Talks, Asked, Open
  <2> QED  BY <2>1, <2>2 DEF AimsOK
<1>20. SentOK'
  <2>1. (\A s \in Screens : Asked(s) => sentFor[draft[s].file] = {})'
    BY <1>1, <1>2, <1>3, <1>5, <1>6, <1>7, <1>8, <1>9, <1>10, <1>11 DEF FilesOK, TasksOK, SentOK,
         FetchedOK, Same, Talks, Asked, Open
  <2>2. (\A w \in Hands : Talks(w) => sentFor[task[w].file] = {})'
    BY <1>1, <1>2, <1>3, <1>5, <1>6, <1>7, <1>8, <1>9, <1>10, <1>11 DEF FilesOK, TasksOK, SentOK,
         FetchedOK, Same, Talks, Asked, Open
  <2>3. (\A w \in Hands : task[w].pc = "fetched" /\ Sort[task[w].msg] = "receipt" =>
         sentFor[task[w].file] = msg[task[w].msg].births)'
    BY <1>1, <1>2, <1>3, <1>5, <1>6, <1>7, <1>8, <1>9, <1>10, <1>11 DEF FilesOK, TasksOK, SentOK,
         FetchedOK, Same, Talks, Asked, Open
  <2>4. (\A w \in Hands : task[w].pc = "fetched" /\ Sort[task[w].msg] = "screenshot" =>
         sentFor[task[w].file] = {})'
    BY <1>1, <1>2, <1>3, <1>5, <1>6, <1>7, <1>8, <1>9, <1>10, <1>11 DEF FilesOK, TasksOK, SentOK,
         Talks, Asked, Open
  <2>5. (\A f \in 1..MaxFiles : f > files => sentFor[f] = {})'
    BY <1>1, <1>2, <1>3, <1>5, <1>6, <1>7, <1>8, <1>9, <1>10, <1>11 DEF FilesOK, TasksOK, SentOK,
         FetchedOK, Same, Talks, Asked, Open
  <2>6. (\A w \in Hands : task[w].pc = "fetched" => msg[task[w].msg].status # "absent")'
    BY <1>1, <1>2, <1>3, <1>5, <1>6, <1>7, <1>8, <1>9, <1>10, <1>11 DEF FilesOK, TasksOK, SentOK,
         FetchedOK, Same, Talks, Asked, Open
  <2>7. (\A w \in Hands : task[w].pc = "begin" => msg[task[w].msg].status # "absent")'
    BY <1>1, <1>2, <1>3, <1>6 DEF FilesOK, TasksOK, SentOK, FetchedOK, Same, Talks, Asked, Open
  <2> QED  BY <2>1, <2>2, <2>3, <2>4, <2>5, <2>6, <2>7 DEF SentOK
<1> QED  BY <1>12, <1>13, <1>14, <1>15, <1>16, <1>17, <1>18, <1>19, <1>20 DEF ReceiptsInv

(* The file that is removed is torn from the row that got it. *)
LEMMA CutOffKeeps ==
  ASSUME ReceiptsInv, NEW h \in Hands, CutOff(h)
  PROVE  ReceiptsInv'
<1> USE DEF ReceiptsInv
<1>1. Nil \notin 1..files /\ Screens \subseteq Messages /\ (\A m \in Messages : Screen[m] \in Messages)
  BY ReceiptsAssumption DEF FilesOK, Screens
<1>2. UNCHANGED <<files, sentFor, taken, says, isVoid, births, carries, draft>>
  BY DEF CutOff, Attached, Doing, Rests, disks, rows, At, Free, FilesOK, TasksOK
<1>3. (\A v \in Hands : v # h => task'[v] = task[v]) /\ task'[h].pc = "idle" /\ task'[h].file = Nil
  BY DEF CutOff, Attached, Doing, Rests, disks, rows, At, Free, FilesOK, TasksOK
<1>4. task' = [v \in Hands |-> task'[v]]
  BY DEF CutOff, Attached, Doing, Rests, disks, rows, At, Free, FilesOK, TasksOK
<1>5. task[h].pc = "fetched" /\ Sort[task[h].msg] = "receipt" /\ task[h].row \in taken
        /\ task[h].file \in 1..files /\ task[h].msg \in Messages
  BY DEF Attach, CutOff, Attached, Doing, disks, rows, At, Free, FilesOK, TasksOK
<1>6. msg[task[h].msg].row = task[h].row /\ sentFor[task[h].file] = msg[task[h].msg].births
  BY DEF Attach, CutOff, Attached, StillAims, Doing, SentOK, disks, rows, At, Free, FilesOK, TasksOK
<1>7. receipt' = [receipt EXCEPT ![task[h].row] = task[h].file]
  BY DEF Attach, CutOff, Attached, disks, rows, At, Free, FilesOK, TasksOK
<1>8. sentFor[task[h].file] \subseteq carries[task[h].row]
  <2>1. \A m \in Messages : msg[m].row # Nil => msg[m].births \subseteq carries[msg[m].row]
    BY DEF AimsOK
  <2>2. task[h].msg \in Messages /\ msg[task[h].msg].row # Nil
    BY <1>5, <1>6, ReceiptsAssumption DEF FilesOK
  <2> QED  BY <2>1, <2>2, <1>6
<1>9. /\ receipt' \in [Ids -> 1..files \cup {Nil}] /\ receipt'[task[h].row] = task[h].file
      /\ (\A i \in Ids : i # task[h].row => receipt'[i] = receipt[i])
  BY <1>5, <1>7 DEF FilesOK
<1>10. disk' = disk \ {task[h].file} /\ torn' = torn \cup {task[h].file}
  BY DEF CutOff, disks, rows, At, Free, FilesOK, TasksOK
<1>11. task[h].msg \in Messages /\ msg' = TurnAnswered(h)
  BY DEF CutOff, Attached, Doing, Rests, disks, rows, At, Free, FilesOK, TasksOK
<1>12. msg' \in [Messages -> Turn] /\ (\A m \in Messages : Same(m))
         /\ (Mine(h) => msg'[task[h].msg].status = "answered")
  BY <1>11, AnswerKeeps
<1>13. FilesOK'
  <2>1. (files \in 0..MaxFiles /\ births \in 0..MaxBirths)'
    BY <1>1, <1>2, <1>5, <1>6, <1>8 DEF FilesOK
  <2>2. (disk \subseteq 1..files /\ torn \subseteq 1..files)'
    BY <1>1, <1>2, <1>5, <1>6, <1>8, <1>10 DEF FilesOK
  <2>3. (receipt \in [Ids -> 1..files \cup {Nil}])'
    BY <1>1, <1>2, <1>5, <1>6, <1>7, <1>8, <1>9 DEF FilesOK, TasksOK
  <2>4. (isVoid \in [Ids -> BOOLEAN])'
    BY <1>1, <1>2, <1>5, <1>6, <1>8 DEF FilesOK
  <2>5. (carries \in [Ids -> SUBSET (1..MaxBirths)])'
    BY <1>1, <1>2, <1>5, <1>6, <1>8 DEF FilesOK
  <2>6. (sentFor \in [1..MaxFiles -> SUBSET (1..MaxBirths)])'
    BY <1>1, <1>2, <1>5, <1>6, <1>8 DEF FilesOK
  <2>7. (msg \in [Messages -> Turn])'
    BY <1>1, <1>2, <1>5, <1>6, <1>8, <1>11, <1>12 DEF FilesOK
  <2>8. (taken \subseteq Ids)'
    BY <1>1, <1>2, <1>5, <1>6, <1>8 DEF FilesOK
  <2>9. (draft = [s \in Screens |-> draft[s]])'
    BY <1>1, <1>2, <1>5, <1>6, <1>8 DEF FilesOK, Screens
  <2>10. (task = [w \in Hands |-> task[w]])'
    BY <1>1, <1>2, <1>3, <1>4, <1>5, <1>6, <1>8 DEF FilesOK
  <2> QED  BY <2>1, <2>2, <2>3, <2>4, <2>5, <2>6, <2>7, <2>8, <2>9, <2>10 DEF FilesOK
<1>14. TasksOK'
  <2>1. (\A s \in Screens : draft[s].file \in 1..files \cup {Nil} /\ draft[s].kind \in BOOLEAN)'
    BY <1>1, <1>2, <1>5, <1>6, <1>8 DEF FilesOK, TasksOK, Talks, Asked, Open
  <2>2. (\A s \in Screens : draft[s].kind => Asked(s))'
    BY <1>1, <1>2, <1>5, <1>6, <1>8 DEF FilesOK, TasksOK, Talks, Asked, Open
  <2>3. (\A w \in Hands : task[w].file \in 1..files \cup {Nil})'
    BY <1>1, <1>2, <1>3, <1>5, <1>6, <1>8 DEF FilesOK, TasksOK, Talks, Asked, Open
  <2>4. (\A w \in Hands : task[w].pc \in {"begin", "fetched", "heard", "reviewed"} =>
         task[w].msg \in Messages)'
    BY <1>1, <1>2, <1>3, <1>5, <1>6, <1>8, <1>11, <1>12 DEF FilesOK, TasksOK, Talks, Asked, Open
  <2>5. (\A w \in Hands : task[w].pc \in {"clean", "fetched", "heard", "reviewed"} =>
         task[w].file # Nil)'
    BY <1>1, <1>2, <1>3, <1>5, <1>6, <1>8 DEF FilesOK, TasksOK, Talks, Asked, Open
  <2>6. (\A w \in Hands : Talks(w) => Sort[task[w].msg] = "reply")'
    BY <1>1, <1>2, <1>3, <1>5, <1>6, <1>8, <1>11, <1>12 DEF FilesOK, TasksOK, Talks, Asked, Open
  <2>7. (\A w \in Hands : task[w].pc = "fetched" => Sort[task[w].msg] \in {"receipt", "screenshot"})'
    BY <1>1, <1>2, <1>3, <1>5, <1>6, <1>7, <1>8, <1>9, <1>11, <1>12 DEF FilesOK, TasksOK, Talks, Asked,
         Open
  <2> QED  BY <2>1, <2>2, <2>3, <2>4, <2>5, <2>6, <2>7 DEF TasksOK
<1>15. RowsOK'
  <2>1. (\A i \in Ids : receipt[i] \in disk \cup torn \cup {Nil})'
    BY <1>1, <1>2, <1>5, <1>6, <1>7, <1>8, <1>9, <1>10 DEF FilesOK, TasksOK, RowsOK, FetchedOK,
         CleaningOK, QuestionsOK, Talks, Asked, Open
  <2>2. (\A i, j \in Ids : receipt[i] = receipt[j] /\ i # j => receipt[i] = Nil)'
    BY <1>1, <1>2, <1>5, <1>6, <1>7, <1>8, <1>9 DEF FilesOK, TasksOK, RowsOK, FetchedOK, CleaningOK,
         QuestionsOK, Talks, Asked, Open
  <2>3. (\A i \in Ids : i \notin taken => receipt[i] = Nil)'
    BY <1>1, <1>2, <1>5, <1>6, <1>7, <1>8, <1>9 DEF FilesOK, TasksOK, RowsOK, FetchedOK, CleaningOK,
         QuestionsOK, Talks, Asked, Open
  <2> QED  BY <2>1, <2>2, <2>3 DEF RowsOK
<1>16. QuestionsOK'
  <2>1. (\A s \in Screens : Open(s) => draft[s].file \in disk \cup torn)'
    BY <1>1, <1>2, <1>5, <1>6, <1>8, <1>10 DEF FilesOK, TasksOK, QuestionsOK, FetchedOK, CleaningOK,
         TalkOK, Talks, Asked, Open
  <2>2. (\A s \in Screens, i \in Ids : Open(s) => receipt[i] # draft[s].file)'
    BY <1>1, <1>2, <1>5, <1>6, <1>7, <1>8, <1>9 DEF FilesOK, TasksOK, QuestionsOK, FetchedOK,
         CleaningOK, TalkOK, Talks, Asked, Open
  <2> QED  BY <2>1, <2>2 DEF QuestionsOK
<1>17. FetchedOK'
  <2>1. (\A w \in Hands : task[w].pc = "fetched" => task[w].file \in disk)'
    BY <1>1, <1>2, <1>3, <1>5, <1>6, <1>8, <1>10 DEF FilesOK, TasksOK, RowsOK, FetchedOK, Talks, Asked,
         Open
  <2>2. (\A w \in Hands, i \in Ids : task[w].pc = "fetched" => receipt[i] # task[w].file)'
    BY <1>1, <1>2, <1>3, <1>5, <1>6, <1>7, <1>8, <1>9 DEF FilesOK, TasksOK, RowsOK, FetchedOK, Talks,
         Asked, Open
  <2>3. (\A w \in Hands, s \in Screens : task[w].pc = "fetched" /\ Asked(s) =>
         draft[s].file # task[w].file)'
    BY <1>1, <1>2, <1>3, <1>5, <1>6, <1>8 DEF FilesOK, TasksOK, RowsOK, FetchedOK, Talks, Asked, Open
  <2>4. (\A v, w \in Hands : task[w].pc = "fetched" /\ v # w => task[v].file # task[w].file)'
    BY <1>1, <1>2, <1>3, <1>5, <1>6, <1>8 DEF FilesOK, TasksOK, RowsOK, FetchedOK, Talks, Asked, Open
  <2> QED  BY <2>1, <2>2, <2>3, <2>4 DEF FetchedOK
<1>18. CleaningOK'
  <2>1. (\A w \in Hands, i \in Ids : task[w].pc = "clean" => receipt[i] # task[w].file)'
    BY <1>1, <1>2, <1>3, <1>5, <1>6, <1>7, <1>8, <1>9 DEF FilesOK, TasksOK, RowsOK, QuestionsOK,
         FetchedOK, CleaningOK, TalkOK, Talks, Asked, Open
  <2>2. (\A w \in Hands, s \in Screens : task[w].pc = "clean" /\ Open(s) =>
         draft[s].file # task[w].file)'
    BY <1>1, <1>2, <1>3, <1>5, <1>6, <1>8 DEF FilesOK, TasksOK, RowsOK, QuestionsOK, FetchedOK,
         CleaningOK, TalkOK, Talks, Asked, Open
  <2> QED  BY <2>1, <2>2 DEF CleaningOK
<1>19. TalkOK'
  <2>1. (\A r, s \in Screens : Asked(r) /\ Asked(s) /\ r # s => draft[r].file # draft[s].file)'
    BY <1>1, <1>2, <1>5, <1>6, <1>8 DEF FilesOK, TasksOK, TalkOK, FetchedOK, Mine, Same, Talks, Asked,
         Open
  <2>2. (\A w \in Hands, s \in Screens : Talks(w) /\ Asked(s) =>
         (draft[s].file = task[w].file <=> s = Screen[task[w].msg]))'
    BY <1>1, <1>2, <1>3, <1>5, <1>6, <1>8, <1>11, <1>12 DEF FilesOK, TasksOK, TalkOK, FetchedOK, Mine,
         Same, Talks, Asked, Open
  <2>3. (\A v, w \in Hands : Talks(v) /\ Talks(w) =>
         (task[v].file = task[w].file <=> Screen[task[v].msg] = Screen[task[w].msg]))'
    BY <1>1, <1>2, <1>3, <1>5, <1>6, <1>8, <1>11, <1>12 DEF FilesOK, TasksOK, TalkOK, FetchedOK, Mine,
         Same, Talks, Asked, Open
  <2>4. (\A s \in Screens : Asked(s) => msg[s].status = "answered")'
    BY <1>1, <1>2, <1>5, <1>6, <1>8, <1>11, <1>12 DEF FilesOK, TasksOK, TalkOK, FetchedOK, Mine, Same,
         Talks, Asked, Open
  <2>5. (\A w \in Hands : Talks(w) => msg[Screen[task[w].msg]].status = "answered")'
    BY <1>1, <1>2, <1>3, <1>5, <1>6, <1>8, <1>11, <1>12 DEF FilesOK, TasksOK, TalkOK, FetchedOK, Mine,
         Same, Talks, Asked, Open
  <2> QED  BY <2>1, <2>2, <2>3, <2>4, <2>5 DEF TalkOK
<1>20. AimsOK'
  <2>1. (\A m \in Messages : msg[m].row # Nil =>
         msg[m].row \in taken /\ msg[m].births \subseteq carries[msg[m].row])'
    BY <1>1, <1>2, <1>5, <1>6, <1>8, <1>11, <1>12 DEF FilesOK, TasksOK, RowsOK, AimsOK, SentOK,
         FetchedOK, Same, Talks, Asked, Open
  <2>2. (\A i \in Ids : receipt[i] # Nil => sentFor[receipt[i]] \subseteq carries[i])'
    BY <1>1, <1>2, <1>5, <1>6, <1>7, <1>8, <1>9 DEF FilesOK, TasksOK, RowsOK, AimsOK, SentOK,
         FetchedOK, Same, Talks, Asked, Open
  <2> QED  BY <2>1, <2>2 DEF AimsOK
<1>21. SentOK'
  <2>1. (\A s \in Screens : Asked(s) => sentFor[draft[s].file] = {})'
    BY <1>1, <1>2, <1>5, <1>6, <1>8 DEF FilesOK, TasksOK, SentOK, FetchedOK, Same, Talks, Asked, Open
  <2>2. (\A w \in Hands : Talks(w) => sentFor[task[w].file] = {})'
    BY <1>1, <1>2, <1>3, <1>5, <1>6, <1>8 DEF FilesOK, TasksOK, SentOK, FetchedOK, Same, Talks, Asked,
         Open
  <2>3. (\A w \in Hands : task[w].pc = "fetched" /\ Sort[task[w].msg] = "receipt" =>
         sentFor[task[w].file] = msg[task[w].msg].births)'
    BY <1>1, <1>2, <1>3, <1>5, <1>6, <1>7, <1>8, <1>9, <1>11, <1>12 DEF FilesOK, TasksOK, SentOK,
         FetchedOK, Same, Talks, Asked, Open
  <2>4. (\A w \in Hands : task[w].pc = "fetched" /\ Sort[task[w].msg] = "screenshot" =>
         sentFor[task[w].file] = {})'
    <3>1. \A w \in Hands : task[w].pc = "fetched"
            /\ Sort[task[w].msg] = "screenshot" => sentFor[task[w].file] = {}
      BY DEF SentOK
    <3> SUFFICES ASSUME NEW w \in Hands, task'[w].pc = "fetched", Sort[task'[w].msg] = "screenshot"
                 PROVE  sentFor'[task'[w].file] = {}
      BY DEF Asked, Talks
    <3> QED  BY <3>1, <1>1, <1>2, <1>3, <1>5, <1>6, <1>7, <1>8, <1>9, <1>10, <1>11, <1>12 DEF Asked,
         Open, Talks
  <2>5. (\A f \in 1..MaxFiles : f > files => sentFor[f] = {})'
    BY <1>1, <1>2, <1>5, <1>6, <1>8 DEF FilesOK, TasksOK, SentOK, FetchedOK, Same, Talks, Asked, Open
  <2>6. (\A w \in Hands : task[w].pc = "fetched" => msg[task[w].msg].status # "absent")'
    BY <1>1, <1>2, <1>3, <1>5, <1>6, <1>8, <1>11, <1>12 DEF FilesOK, TasksOK, SentOK, FetchedOK, Same,
         Talks, Asked, Open
  <2>7. (\A w \in Hands : task[w].pc = "begin" => msg[task[w].msg].status # "absent")'
    BY <1>1, <1>2, <1>3, <1>5, <1>6, <1>8, <1>11, <1>12 DEF FilesOK, TasksOK, SentOK, FetchedOK, Same,
         Talks, Asked, Open
  <2> QED  BY <2>1, <2>2, <2>3, <2>4, <2>5, <2>6, <2>7 DEF SentOK
<1> QED  BY <1>13, <1>14, <1>15, <1>16, <1>17, <1>18, <1>19, <1>20, <1>21 DEF ReceiptsInv

(* The file goes on the row it was sent to; the one before is no row's. *)
LEMMA AttachKeeps ==
  ASSUME ReceiptsInv, NEW h \in Hands, Attach(h)
  PROVE  ReceiptsInv'
<1> USE DEF ReceiptsInv
<1>1. Nil \notin 1..files /\ Screens \subseteq Messages /\ (\A m \in Messages : Screen[m] \in Messages)
  BY ReceiptsAssumption DEF FilesOK, Screens
<1>2. UNCHANGED <<disk, files, sentFor, taken, says, isVoid, births, carries, draft, torn>>
  BY DEF Attach, Attached, Doing, disks, rows, At, Free, FilesOK, TasksOK
<1>3. /\ \A v \in Hands : v # h => task'[v] = task[v]
      /\ \/ task'[h].pc = "idle" /\ task'[h].file = Nil
         \/ task'[h].pc = "clean" /\ task'[h].file = receipt[task[h].row] /\ receipt[task[h].row] # Nil
  <2> DEFINE next == IF receipt[task[h].row] = Nil THEN Free ELSE At("clean", Nil, Nil, receipt[task[h].row], Nil)
  <2>1. task' = [task EXCEPT ![h] = next]
    BY DEF Attach
  <2>2. \/ next.pc = "idle" /\ next.file = Nil
        \/ next.pc = "clean" /\ next.file = receipt[task[h].row] /\ receipt[task[h].row] # Nil
    BY DEF At, Free
  <2> HIDE DEF next
  <2> QED  BY <2>1, <2>2 DEF FilesOK
<1>4. task' = [v \in Hands |-> task'[v]]
  BY DEF Attach, disks, rows, At, Free, FilesOK, TasksOK
<1>5. task[h].pc = "fetched" /\ Sort[task[h].msg] = "receipt" /\ task[h].row \in taken
        /\ task[h].file \in 1..files /\ task[h].msg \in Messages
  BY DEF Attach, CutOff, Attached, Doing, disks, rows, At, Free, FilesOK, TasksOK
<1>6. msg[task[h].msg].row = task[h].row /\ sentFor[task[h].file] = msg[task[h].msg].births
  BY DEF Attach, CutOff, Attached, StillAims, Doing, SentOK, disks, rows, At, Free, FilesOK, TasksOK
<1>7. receipt' = [receipt EXCEPT ![task[h].row] = task[h].file]
  BY DEF Attach, CutOff, Attached, disks, rows, At, Free, FilesOK, TasksOK
<1>8. sentFor[task[h].file] \subseteq carries[task[h].row]
  <2>1. \A m \in Messages : msg[m].row # Nil => msg[m].births \subseteq carries[msg[m].row]
    BY DEF AimsOK
  <2>2. task[h].msg \in Messages /\ msg[task[h].msg].row # Nil
    BY <1>5, <1>6, ReceiptsAssumption DEF FilesOK
  <2> QED  BY <2>1, <2>2, <1>6
<1>9. /\ receipt' \in [Ids -> 1..files \cup {Nil}] /\ receipt'[task[h].row] = task[h].file
      /\ (\A i \in Ids : i # task[h].row => receipt'[i] = receipt[i])
  BY <1>5, <1>7 DEF FilesOK
<1>10. task[h].msg \in Messages /\ msg' = TurnAnswered(h)
  BY DEF Attach, Attached, Doing, disks, rows, At, Free, FilesOK, TasksOK
<1>11. msg' \in [Messages -> Turn] /\ (\A m \in Messages : Same(m))
         /\ (Mine(h) => msg'[task[h].msg].status = "answered")
  BY <1>10, AnswerKeeps
<1>12. FilesOK'
  <2>1. (files \in 0..MaxFiles /\ births \in 0..MaxBirths)'
    BY <1>1, <1>2, <1>5, <1>6, <1>8 DEF FilesOK
  <2>2. (disk \subseteq 1..files /\ torn \subseteq 1..files)'
    BY <1>1, <1>2, <1>5, <1>6, <1>8 DEF FilesOK
  <2>3. (receipt \in [Ids -> 1..files \cup {Nil}])'
    BY <1>1, <1>2, <1>5, <1>6, <1>7, <1>8, <1>9 DEF FilesOK, TasksOK
  <2>4. (isVoid \in [Ids -> BOOLEAN])'
    BY <1>1, <1>2, <1>5, <1>6, <1>8 DEF FilesOK
  <2>5. (carries \in [Ids -> SUBSET (1..MaxBirths)])'
    BY <1>1, <1>2, <1>5, <1>6, <1>8 DEF FilesOK
  <2>6. (sentFor \in [1..MaxFiles -> SUBSET (1..MaxBirths)])'
    BY <1>1, <1>2, <1>5, <1>6, <1>8 DEF FilesOK
  <2>7. (msg \in [Messages -> Turn])'
    BY <1>1, <1>2, <1>5, <1>6, <1>8, <1>10, <1>11 DEF FilesOK
  <2>8. (taken \subseteq Ids)'
    BY <1>1, <1>2, <1>5, <1>6, <1>8 DEF FilesOK
  <2>9. (draft = [s \in Screens |-> draft[s]])'
    BY <1>1, <1>2, <1>5, <1>6, <1>8 DEF FilesOK, Screens
  <2>10. (task = [w \in Hands |-> task[w]])'
    BY <1>1, <1>2, <1>3, <1>4, <1>5, <1>6, <1>8 DEF FilesOK
  <2> QED  BY <2>1, <2>2, <2>3, <2>4, <2>5, <2>6, <2>7, <2>8, <2>9, <2>10 DEF FilesOK
<1>13. TasksOK'
  <2>1. (\A s \in Screens : draft[s].file \in 1..files \cup {Nil} /\ draft[s].kind \in BOOLEAN)'
    BY <1>1, <1>2, <1>5, <1>6, <1>8 DEF FilesOK, TasksOK, Talks, Asked, Open
  <2>2. (\A s \in Screens : draft[s].kind => Asked(s))'
    BY <1>1, <1>2, <1>5, <1>6, <1>8 DEF FilesOK, TasksOK, Talks, Asked, Open
  <2>3. (\A w \in Hands : task[w].file \in 1..files \cup {Nil})'
    BY <1>1, <1>2, <1>3, <1>5, <1>6, <1>8 DEF FilesOK, TasksOK, Talks, Asked, Open
  <2>4. (\A w \in Hands : task[w].pc \in {"begin", "fetched", "heard", "reviewed"} =>
         task[w].msg \in Messages)'
    BY <1>1, <1>2, <1>3, <1>5, <1>6, <1>8, <1>10, <1>11 DEF FilesOK, TasksOK, Talks, Asked, Open
  <2>5. (\A w \in Hands : task[w].pc \in {"clean", "fetched", "heard", "reviewed"} =>
         task[w].file # Nil)'
    BY <1>1, <1>2, <1>3, <1>5, <1>6, <1>8 DEF FilesOK, TasksOK, Talks, Asked, Open
  <2>6. (\A w \in Hands : Talks(w) => Sort[task[w].msg] = "reply")'
    BY <1>1, <1>2, <1>3, <1>5, <1>6, <1>8, <1>10, <1>11 DEF FilesOK, TasksOK, Talks, Asked, Open
  <2>7. (\A w \in Hands : task[w].pc = "fetched" => Sort[task[w].msg] \in {"receipt", "screenshot"})'
    BY <1>1, <1>2, <1>3, <1>5, <1>6, <1>7, <1>8, <1>9, <1>10, <1>11 DEF FilesOK, TasksOK, Talks, Asked,
         Open
  <2> QED  BY <2>1, <2>2, <2>3, <2>4, <2>5, <2>6, <2>7 DEF TasksOK
<1>14. RowsOK'
  <2>1. (\A i \in Ids : receipt[i] \in disk \cup torn \cup {Nil})'
    BY <1>1, <1>2, <1>5, <1>6, <1>7, <1>8, <1>9 DEF FilesOK, TasksOK, RowsOK, FetchedOK, CleaningOK,
         QuestionsOK, Talks, Asked, Open
  <2>2. (\A i, j \in Ids : receipt[i] = receipt[j] /\ i # j => receipt[i] = Nil)'
    BY <1>1, <1>2, <1>5, <1>6, <1>7, <1>8, <1>9 DEF FilesOK, TasksOK, RowsOK, FetchedOK, CleaningOK,
         QuestionsOK, Talks, Asked, Open
  <2>3. (\A i \in Ids : i \notin taken => receipt[i] = Nil)'
    BY <1>1, <1>2, <1>5, <1>6, <1>7, <1>8, <1>9 DEF FilesOK, TasksOK, RowsOK, FetchedOK, CleaningOK,
         QuestionsOK, Talks, Asked, Open
  <2> QED  BY <2>1, <2>2, <2>3 DEF RowsOK
<1>15. QuestionsOK'
  <2>1. (\A s \in Screens : Open(s) => draft[s].file \in disk \cup torn)'
    BY <1>1, <1>2, <1>5, <1>6, <1>8 DEF FilesOK, TasksOK, QuestionsOK, FetchedOK, CleaningOK, TalkOK,
         Talks, Asked, Open
  <2>2. (\A s \in Screens, i \in Ids : Open(s) => receipt[i] # draft[s].file)'
    BY <1>1, <1>2, <1>5, <1>6, <1>7, <1>8, <1>9 DEF FilesOK, TasksOK, QuestionsOK, FetchedOK,
         CleaningOK, TalkOK, Talks, Asked, Open
  <2> QED  BY <2>1, <2>2 DEF QuestionsOK
<1>16. FetchedOK'
  <2>1. (\A w \in Hands : task[w].pc = "fetched" => task[w].file \in disk)'
    BY <1>1, <1>2, <1>3, <1>5, <1>6, <1>8 DEF FilesOK, TasksOK, RowsOK, FetchedOK, Talks, Asked, Open
  <2>2. (\A w \in Hands, i \in Ids : task[w].pc = "fetched" => receipt[i] # task[w].file)'
    BY <1>1, <1>2, <1>3, <1>5, <1>6, <1>7, <1>8, <1>9 DEF FilesOK, TasksOK, RowsOK, FetchedOK, Talks,
         Asked, Open
  <2>3. (\A w \in Hands, s \in Screens : task[w].pc = "fetched" /\ Asked(s) =>
         draft[s].file # task[w].file)'
    BY <1>1, <1>2, <1>3, <1>5, <1>6, <1>8 DEF FilesOK, TasksOK, RowsOK, FetchedOK, Talks, Asked, Open
  <2>4. (\A v, w \in Hands : task[w].pc = "fetched" /\ v # w => task[v].file # task[w].file)'
    BY <1>1, <1>2, <1>3, <1>5, <1>6, <1>8 DEF FilesOK, TasksOK, RowsOK, FetchedOK, Talks, Asked, Open
  <2> QED  BY <2>1, <2>2, <2>3, <2>4 DEF FetchedOK
<1>17. CleaningOK'
  <2>1. (\A w \in Hands, i \in Ids : task[w].pc = "clean" => receipt[i] # task[w].file)'
    BY <1>1, <1>2, <1>3, <1>5, <1>6, <1>7, <1>8, <1>9 DEF FilesOK, TasksOK, RowsOK, QuestionsOK,
         FetchedOK, CleaningOK, TalkOK, Talks, Asked, Open
  <2>2. (\A w \in Hands, s \in Screens : task[w].pc = "clean" /\ Open(s) =>
         draft[s].file # task[w].file)'
    BY <1>1, <1>2, <1>3, <1>5, <1>6, <1>8 DEF FilesOK, TasksOK, RowsOK, QuestionsOK, FetchedOK,
         CleaningOK, TalkOK, Talks, Asked, Open
  <2> QED  BY <2>1, <2>2 DEF CleaningOK
<1>18. TalkOK'
  <2>1. (\A r, s \in Screens : Asked(r) /\ Asked(s) /\ r # s => draft[r].file # draft[s].file)'
    BY <1>1, <1>2, <1>5, <1>6, <1>8 DEF FilesOK, TasksOK, TalkOK, FetchedOK, Mine, Same, Talks, Asked,
         Open
  <2>2. (\A w \in Hands, s \in Screens : Talks(w) /\ Asked(s) =>
         (draft[s].file = task[w].file <=> s = Screen[task[w].msg]))'
    BY <1>1, <1>2, <1>3, <1>5, <1>6, <1>8, <1>10, <1>11 DEF FilesOK, TasksOK, TalkOK, FetchedOK, Mine,
         Same, Talks, Asked, Open
  <2>3. (\A v, w \in Hands : Talks(v) /\ Talks(w) =>
         (task[v].file = task[w].file <=> Screen[task[v].msg] = Screen[task[w].msg]))'
    BY <1>1, <1>2, <1>3, <1>5, <1>6, <1>8, <1>10, <1>11 DEF FilesOK, TasksOK, TalkOK, FetchedOK, Mine,
         Same, Talks, Asked, Open
  <2>4. (\A s \in Screens : Asked(s) => msg[s].status = "answered")'
    BY <1>1, <1>2, <1>5, <1>6, <1>8, <1>10, <1>11 DEF FilesOK, TasksOK, TalkOK, FetchedOK, Mine, Same,
         Talks, Asked, Open
  <2>5. (\A w \in Hands : Talks(w) => msg[Screen[task[w].msg]].status = "answered")'
    BY <1>1, <1>2, <1>3, <1>5, <1>6, <1>8, <1>10, <1>11 DEF FilesOK, TasksOK, TalkOK, FetchedOK, Mine,
         Same, Talks, Asked, Open
  <2> QED  BY <2>1, <2>2, <2>3, <2>4, <2>5 DEF TalkOK
<1>19. AimsOK'
  <2>1. (\A m \in Messages : msg[m].row # Nil =>
         msg[m].row \in taken /\ msg[m].births \subseteq carries[msg[m].row])'
    BY <1>1, <1>2, <1>5, <1>6, <1>8, <1>10, <1>11 DEF FilesOK, TasksOK, RowsOK, AimsOK, SentOK,
         FetchedOK, Same, Talks, Asked, Open
  <2>2. (\A i \in Ids : receipt[i] # Nil => sentFor[receipt[i]] \subseteq carries[i])'
    BY <1>1, <1>2, <1>5, <1>6, <1>7, <1>8, <1>9 DEF FilesOK, TasksOK, RowsOK, AimsOK, SentOK,
         FetchedOK, Same, Talks, Asked, Open
  <2> QED  BY <2>1, <2>2 DEF AimsOK
<1>20. SentOK'
  <2>1. (\A s \in Screens : Asked(s) => sentFor[draft[s].file] = {})'
    BY <1>1, <1>2, <1>5, <1>6, <1>8 DEF FilesOK, TasksOK, SentOK, FetchedOK, Same, Talks, Asked, Open
  <2>2. (\A w \in Hands : Talks(w) => sentFor[task[w].file] = {})'
    BY <1>1, <1>2, <1>3, <1>5, <1>6, <1>8 DEF FilesOK, TasksOK, SentOK, FetchedOK, Same, Talks, Asked,
         Open
  <2>3. (\A w \in Hands : task[w].pc = "fetched" /\ Sort[task[w].msg] = "receipt" =>
         sentFor[task[w].file] = msg[task[w].msg].births)'
    BY <1>1, <1>2, <1>3, <1>5, <1>6, <1>7, <1>8, <1>9, <1>10, <1>11 DEF FilesOK, TasksOK, SentOK,
         FetchedOK, Same, Talks, Asked, Open
  <2>4. (\A w \in Hands : task[w].pc = "fetched" /\ Sort[task[w].msg] = "screenshot" =>
         sentFor[task[w].file] = {})'
    <3>1. \A w \in Hands : task[w].pc = "fetched"
            /\ Sort[task[w].msg] = "screenshot" => sentFor[task[w].file] = {}
      BY DEF SentOK
    <3> SUFFICES ASSUME NEW w \in Hands, task'[w].pc = "fetched", Sort[task'[w].msg] = "screenshot"
                 PROVE  sentFor'[task'[w].file] = {}
      BY DEF Asked, Talks
    <3> QED  BY <3>1, <1>1, <1>2, <1>3, <1>5, <1>6, <1>7, <1>8, <1>9, <1>10, <1>11 DEF Asked, Open,
         Talks
  <2>5. (\A f \in 1..MaxFiles : f > files => sentFor[f] = {})'
    BY <1>1, <1>2, <1>5, <1>6, <1>8 DEF FilesOK, TasksOK, SentOK, FetchedOK, Same, Talks, Asked, Open
  <2>6. (\A w \in Hands : task[w].pc = "fetched" => msg[task[w].msg].status # "absent")'
    BY <1>1, <1>2, <1>3, <1>5, <1>6, <1>8, <1>10, <1>11 DEF FilesOK, TasksOK, SentOK, FetchedOK, Same,
         Talks, Asked, Open
  <2>7. (\A w \in Hands : task[w].pc = "begin" => msg[task[w].msg].status # "absent")'
    BY <1>1, <1>2, <1>3, <1>5, <1>6, <1>8, <1>10, <1>11 DEF FilesOK, TasksOK, SentOK, FetchedOK, Same,
         Talks, Asked, Open
  <2> QED  BY <2>1, <2>2, <2>3, <2>4, <2>5, <2>6, <2>7 DEF SentOK
<1> QED  BY <1>12, <1>13, <1>14, <1>15, <1>16, <1>17, <1>18, <1>19, <1>20 DEF ReceiptsInv

(* The question gets a file that only its worker knew. *)
LEMMA ProposeKeeps ==
  ASSUME ReceiptsInv, NEW h \in Hands, Propose(h)
  PROVE  ReceiptsInv'
<1> USE DEF ReceiptsInv
<1>1. Nil \notin 1..files /\ Screens \subseteq Messages /\ (\A m \in Messages : Screen[m] \in Messages)
  BY ReceiptsAssumption DEF FilesOK, Screens
<1>2. UNCHANGED <<disk, files, sentFor, taken, says, isVoid, receipt, births, carries, torn>>
  BY DEF Propose, Rests, Doing, disks, rows, At, Free, FilesOK, TasksOK
<1>3. (\A v \in Hands : v # h => task'[v] = task[v]) /\ task'[h].pc = "idle" /\ task'[h].file = Nil
  BY DEF Propose, Rests, Doing, disks, rows, At, Free, FilesOK, TasksOK
<1>4. task' = [v \in Hands |-> task'[v]]
  BY DEF Propose, Rests, Doing, disks, rows, At, Free, FilesOK, TasksOK
<1>5. task[h].pc = "fetched" /\ Sort[task[h].msg] = "screenshot" /\ Mine(h) /\ task[h].file \in 1..files
  BY DEF Propose, Doing, disks, rows, At, Free, FilesOK, TasksOK
<1>6. PICK c \in Screens : c = task[h].msg /\ Screen[c] = c
  BY <1>5, ReceiptsAssumption DEF Screens, TasksOK
<1>7. PICK action : draft' = [draft EXCEPT ![c] = [file |-> task[h].file, action |-> action, source |-> c, kind |-> TRUE]]
  BY <1>6 DEF Propose
<1>8. /\ draft' = [s \in Screens |-> draft'[s]] /\ draft'[c].file = task[h].file
      /\ draft'[c].kind = TRUE
      /\ (\A s \in Screens : s # c => draft'[s] = draft[s])
  BY <1>6, <1>7 DEF FilesOK
<1>9. task[h].msg \in Messages /\ msg' = TurnAnswered(h)
  BY DEF Propose, Rests, Doing, disks, rows, At, Free, FilesOK, TasksOK
<1>10. msg' \in [Messages -> Turn] /\ (\A m \in Messages : Same(m))
         /\ (Mine(h) => msg'[task[h].msg].status = "answered")
  BY <1>9, AnswerKeeps
<1>11. FilesOK'
  <2>1. (files \in 0..MaxFiles /\ births \in 0..MaxBirths)'
    BY <1>1, <1>2, <1>5, <1>6 DEF FilesOK
  <2>2. (disk \subseteq 1..files /\ torn \subseteq 1..files)'
    BY <1>1, <1>2, <1>5, <1>6 DEF FilesOK
  <2>3. (receipt \in [Ids -> 1..files \cup {Nil}])'
    BY <1>1, <1>2, <1>5, <1>6 DEF FilesOK, TasksOK
  <2>4. (isVoid \in [Ids -> BOOLEAN])'
    BY <1>1, <1>2, <1>5, <1>6 DEF FilesOK
  <2>5. (carries \in [Ids -> SUBSET (1..MaxBirths)])'
    BY <1>1, <1>2, <1>5, <1>6 DEF FilesOK
  <2>6. (sentFor \in [1..MaxFiles -> SUBSET (1..MaxBirths)])'
    BY <1>1, <1>2, <1>5, <1>6 DEF FilesOK
  <2>7. (msg \in [Messages -> Turn])'
    BY <1>1, <1>2, <1>5, <1>6, <1>9, <1>10 DEF FilesOK
  <2>8. (taken \subseteq Ids)'
    BY <1>1, <1>2, <1>5, <1>6 DEF FilesOK
  <2>9. (draft = [s \in Screens |-> draft[s]])'
    BY <1>1, <1>2, <1>5, <1>6, <1>7, <1>8 DEF FilesOK, Screens
  <2>10. (task = [w \in Hands |-> task[w]])'
    BY <1>1, <1>2, <1>3, <1>4, <1>5, <1>6 DEF FilesOK
  <2> QED  BY <2>1, <2>2, <2>3, <2>4, <2>5, <2>6, <2>7, <2>8, <2>9, <2>10 DEF FilesOK
<1>12. TasksOK'
  <2>1. (\A s \in Screens : draft[s].file \in 1..files \cup {Nil} /\ draft[s].kind \in BOOLEAN)'
    BY <1>1, <1>2, <1>5, <1>6, <1>7, <1>8 DEF FilesOK, TasksOK, Talks, Asked, Open
  <2>2. (\A s \in Screens : draft[s].kind => Asked(s))'
    BY <1>1, <1>2, <1>5, <1>6, <1>7, <1>8 DEF FilesOK, TasksOK, Talks, Asked, Open
  <2>3. (\A w \in Hands : task[w].file \in 1..files \cup {Nil})'
    BY <1>1, <1>2, <1>3, <1>5, <1>6 DEF FilesOK, TasksOK, Talks, Asked, Open
  <2>4. (\A w \in Hands : task[w].pc \in {"begin", "fetched", "heard", "reviewed"} =>
         task[w].msg \in Messages)'
    BY <1>1, <1>2, <1>3, <1>5, <1>6, <1>9, <1>10 DEF FilesOK, TasksOK, Talks, Asked, Open
  <2>5. (\A w \in Hands : task[w].pc \in {"clean", "fetched", "heard", "reviewed"} =>
         task[w].file # Nil)'
    BY <1>1, <1>2, <1>3, <1>5, <1>6 DEF FilesOK, TasksOK, Talks, Asked, Open
  <2>6. (\A w \in Hands : Talks(w) => Sort[task[w].msg] = "reply")'
    BY <1>1, <1>2, <1>3, <1>5, <1>6, <1>9, <1>10 DEF FilesOK, TasksOK, Talks, Asked, Open
  <2>7. (\A w \in Hands : task[w].pc = "fetched" => Sort[task[w].msg] \in {"receipt", "screenshot"})'
    BY <1>1, <1>2, <1>3, <1>5, <1>6, <1>9, <1>10 DEF FilesOK, TasksOK, Talks, Asked, Open
  <2> QED  BY <2>1, <2>2, <2>3, <2>4, <2>5, <2>6, <2>7 DEF TasksOK
<1>13. RowsOK'
  <2>1. (\A i \in Ids : receipt[i] \in disk \cup torn \cup {Nil})'
    BY <1>1, <1>2, <1>5, <1>6 DEF FilesOK, TasksOK, RowsOK, FetchedOK, CleaningOK, QuestionsOK, Talks,
         Asked, Open
  <2>2. (\A i, j \in Ids : receipt[i] = receipt[j] /\ i # j => receipt[i] = Nil)'
    BY <1>1, <1>2, <1>5, <1>6 DEF FilesOK, TasksOK, RowsOK, FetchedOK, CleaningOK, QuestionsOK, Talks,
         Asked, Open
  <2>3. (\A i \in Ids : i \notin taken => receipt[i] = Nil)'
    BY <1>1, <1>2, <1>5, <1>6 DEF FilesOK, TasksOK, RowsOK, FetchedOK, CleaningOK, QuestionsOK, Talks,
         Asked, Open
  <2> QED  BY <2>1, <2>2, <2>3 DEF RowsOK
<1>14. QuestionsOK'
  <2>1. (\A s \in Screens : Open(s) => draft[s].file \in disk \cup torn)'
    BY <1>1, <1>2, <1>5, <1>6, <1>7, <1>8 DEF FilesOK, TasksOK, QuestionsOK, FetchedOK, CleaningOK,
         TalkOK, Talks, Asked, Open
  <2>2. (\A s \in Screens, i \in Ids : Open(s) => receipt[i] # draft[s].file)'
    BY <1>1, <1>2, <1>5, <1>6, <1>7, <1>8 DEF FilesOK, TasksOK, QuestionsOK, FetchedOK, CleaningOK,
         TalkOK, Talks, Asked, Open
  <2> QED  BY <2>1, <2>2 DEF QuestionsOK
<1>15. FetchedOK'
  <2>1. (\A w \in Hands : task[w].pc = "fetched" => task[w].file \in disk)'
    BY <1>1, <1>2, <1>3, <1>5, <1>6 DEF FilesOK, TasksOK, RowsOK, FetchedOK, Talks, Asked, Open
  <2>2. (\A w \in Hands, i \in Ids : task[w].pc = "fetched" => receipt[i] # task[w].file)'
    BY <1>1, <1>2, <1>3, <1>5, <1>6 DEF FilesOK, TasksOK, RowsOK, FetchedOK, Talks, Asked, Open
  <2>3. (\A w \in Hands, s \in Screens : task[w].pc = "fetched" /\ Asked(s) =>
         draft[s].file # task[w].file)'
    BY <1>1, <1>2, <1>3, <1>5, <1>6, <1>7, <1>8 DEF FilesOK, TasksOK, RowsOK, FetchedOK, Talks, Asked,
         Open
  <2>4. (\A v, w \in Hands : task[w].pc = "fetched" /\ v # w => task[v].file # task[w].file)'
    BY <1>1, <1>2, <1>3, <1>5, <1>6 DEF FilesOK, TasksOK, RowsOK, FetchedOK, Talks, Asked, Open
  <2> QED  BY <2>1, <2>2, <2>3, <2>4 DEF FetchedOK
<1>16. CleaningOK'
  <2>1. (\A w \in Hands, i \in Ids : task[w].pc = "clean" => receipt[i] # task[w].file)'
    BY <1>1, <1>2, <1>3, <1>5, <1>6 DEF FilesOK, TasksOK, RowsOK, QuestionsOK, FetchedOK, CleaningOK,
         TalkOK, Talks, Asked, Open
  <2>2. (\A w \in Hands, s \in Screens : task[w].pc = "clean" /\ Open(s) =>
         draft[s].file # task[w].file)'
    BY <1>1, <1>2, <1>3, <1>5, <1>6, <1>7, <1>8 DEF FilesOK, TasksOK, RowsOK, QuestionsOK, FetchedOK,
         CleaningOK, TalkOK, Talks, Asked, Open
  <2> QED  BY <2>1, <2>2 DEF CleaningOK
<1>17. TalkOK'
  <2>1. (\A r, s \in Screens : Asked(r) /\ Asked(s) /\ r # s => draft[r].file # draft[s].file)'
    BY <1>1, <1>2, <1>5, <1>6, <1>7, <1>8 DEF FilesOK, TasksOK, TalkOK, FetchedOK, Mine, Same, Talks,
         Asked, Open
  <2>2. (\A w \in Hands, s \in Screens : Talks(w) /\ Asked(s) =>
         (draft[s].file = task[w].file <=> s = Screen[task[w].msg]))'
    BY <1>1, <1>2, <1>3, <1>5, <1>6, <1>7, <1>8, <1>9, <1>10 DEF FilesOK, TasksOK, TalkOK, FetchedOK,
         Mine, Same, Talks, Asked, Open
  <2>3. (\A v, w \in Hands : Talks(v) /\ Talks(w) =>
         (task[v].file = task[w].file <=> Screen[task[v].msg] = Screen[task[w].msg]))'
    BY <1>1, <1>2, <1>3, <1>5, <1>6, <1>9, <1>10 DEF FilesOK, TasksOK, TalkOK, FetchedOK, Mine, Same,
         Talks, Asked, Open
  <2>4. (\A s \in Screens : Asked(s) => msg[s].status = "answered")'
    BY <1>1, <1>2, <1>5, <1>6, <1>7, <1>8, <1>9, <1>10 DEF FilesOK, TasksOK, TalkOK, FetchedOK, Mine,
         Same, Talks, Asked, Open
  <2>5. (\A w \in Hands : Talks(w) => msg[Screen[task[w].msg]].status = "answered")'
    BY <1>1, <1>2, <1>3, <1>5, <1>6, <1>9, <1>10 DEF FilesOK, TasksOK, TalkOK, FetchedOK, Mine, Same,
         Talks, Asked, Open
  <2> QED  BY <2>1, <2>2, <2>3, <2>4, <2>5 DEF TalkOK
<1>18. AimsOK'
  <2>1. (\A m \in Messages : msg[m].row # Nil =>
         msg[m].row \in taken /\ msg[m].births \subseteq carries[msg[m].row])'
    BY <1>1, <1>2, <1>5, <1>6, <1>9, <1>10 DEF FilesOK, TasksOK, RowsOK, AimsOK, SentOK, FetchedOK,
         Same, Talks, Asked, Open
  <2>2. (\A i \in Ids : receipt[i] # Nil => sentFor[receipt[i]] \subseteq carries[i])'
    BY <1>1, <1>2, <1>5, <1>6 DEF FilesOK, TasksOK, RowsOK, AimsOK, SentOK, FetchedOK, Same, Talks,
         Asked, Open
  <2> QED  BY <2>1, <2>2 DEF AimsOK
<1>19. SentOK'
  <2>1. (\A s \in Screens : Asked(s) => sentFor[draft[s].file] = {})'
    BY <1>1, <1>2, <1>5, <1>6, <1>7, <1>8 DEF FilesOK, TasksOK, SentOK, FetchedOK, Same, Talks, Asked,
         Open
  <2>2. (\A w \in Hands : Talks(w) => sentFor[task[w].file] = {})'
    BY <1>1, <1>2, <1>3, <1>5, <1>6 DEF FilesOK, TasksOK, SentOK, FetchedOK, Same, Talks, Asked, Open
  <2>3. (\A w \in Hands : task[w].pc = "fetched" /\ Sort[task[w].msg] = "receipt" =>
         sentFor[task[w].file] = msg[task[w].msg].births)'
    BY <1>1, <1>2, <1>3, <1>5, <1>6, <1>9, <1>10 DEF FilesOK, TasksOK, SentOK, FetchedOK, Same, Talks,
         Asked, Open
  <2>4. (\A w \in Hands : task[w].pc = "fetched" /\ Sort[task[w].msg] = "screenshot" =>
         sentFor[task[w].file] = {})'
    <3>1. \A w \in Hands : task[w].pc = "fetched"
            /\ Sort[task[w].msg] = "screenshot" => sentFor[task[w].file] = {}
      BY DEF SentOK
    <3> SUFFICES ASSUME NEW w \in Hands, task'[w].pc = "fetched", Sort[task'[w].msg] = "screenshot"
                 PROVE  sentFor'[task'[w].file] = {}
      BY DEF Asked, Talks
    <3> QED  BY <3>1, <1>2, <1>3 DEF Asked, Open, Talks
  <2>5. (\A f \in 1..MaxFiles : f > files => sentFor[f] = {})'
    BY <1>1, <1>2, <1>5, <1>6 DEF FilesOK, TasksOK, SentOK, FetchedOK, Same, Talks, Asked, Open
  <2>6. (\A w \in Hands : task[w].pc = "fetched" => msg[task[w].msg].status # "absent")'
    BY <1>1, <1>2, <1>3, <1>5, <1>6, <1>9, <1>10 DEF FilesOK, TasksOK, SentOK, FetchedOK, Same, Talks,
         Asked, Open
  <2>7. (\A w \in Hands : task[w].pc = "begin" => msg[task[w].msg].status # "absent")'
    BY <1>1, <1>2, <1>3, <1>5, <1>6, <1>9, <1>10 DEF FilesOK, TasksOK, SentOK, FetchedOK, Same, Talks,
         Asked, Open
  <2> QED  BY <2>1, <2>2, <2>3, <2>4, <2>5, <2>6, <2>7 DEF SentOK
<1> QED  BY <1>11, <1>12, <1>13, <1>14, <1>15, <1>16, <1>17, <1>18, <1>19 DEF ReceiptsInv

(* A correction takes up the question of its conversation. *)
LEMMA CorrectsKeeps ==
  ASSUME ReceiptsInv, NEW h \in Hands, Hear(h), task'[h].pc = "heard"
  PROVE  ReceiptsInv'
<1> USE DEF ReceiptsInv
<1>1. Nil \notin 1..files /\ Screens \subseteq Messages /\ (\A m \in Messages : Screen[m] \in Messages)
  BY ReceiptsAssumption DEF FilesOK, Screens
<1>2. UNCHANGED <<disk, files, sentFor, taken, says, isVoid, receipt, births, carries, msg, draft, torn>>
  BY DEF Hear, Rests, Doing, disks, rows, At, Free, FilesOK, TasksOK
<1>3. task[h].pc = "begin" /\ task[h].msg \in Messages /\ Sort[task[h].msg] = "reply"
  BY DEF Hear, Doing, disks, rows, At, Free, FilesOK, TasksOK
<1>4. PICK c \in Screens : c = Screen[task[h].msg]
  BY <1>3, ReceiptsAssumption DEF Screens, TasksOK
<1>5. task' = [v \in Hands |-> task'[v]]
  BY DEF Hear, Rests, disks, rows, At, Free, FilesOK, TasksOK
<1>6. (\A v \in Hands : v # h => task'[v] = task[v]) /\ task'[h].pc = "heard"
  BY <1>4 DEF Hear, Rests, disks, rows, At, Free, FilesOK, TasksOK
<1>7. task'[h].msg = task[h].msg /\ task'[h].file = draft[c].file
  BY <1>4 DEF Hear, Rests, disks, rows, At, Free, FilesOK, TasksOK
<1>8. Open(c) /\ Asked(c) /\ sentFor[draft[c].file] = {}
  <2>1. Open(c)
    BY <1>4 DEF Hear, Rests, disks, rows, At, Free, FilesOK, TasksOK
  <2> QED  BY <2>1 DEF SentOK, Open
<1>9. FilesOK'
  <2>1. (files \in 0..MaxFiles /\ births \in 0..MaxBirths)'
    BY <1>1, <1>2, <1>3 DEF FilesOK
  <2>2. (disk \subseteq 1..files /\ torn \subseteq 1..files)'
    BY <1>1, <1>2, <1>3 DEF FilesOK
  <2>3. (receipt \in [Ids -> 1..files \cup {Nil}])'
    BY <1>1, <1>2, <1>3 DEF FilesOK, TasksOK
  <2>4. (isVoid \in [Ids -> BOOLEAN])'
    BY <1>1, <1>2, <1>3 DEF FilesOK
  <2>5. (carries \in [Ids -> SUBSET (1..MaxBirths)])'
    BY <1>1, <1>2, <1>3 DEF FilesOK
  <2>6. (sentFor \in [1..MaxFiles -> SUBSET (1..MaxBirths)])'
    BY <1>1, <1>2, <1>3 DEF FilesOK
  <2>7. (msg \in [Messages -> Turn])'
    BY <1>1, <1>2, <1>3 DEF FilesOK
  <2>8. (taken \subseteq Ids)'
    BY <1>1, <1>2, <1>3 DEF FilesOK
  <2>9. (draft = [s \in Screens |-> draft[s]])'
    BY <1>1, <1>2, <1>3 DEF FilesOK, Screens
  <2>10. (task = [w \in Hands |-> task[w]])'
    BY <1>1, <1>2, <1>3, <1>5, <1>6 DEF FilesOK
  <2> QED  BY <2>1, <2>2, <2>3, <2>4, <2>5, <2>6, <2>7, <2>8, <2>9, <2>10 DEF FilesOK
<1>10. TasksOK'
  <2>1. (\A s \in Screens : draft[s].file \in 1..files \cup {Nil} /\ draft[s].kind \in BOOLEAN)'
    BY <1>1, <1>2, <1>3 DEF FilesOK, TasksOK, Talks, Asked, Open
  <2>2. (\A s \in Screens : draft[s].kind => Asked(s))'
    BY <1>1, <1>2, <1>3 DEF FilesOK, TasksOK, Talks, Asked, Open
  <2>3. (\A w \in Hands : task[w].file \in 1..files \cup {Nil})'
    BY <1>2, <1>3, <1>4, <1>6, <1>7, <1>8 DEF TasksOK, Talks, Asked, Open
  <2>4. (\A w \in Hands : task[w].pc \in {"begin", "fetched", "heard", "reviewed"} =>
         task[w].msg \in Messages)'
    BY <1>2, <1>3, <1>4, <1>6, <1>7, <1>8 DEF TasksOK, Talks, Asked, Open
  <2>5. (\A w \in Hands : task[w].pc \in {"clean", "fetched", "heard", "reviewed"} =>
         task[w].file # Nil)'
    BY <1>2, <1>3, <1>4, <1>6, <1>7, <1>8 DEF TasksOK, Talks, Asked, Open
  <2>6. (\A w \in Hands : Talks(w) => Sort[task[w].msg] = "reply")'
    BY <1>2, <1>3, <1>4, <1>6, <1>7, <1>8 DEF TasksOK, Talks, Asked, Open
  <2>7. (\A w \in Hands : task[w].pc = "fetched" => Sort[task[w].msg] \in {"receipt", "screenshot"})'
    BY <1>1, <1>2, <1>3, <1>6 DEF FilesOK, TasksOK, Talks, Asked, Open
  <2> QED  BY <2>1, <2>2, <2>3, <2>4, <2>5, <2>6, <2>7 DEF TasksOK
<1>11. RowsOK'
  <2>1. (\A i \in Ids : receipt[i] \in disk \cup torn \cup {Nil})'
    BY <1>1, <1>2, <1>3 DEF FilesOK, TasksOK, RowsOK, FetchedOK, CleaningOK, QuestionsOK, Talks, Asked,
         Open
  <2>2. (\A i, j \in Ids : receipt[i] = receipt[j] /\ i # j => receipt[i] = Nil)'
    BY <1>1, <1>2, <1>3 DEF FilesOK, TasksOK, RowsOK, FetchedOK, CleaningOK, QuestionsOK, Talks, Asked,
         Open
  <2>3. (\A i \in Ids : i \notin taken => receipt[i] = Nil)'
    BY <1>1, <1>2, <1>3 DEF FilesOK, TasksOK, RowsOK, FetchedOK, CleaningOK, QuestionsOK, Talks, Asked,
         Open
  <2> QED  BY <2>1, <2>2, <2>3 DEF RowsOK
<1>12. QuestionsOK'
  <2>1. (\A s \in Screens : Open(s) => draft[s].file \in disk \cup torn)'
    BY <1>1, <1>2, <1>3 DEF FilesOK, TasksOK, QuestionsOK, FetchedOK, CleaningOK, TalkOK, Talks, Asked,
         Open
  <2>2. (\A s \in Screens, i \in Ids : Open(s) => receipt[i] # draft[s].file)'
    BY <1>1, <1>2, <1>3 DEF FilesOK, TasksOK, QuestionsOK, FetchedOK, CleaningOK, TalkOK, Talks, Asked,
         Open
  <2> QED  BY <2>1, <2>2 DEF QuestionsOK
<1>13. FetchedOK'
  <2>1. (\A w \in Hands : task[w].pc = "fetched" => task[w].file \in disk)'
    BY <1>1, <1>2, <1>3, <1>6 DEF FilesOK, TasksOK, RowsOK, FetchedOK, Talks, Asked, Open
  <2>2. (\A w \in Hands, i \in Ids : task[w].pc = "fetched" => receipt[i] # task[w].file)'
    BY <1>1, <1>2, <1>3, <1>6 DEF FilesOK, TasksOK, RowsOK, FetchedOK, Talks, Asked, Open
  <2>3. (\A w \in Hands, s \in Screens : task[w].pc = "fetched" /\ Asked(s) =>
         draft[s].file # task[w].file)'
    BY <1>1, <1>2, <1>3, <1>6 DEF FilesOK, TasksOK, RowsOK, FetchedOK, Talks, Asked, Open
  <2>4. (\A v, w \in Hands : task[w].pc = "fetched" /\ v # w => task[v].file # task[w].file)'
    BY <1>2, <1>3, <1>4, <1>6, <1>7, <1>8 DEF TasksOK, RowsOK, FetchedOK, Talks, Asked, Open
  <2> QED  BY <2>1, <2>2, <2>3, <2>4 DEF FetchedOK
<1>14. CleaningOK'
  <2>1. (\A w \in Hands, i \in Ids : task[w].pc = "clean" => receipt[i] # task[w].file)'
    BY <1>1, <1>2, <1>3, <1>6 DEF FilesOK, TasksOK, RowsOK, QuestionsOK, FetchedOK, CleaningOK, TalkOK,
         Talks, Asked, Open
  <2>2. (\A w \in Hands, s \in Screens : task[w].pc = "clean" /\ Open(s) =>
         draft[s].file # task[w].file)'
    BY <1>1, <1>2, <1>3, <1>6 DEF FilesOK, TasksOK, RowsOK, QuestionsOK, FetchedOK, CleaningOK, TalkOK,
         Talks, Asked, Open
  <2> QED  BY <2>1, <2>2 DEF CleaningOK
<1>15. TalkOK'
  <2>1. (\A r, s \in Screens : Asked(r) /\ Asked(s) /\ r # s => draft[r].file # draft[s].file)'
    BY <1>1, <1>2, <1>3 DEF FilesOK, TasksOK, TalkOK, FetchedOK, Mine, Same, Talks, Asked, Open
  <2>2. (\A w \in Hands, s \in Screens : Talks(w) /\ Asked(s) =>
         (draft[s].file = task[w].file <=> s = Screen[task[w].msg]))'
    BY <1>2, <1>3, <1>4, <1>6, <1>7, <1>8 DEF TasksOK, TalkOK, FetchedOK, Mine, Same, Talks, Asked, Open
  <2>3. (\A v, w \in Hands : Talks(v) /\ Talks(w) =>
         (task[v].file = task[w].file <=> Screen[task[v].msg] = Screen[task[w].msg]))'
    BY <1>2, <1>3, <1>4, <1>6, <1>7, <1>8 DEF TasksOK, TalkOK, FetchedOK, Mine, Same, Talks, Asked, Open
  <2>4. (\A s \in Screens : Asked(s) => msg[s].status = "answered")'
    BY <1>1, <1>2, <1>3 DEF FilesOK, TasksOK, TalkOK, FetchedOK, Mine, Same, Talks, Asked, Open
  <2>5. (\A w \in Hands : Talks(w) => msg[Screen[task[w].msg]].status = "answered")'
    BY <1>2, <1>3, <1>4, <1>6, <1>7, <1>8 DEF TasksOK, TalkOK, FetchedOK, Mine, Same, Talks, Asked, Open
  <2> QED  BY <2>1, <2>2, <2>3, <2>4, <2>5 DEF TalkOK
<1>16. AimsOK'
  <2>1. (\A m \in Messages : msg[m].row # Nil =>
         msg[m].row \in taken /\ msg[m].births \subseteq carries[msg[m].row])'
    BY <1>1, <1>2, <1>3 DEF FilesOK, TasksOK, RowsOK, AimsOK, SentOK, FetchedOK, Same, Talks, Asked,
         Open
  <2>2. (\A i \in Ids : receipt[i] # Nil => sentFor[receipt[i]] \subseteq carries[i])'
    BY <1>1, <1>2, <1>3 DEF FilesOK, TasksOK, RowsOK, AimsOK, SentOK, FetchedOK, Same, Talks, Asked,
         Open
  <2> QED  BY <2>1, <2>2 DEF AimsOK
<1>17. SentOK'
  <2>1. (\A s \in Screens : Asked(s) => sentFor[draft[s].file] = {})'
    BY <1>1, <1>2, <1>3 DEF FilesOK, TasksOK, SentOK, FetchedOK, Same, Talks, Asked, Open
  <2>2. (\A w \in Hands : Talks(w) => sentFor[task[w].file] = {})'
    <3>1. \A w \in Hands : Talks(w) => sentFor[task[w].file] = {}
      BY DEF SentOK
    <3> SUFFICES ASSUME NEW w \in Hands, Talks(w)'
                 PROVE  sentFor'[task'[w].file] = {}
      BY DEF Asked, Talks
    <3> QED  BY <3>1, <1>2, <1>4, <1>6, <1>7, <1>8 DEF Asked, Open, Talks
  <2>3. (\A w \in Hands : task[w].pc = "fetched" /\ Sort[task[w].msg] = "receipt" =>
         sentFor[task[w].file] = msg[task[w].msg].births)'
    BY <1>1, <1>2, <1>3, <1>6 DEF FilesOK, TasksOK, SentOK, FetchedOK, Same, Talks, Asked, Open
  <2>4. (\A w \in Hands : task[w].pc = "fetched" /\ Sort[task[w].msg] = "screenshot" =>
         sentFor[task[w].file] = {})'
    <3>1. \A w \in Hands : task[w].pc = "fetched"
            /\ Sort[task[w].msg] = "screenshot" => sentFor[task[w].file] = {}
      BY DEF SentOK
    <3> SUFFICES ASSUME NEW w \in Hands, task'[w].pc = "fetched", Sort[task'[w].msg] = "screenshot"
                 PROVE  sentFor'[task'[w].file] = {}
      BY DEF Asked, Talks
    <3> QED  BY <3>1, <1>2, <1>4, <1>6, <1>7, <1>8 DEF Asked, Open, Talks
  <2>5. (\A f \in 1..MaxFiles : f > files => sentFor[f] = {})'
    BY <1>1, <1>2, <1>3 DEF FilesOK, TasksOK, SentOK, FetchedOK, Same, Talks, Asked, Open
  <2>6. (\A w \in Hands : task[w].pc = "fetched" => msg[task[w].msg].status # "absent")'
    BY <1>1, <1>2, <1>3, <1>6 DEF FilesOK, TasksOK, SentOK, FetchedOK, Same, Talks, Asked, Open
  <2>7. (\A w \in Hands : task[w].pc = "begin" => msg[task[w].msg].status # "absent")'
    BY <1>1, <1>2, <1>3, <1>6 DEF FilesOK, TasksOK, SentOK, FetchedOK, Same, Talks, Asked, Open
  <2> QED  BY <2>1, <2>2, <2>3, <2>4, <2>5, <2>6, <2>7 DEF SentOK
<1> QED  BY <1>9, <1>10, <1>11, <1>12, <1>13, <1>14, <1>15, <1>16, <1>17 DEF ReceiptsInv

(* Any other text drops the question. *)
LEMMA DropsKeeps ==
  ASSUME ReceiptsInv, NEW h \in Hands, Hear(h), task'[h].pc # "heard"
  PROVE  ReceiptsInv'
<1> USE DEF ReceiptsInv
<1>1. Nil \notin 1..files /\ Screens \subseteq Messages /\ (\A m \in Messages : Screen[m] \in Messages)
  BY ReceiptsAssumption DEF FilesOK, Screens
<1>2. UNCHANGED <<disk, files, sentFor, taken, says, isVoid, receipt, births, carries, torn>>
  BY DEF Hear, Rests, Doing, disks, rows, At, Free, FilesOK, TasksOK
<1>3. (\A v \in Hands : v # h => task'[v] = task[v]) /\ task'[h].pc = "idle" /\ task'[h].file = Nil
  BY DEF Hear, Rests, Doing, disks, rows, At, Free, FilesOK, TasksOK
<1>4. task' = [v \in Hands |-> task'[v]]
  BY DEF Hear, Rests, Doing, disks, rows, At, Free, FilesOK, TasksOK
<1>5. PICK c \in Screens : c = Screen[task[h].msg]
  BY ReceiptsAssumption DEF Hear, Doing, Screens, disks, rows, At, Free, FilesOK, TasksOK
<1>6. /\ draft' = [s \in Screens |-> draft'[s]] /\ draft'[c].file = Nil /\ draft'[c].kind = FALSE
      /\ (\A s \in Screens : s # c => draft'[s] = draft[s])
  BY <1>5 DEF Hear, NoQuestion, disks, rows, At, Free, FilesOK, TasksOK
<1>7. task[h].msg \in Messages /\ msg' = TurnAnswered(h)
  BY DEF Hear, Rests, Doing, disks, rows, At, Free, FilesOK, TasksOK
<1>8. msg' \in [Messages -> Turn] /\ (\A m \in Messages : Same(m))
        /\ (Mine(h) => msg'[task[h].msg].status = "answered")
  BY <1>7, AnswerKeeps
<1>9. FilesOK'
  <2>1. (files \in 0..MaxFiles /\ births \in 0..MaxBirths)'
    BY <1>1, <1>2, <1>5 DEF FilesOK
  <2>2. (disk \subseteq 1..files /\ torn \subseteq 1..files)'
    BY <1>1, <1>2, <1>5 DEF FilesOK
  <2>3. (receipt \in [Ids -> 1..files \cup {Nil}])'
    BY <1>1, <1>2, <1>5 DEF FilesOK, TasksOK
  <2>4. (isVoid \in [Ids -> BOOLEAN])'
    BY <1>1, <1>2, <1>5 DEF FilesOK
  <2>5. (carries \in [Ids -> SUBSET (1..MaxBirths)])'
    BY <1>1, <1>2, <1>5 DEF FilesOK
  <2>6. (sentFor \in [1..MaxFiles -> SUBSET (1..MaxBirths)])'
    BY <1>1, <1>2, <1>5 DEF FilesOK
  <2>7. (msg \in [Messages -> Turn])'
    BY <1>1, <1>2, <1>5, <1>7, <1>8 DEF FilesOK
  <2>8. (taken \subseteq Ids)'
    BY <1>1, <1>2, <1>5 DEF FilesOK
  <2>9. (draft = [s \in Screens |-> draft[s]])'
    BY <1>1, <1>2, <1>5, <1>6 DEF FilesOK, Screens
  <2>10. (task = [w \in Hands |-> task[w]])'
    BY <1>1, <1>2, <1>3, <1>4, <1>5 DEF FilesOK
  <2> QED  BY <2>1, <2>2, <2>3, <2>4, <2>5, <2>6, <2>7, <2>8, <2>9, <2>10 DEF FilesOK
<1>10. TasksOK'
  <2>1. (\A s \in Screens : draft[s].file \in 1..files \cup {Nil} /\ draft[s].kind \in BOOLEAN)'
    BY <1>1, <1>2, <1>5, <1>6 DEF FilesOK, TasksOK, Talks, Asked, Open
  <2>2. (\A s \in Screens : draft[s].kind => Asked(s))'
    BY <1>1, <1>2, <1>5, <1>6 DEF FilesOK, TasksOK, Talks, Asked, Open
  <2>3. (\A w \in Hands : task[w].file \in 1..files \cup {Nil})'
    BY <1>1, <1>2, <1>3, <1>5 DEF FilesOK, TasksOK, Talks, Asked, Open
  <2>4. (\A w \in Hands : task[w].pc \in {"begin", "fetched", "heard", "reviewed"} =>
         task[w].msg \in Messages)'
    BY <1>1, <1>2, <1>3, <1>5, <1>7, <1>8 DEF FilesOK, TasksOK, Talks, Asked, Open
  <2>5. (\A w \in Hands : task[w].pc \in {"clean", "fetched", "heard", "reviewed"} =>
         task[w].file # Nil)'
    BY <1>1, <1>2, <1>3, <1>5 DEF FilesOK, TasksOK, Talks, Asked, Open
  <2>6. (\A w \in Hands : Talks(w) => Sort[task[w].msg] = "reply")'
    BY <1>1, <1>2, <1>3, <1>5, <1>7, <1>8 DEF FilesOK, TasksOK, Talks, Asked, Open
  <2>7. (\A w \in Hands : task[w].pc = "fetched" => Sort[task[w].msg] \in {"receipt", "screenshot"})'
    BY <1>1, <1>2, <1>3, <1>5, <1>7, <1>8 DEF FilesOK, TasksOK, Talks, Asked, Open
  <2> QED  BY <2>1, <2>2, <2>3, <2>4, <2>5, <2>6, <2>7 DEF TasksOK
<1>11. RowsOK'
  <2>1. (\A i \in Ids : receipt[i] \in disk \cup torn \cup {Nil})'
    BY <1>1, <1>2, <1>5 DEF FilesOK, TasksOK, RowsOK, FetchedOK, CleaningOK, QuestionsOK, Talks, Asked,
         Open
  <2>2. (\A i, j \in Ids : receipt[i] = receipt[j] /\ i # j => receipt[i] = Nil)'
    BY <1>1, <1>2, <1>5 DEF FilesOK, TasksOK, RowsOK, FetchedOK, CleaningOK, QuestionsOK, Talks, Asked,
         Open
  <2>3. (\A i \in Ids : i \notin taken => receipt[i] = Nil)'
    BY <1>1, <1>2, <1>5 DEF FilesOK, TasksOK, RowsOK, FetchedOK, CleaningOK, QuestionsOK, Talks, Asked,
         Open
  <2> QED  BY <2>1, <2>2, <2>3 DEF RowsOK
<1>12. QuestionsOK'
  <2>1. (\A s \in Screens : Open(s) => draft[s].file \in disk \cup torn)'
    BY <1>1, <1>2, <1>5, <1>6 DEF FilesOK, TasksOK, QuestionsOK, FetchedOK, CleaningOK, TalkOK, Talks,
         Asked, Open
  <2>2. (\A s \in Screens, i \in Ids : Open(s) => receipt[i] # draft[s].file)'
    BY <1>1, <1>2, <1>5, <1>6 DEF FilesOK, TasksOK, QuestionsOK, FetchedOK, CleaningOK, TalkOK, Talks,
         Asked, Open
  <2> QED  BY <2>1, <2>2 DEF QuestionsOK
<1>13. FetchedOK'
  <2>1. (\A w \in Hands : task[w].pc = "fetched" => task[w].file \in disk)'
    BY <1>1, <1>2, <1>3, <1>5 DEF FilesOK, TasksOK, RowsOK, FetchedOK, Talks, Asked, Open
  <2>2. (\A w \in Hands, i \in Ids : task[w].pc = "fetched" => receipt[i] # task[w].file)'
    BY <1>1, <1>2, <1>3, <1>5 DEF FilesOK, TasksOK, RowsOK, FetchedOK, Talks, Asked, Open
  <2>3. (\A w \in Hands, s \in Screens : task[w].pc = "fetched" /\ Asked(s) =>
         draft[s].file # task[w].file)'
    BY <1>1, <1>2, <1>3, <1>5, <1>6 DEF FilesOK, TasksOK, RowsOK, FetchedOK, Talks, Asked, Open
  <2>4. (\A v, w \in Hands : task[w].pc = "fetched" /\ v # w => task[v].file # task[w].file)'
    BY <1>1, <1>2, <1>3, <1>5 DEF FilesOK, TasksOK, RowsOK, FetchedOK, Talks, Asked, Open
  <2> QED  BY <2>1, <2>2, <2>3, <2>4 DEF FetchedOK
<1>14. CleaningOK'
  <2>1. (\A w \in Hands, i \in Ids : task[w].pc = "clean" => receipt[i] # task[w].file)'
    BY <1>1, <1>2, <1>3, <1>5 DEF FilesOK, TasksOK, RowsOK, QuestionsOK, FetchedOK, CleaningOK, TalkOK,
         Talks, Asked, Open
  <2>2. (\A w \in Hands, s \in Screens : task[w].pc = "clean" /\ Open(s) =>
         draft[s].file # task[w].file)'
    BY <1>1, <1>2, <1>3, <1>5, <1>6 DEF FilesOK, TasksOK, RowsOK, QuestionsOK, FetchedOK, CleaningOK,
         TalkOK, Talks, Asked, Open
  <2> QED  BY <2>1, <2>2 DEF CleaningOK
<1>15. TalkOK'
  <2>1. (\A r, s \in Screens : Asked(r) /\ Asked(s) /\ r # s => draft[r].file # draft[s].file)'
    BY <1>1, <1>2, <1>5, <1>6 DEF FilesOK, TasksOK, TalkOK, FetchedOK, Mine, Same, Talks, Asked, Open
  <2>2. (\A w \in Hands, s \in Screens : Talks(w) /\ Asked(s) =>
         (draft[s].file = task[w].file <=> s = Screen[task[w].msg]))'
    BY <1>1, <1>2, <1>3, <1>5, <1>6, <1>7, <1>8 DEF FilesOK, TasksOK, TalkOK, FetchedOK, Mine, Same,
         Talks, Asked, Open
  <2>3. (\A v, w \in Hands : Talks(v) /\ Talks(w) =>
         (task[v].file = task[w].file <=> Screen[task[v].msg] = Screen[task[w].msg]))'
    BY <1>1, <1>2, <1>3, <1>5, <1>7, <1>8 DEF FilesOK, TasksOK, TalkOK, FetchedOK, Mine, Same, Talks,
         Asked, Open
  <2>4. (\A s \in Screens : Asked(s) => msg[s].status = "answered")'
    BY <1>1, <1>2, <1>5, <1>6, <1>7, <1>8 DEF FilesOK, TasksOK, TalkOK, FetchedOK, Mine, Same, Talks,
         Asked, Open
  <2>5. (\A w \in Hands : Talks(w) => msg[Screen[task[w].msg]].status = "answered")'
    BY <1>1, <1>2, <1>3, <1>5, <1>7, <1>8 DEF FilesOK, TasksOK, TalkOK, FetchedOK, Mine, Same, Talks,
         Asked, Open
  <2> QED  BY <2>1, <2>2, <2>3, <2>4, <2>5 DEF TalkOK
<1>16. AimsOK'
  <2>1. (\A m \in Messages : msg[m].row # Nil =>
         msg[m].row \in taken /\ msg[m].births \subseteq carries[msg[m].row])'
    BY <1>1, <1>2, <1>5, <1>7, <1>8 DEF FilesOK, TasksOK, RowsOK, AimsOK, SentOK, FetchedOK, Same,
         Talks, Asked, Open
  <2>2. (\A i \in Ids : receipt[i] # Nil => sentFor[receipt[i]] \subseteq carries[i])'
    BY <1>1, <1>2, <1>5 DEF FilesOK, TasksOK, RowsOK, AimsOK, SentOK, FetchedOK, Same, Talks, Asked,
         Open
  <2> QED  BY <2>1, <2>2 DEF AimsOK
<1>17. SentOK'
  <2>1. (\A s \in Screens : Asked(s) => sentFor[draft[s].file] = {})'
    BY <1>1, <1>2, <1>5, <1>6 DEF FilesOK, TasksOK, SentOK, FetchedOK, Same, Talks, Asked, Open
  <2>2. (\A w \in Hands : Talks(w) => sentFor[task[w].file] = {})'
    BY <1>1, <1>2, <1>3, <1>5 DEF FilesOK, TasksOK, SentOK, FetchedOK, Same, Talks, Asked, Open
  <2>3. (\A w \in Hands : task[w].pc = "fetched" /\ Sort[task[w].msg] = "receipt" =>
         sentFor[task[w].file] = msg[task[w].msg].births)'
    BY <1>1, <1>2, <1>3, <1>5, <1>7, <1>8 DEF FilesOK, TasksOK, SentOK, FetchedOK, Same, Talks, Asked,
         Open
  <2>4. (\A w \in Hands : task[w].pc = "fetched" /\ Sort[task[w].msg] = "screenshot" =>
         sentFor[task[w].file] = {})'
    <3>1. \A w \in Hands : task[w].pc = "fetched"
            /\ Sort[task[w].msg] = "screenshot" => sentFor[task[w].file] = {}
      BY DEF SentOK
    <3> SUFFICES ASSUME NEW w \in Hands, task'[w].pc = "fetched", Sort[task'[w].msg] = "screenshot"
                 PROVE  sentFor'[task'[w].file] = {}
      BY DEF Asked, Talks
    <3> QED  BY <3>1, <1>1, <1>2, <1>3, <1>5, <1>6, <1>7, <1>8 DEF Asked, Open, Talks
  <2>5. (\A f \in 1..MaxFiles : f > files => sentFor[f] = {})'
    BY <1>1, <1>2, <1>5 DEF FilesOK, TasksOK, SentOK, FetchedOK, Same, Talks, Asked, Open
  <2>6. (\A w \in Hands : task[w].pc = "fetched" => msg[task[w].msg].status # "absent")'
    BY <1>1, <1>2, <1>3, <1>5, <1>7, <1>8 DEF FilesOK, TasksOK, SentOK, FetchedOK, Same, Talks, Asked,
         Open
  <2>7. (\A w \in Hands : task[w].pc = "begin" => msg[task[w].msg].status # "absent")'
    BY <1>1, <1>2, <1>3, <1>5, <1>7, <1>8 DEF FilesOK, TasksOK, SentOK, FetchedOK, Same, Talks, Asked,
         Open
  <2> QED  BY <2>1, <2>2, <2>3, <2>4, <2>5, <2>6, <2>7 DEF SentOK
<1> QED  BY <1>9, <1>10, <1>11, <1>12, <1>13, <1>14, <1>15, <1>16, <1>17 DEF ReceiptsInv

LEMMA HearKeeps ==
  ASSUME ReceiptsInv, NEW h \in Hands, Hear(h)
  PROVE  ReceiptsInv'
BY CorrectsKeeps, DropsKeeps

(* A new read keeps the file. *)
LEMMA ReconsiderKeeps ==
  ASSUME ReceiptsInv, NEW h \in Hands, Reconsider(h)
  PROVE  ReceiptsInv'
<1> USE DEF ReceiptsInv
<1>1. Nil \notin 1..files /\ Screens \subseteq Messages /\ (\A m \in Messages : Screen[m] \in Messages)
  BY ReceiptsAssumption DEF FilesOK, Screens
<1>2. UNCHANGED <<disk, files, sentFor, taken, says, isVoid, receipt, births, carries, msg, draft, torn>>
  BY DEF Reconsider, disks, rows, At, Free, FilesOK, TasksOK
<1>3. (\A v \in Hands : v # h => task'[v] = task[v]) /\ task'[h].pc = "reviewed"
        /\ task'[h].msg = task[h].msg /\ task'[h].file = task[h].file
  BY DEF Reconsider, disks, rows, At, Free, FilesOK, TasksOK
<1>4. task' = [v \in Hands |-> task'[v]]
  BY DEF Reconsider, disks, rows, At, Free, FilesOK, TasksOK
<1>5. task[h].pc = "heard"
  BY DEF Reconsider, disks, rows, At, Free, FilesOK, TasksOK
<1>6. FilesOK'
  <2>1. (files \in 0..MaxFiles /\ births \in 0..MaxBirths)'
    BY <1>1, <1>2, <1>5 DEF FilesOK
  <2>2. (disk \subseteq 1..files /\ torn \subseteq 1..files)'
    BY <1>1, <1>2, <1>5 DEF FilesOK
  <2>3. (receipt \in [Ids -> 1..files \cup {Nil}])'
    BY <1>1, <1>2, <1>5 DEF FilesOK, TasksOK
  <2>4. (isVoid \in [Ids -> BOOLEAN])'
    BY <1>1, <1>2, <1>5 DEF FilesOK
  <2>5. (carries \in [Ids -> SUBSET (1..MaxBirths)])'
    BY <1>1, <1>2, <1>5 DEF FilesOK
  <2>6. (sentFor \in [1..MaxFiles -> SUBSET (1..MaxBirths)])'
    BY <1>1, <1>2, <1>5 DEF FilesOK
  <2>7. (msg \in [Messages -> Turn])'
    BY <1>1, <1>2, <1>5 DEF FilesOK
  <2>8. (taken \subseteq Ids)'
    BY <1>1, <1>2, <1>5 DEF FilesOK
  <2>9. (draft = [s \in Screens |-> draft[s]])'
    BY <1>1, <1>2, <1>5 DEF FilesOK, Screens
  <2>10. (task = [w \in Hands |-> task[w]])'
    BY <1>1, <1>2, <1>3, <1>4, <1>5 DEF FilesOK
  <2> QED  BY <2>1, <2>2, <2>3, <2>4, <2>5, <2>6, <2>7, <2>8, <2>9, <2>10 DEF FilesOK
<1>7. TasksOK'
  <2>1. (\A s \in Screens : draft[s].file \in 1..files \cup {Nil} /\ draft[s].kind \in BOOLEAN)'
    BY <1>1, <1>2, <1>5 DEF FilesOK, TasksOK, Talks, Asked, Open
  <2>2. (\A s \in Screens : draft[s].kind => Asked(s))'
    BY <1>1, <1>2, <1>5 DEF FilesOK, TasksOK, Talks, Asked, Open
  <2>3. (\A w \in Hands : task[w].file \in 1..files \cup {Nil})'
    BY <1>1, <1>2, <1>3, <1>5 DEF FilesOK, TasksOK, Talks, Asked, Open
  <2>4. (\A w \in Hands : task[w].pc \in {"begin", "fetched", "heard", "reviewed"} =>
         task[w].msg \in Messages)'
    BY <1>1, <1>2, <1>3, <1>5 DEF FilesOK, TasksOK, Talks, Asked, Open
  <2>5. (\A w \in Hands : task[w].pc \in {"clean", "fetched", "heard", "reviewed"} =>
         task[w].file # Nil)'
    BY <1>1, <1>2, <1>3, <1>5 DEF FilesOK, TasksOK, Talks, Asked, Open
  <2>6. (\A w \in Hands : Talks(w) => Sort[task[w].msg] = "reply")'
    BY <1>1, <1>2, <1>3, <1>5 DEF FilesOK, TasksOK, Talks, Asked, Open
  <2>7. (\A w \in Hands : task[w].pc = "fetched" => Sort[task[w].msg] \in {"receipt", "screenshot"})'
    BY <1>1, <1>2, <1>3, <1>5 DEF FilesOK, TasksOK, Talks, Asked, Open
  <2> QED  BY <2>1, <2>2, <2>3, <2>4, <2>5, <2>6, <2>7 DEF TasksOK
<1>8. RowsOK'
  <2>1. (\A i \in Ids : receipt[i] \in disk \cup torn \cup {Nil})'
    BY <1>1, <1>2, <1>5 DEF FilesOK, TasksOK, RowsOK, FetchedOK, CleaningOK, QuestionsOK, Talks, Asked,
         Open
  <2>2. (\A i, j \in Ids : receipt[i] = receipt[j] /\ i # j => receipt[i] = Nil)'
    BY <1>1, <1>2, <1>5 DEF FilesOK, TasksOK, RowsOK, FetchedOK, CleaningOK, QuestionsOK, Talks, Asked,
         Open
  <2>3. (\A i \in Ids : i \notin taken => receipt[i] = Nil)'
    BY <1>1, <1>2, <1>5 DEF FilesOK, TasksOK, RowsOK, FetchedOK, CleaningOK, QuestionsOK, Talks, Asked,
         Open
  <2> QED  BY <2>1, <2>2, <2>3 DEF RowsOK
<1>9. QuestionsOK'
  <2>1. (\A s \in Screens : Open(s) => draft[s].file \in disk \cup torn)'
    BY <1>1, <1>2, <1>5 DEF FilesOK, TasksOK, QuestionsOK, FetchedOK, CleaningOK, TalkOK, Talks, Asked,
         Open
  <2>2. (\A s \in Screens, i \in Ids : Open(s) => receipt[i] # draft[s].file)'
    BY <1>1, <1>2, <1>5 DEF FilesOK, TasksOK, QuestionsOK, FetchedOK, CleaningOK, TalkOK, Talks, Asked,
         Open
  <2> QED  BY <2>1, <2>2 DEF QuestionsOK
<1>10. FetchedOK'
  <2>1. (\A w \in Hands : task[w].pc = "fetched" => task[w].file \in disk)'
    BY <1>1, <1>2, <1>3, <1>5 DEF FilesOK, TasksOK, RowsOK, FetchedOK, Talks, Asked, Open
  <2>2. (\A w \in Hands, i \in Ids : task[w].pc = "fetched" => receipt[i] # task[w].file)'
    BY <1>1, <1>2, <1>3, <1>5 DEF FilesOK, TasksOK, RowsOK, FetchedOK, Talks, Asked, Open
  <2>3. (\A w \in Hands, s \in Screens : task[w].pc = "fetched" /\ Asked(s) =>
         draft[s].file # task[w].file)'
    BY <1>1, <1>2, <1>3, <1>5 DEF FilesOK, TasksOK, RowsOK, FetchedOK, Talks, Asked, Open
  <2>4. (\A v, w \in Hands : task[w].pc = "fetched" /\ v # w => task[v].file # task[w].file)'
    BY <1>1, <1>2, <1>3, <1>5 DEF FilesOK, TasksOK, RowsOK, FetchedOK, Talks, Asked, Open
  <2> QED  BY <2>1, <2>2, <2>3, <2>4 DEF FetchedOK
<1>11. CleaningOK'
  <2>1. (\A w \in Hands, i \in Ids : task[w].pc = "clean" => receipt[i] # task[w].file)'
    BY <1>1, <1>2, <1>3, <1>5 DEF FilesOK, TasksOK, RowsOK, QuestionsOK, FetchedOK, CleaningOK, TalkOK,
         Talks, Asked, Open
  <2>2. (\A w \in Hands, s \in Screens : task[w].pc = "clean" /\ Open(s) =>
         draft[s].file # task[w].file)'
    BY <1>1, <1>2, <1>3, <1>5 DEF FilesOK, TasksOK, RowsOK, QuestionsOK, FetchedOK, CleaningOK, TalkOK,
         Talks, Asked, Open
  <2> QED  BY <2>1, <2>2 DEF CleaningOK
<1>12. TalkOK'
  <2>1. (\A r, s \in Screens : Asked(r) /\ Asked(s) /\ r # s => draft[r].file # draft[s].file)'
    BY <1>1, <1>2, <1>5 DEF FilesOK, TasksOK, TalkOK, FetchedOK, Mine, Same, Talks, Asked, Open
  <2>2. (\A w \in Hands, s \in Screens : Talks(w) /\ Asked(s) =>
         (draft[s].file = task[w].file <=> s = Screen[task[w].msg]))'
    BY <1>1, <1>2, <1>3, <1>5 DEF FilesOK, TasksOK, TalkOK, FetchedOK, Mine, Same, Talks, Asked, Open
  <2>3. (\A v, w \in Hands : Talks(v) /\ Talks(w) =>
         (task[v].file = task[w].file <=> Screen[task[v].msg] = Screen[task[w].msg]))'
    BY <1>1, <1>2, <1>3, <1>5 DEF FilesOK, TasksOK, TalkOK, FetchedOK, Mine, Same, Talks, Asked, Open
  <2>4. (\A s \in Screens : Asked(s) => msg[s].status = "answered")'
    BY <1>1, <1>2, <1>5 DEF FilesOK, TasksOK, TalkOK, FetchedOK, Mine, Same, Talks, Asked, Open
  <2>5. (\A w \in Hands : Talks(w) => msg[Screen[task[w].msg]].status = "answered")'
    BY <1>1, <1>2, <1>3, <1>5 DEF FilesOK, TasksOK, TalkOK, FetchedOK, Mine, Same, Talks, Asked, Open
  <2> QED  BY <2>1, <2>2, <2>3, <2>4, <2>5 DEF TalkOK
<1>13. AimsOK'
  <2>1. (\A m \in Messages : msg[m].row # Nil =>
         msg[m].row \in taken /\ msg[m].births \subseteq carries[msg[m].row])'
    BY <1>1, <1>2, <1>5 DEF FilesOK, TasksOK, RowsOK, AimsOK, SentOK, FetchedOK, Same, Talks, Asked,
         Open
  <2>2. (\A i \in Ids : receipt[i] # Nil => sentFor[receipt[i]] \subseteq carries[i])'
    BY <1>1, <1>2, <1>5 DEF FilesOK, TasksOK, RowsOK, AimsOK, SentOK, FetchedOK, Same, Talks, Asked,
         Open
  <2> QED  BY <2>1, <2>2 DEF AimsOK
<1>14. SentOK'
  <2>1. (\A s \in Screens : Asked(s) => sentFor[draft[s].file] = {})'
    BY <1>1, <1>2, <1>5 DEF FilesOK, TasksOK, SentOK, FetchedOK, Same, Talks, Asked, Open
  <2>2. (\A w \in Hands : Talks(w) => sentFor[task[w].file] = {})'
    <3>1. \A w \in Hands : Talks(w) => sentFor[task[w].file] = {}
      BY DEF SentOK
    <3> SUFFICES ASSUME NEW w \in Hands, Talks(w)'
                 PROVE  sentFor'[task'[w].file] = {}
      BY DEF Asked, Talks
    <3> QED  BY <3>1, <1>1, <1>2, <1>3, <1>5 DEF Asked, Open, Talks
  <2>3. (\A w \in Hands : task[w].pc = "fetched" /\ Sort[task[w].msg] = "receipt" =>
         sentFor[task[w].file] = msg[task[w].msg].births)'
    BY <1>1, <1>2, <1>3, <1>5 DEF FilesOK, TasksOK, SentOK, FetchedOK, Same, Talks, Asked, Open
  <2>4. (\A w \in Hands : task[w].pc = "fetched" /\ Sort[task[w].msg] = "screenshot" =>
         sentFor[task[w].file] = {})'
    <3>1. \A w \in Hands : task[w].pc = "fetched"
            /\ Sort[task[w].msg] = "screenshot" => sentFor[task[w].file] = {}
      BY DEF SentOK
    <3> SUFFICES ASSUME NEW w \in Hands, task'[w].pc = "fetched", Sort[task'[w].msg] = "screenshot"
                 PROVE  sentFor'[task'[w].file] = {}
      BY DEF Asked, Talks
    <3> QED  BY <3>1, <1>1, <1>2, <1>3, <1>5 DEF Asked, Open, Talks
  <2>5. (\A f \in 1..MaxFiles : f > files => sentFor[f] = {})'
    BY <1>1, <1>2, <1>5 DEF FilesOK, TasksOK, SentOK, FetchedOK, Same, Talks, Asked, Open
  <2>6. (\A w \in Hands : task[w].pc = "fetched" => msg[task[w].msg].status # "absent")'
    BY <1>1, <1>2, <1>3, <1>5 DEF FilesOK, TasksOK, SentOK, FetchedOK, Same, Talks, Asked, Open
  <2>7. (\A w \in Hands : task[w].pc = "begin" => msg[task[w].msg].status # "absent")'
    BY <1>1, <1>2, <1>3, <1>5 DEF FilesOK, TasksOK, SentOK, FetchedOK, Same, Talks, Asked, Open
  <2> QED  BY <2>1, <2>2, <2>3, <2>4, <2>5, <2>6, <2>7 DEF SentOK
<1> QED  BY <1>6, <1>7, <1>8, <1>9, <1>10, <1>11, <1>12, <1>13, <1>14 DEF ReceiptsInv

(* The question gets the file of its conversation again. *)
LEMMA AskAgainKeeps ==
  ASSUME ReceiptsInv, NEW h \in Hands, AskAgain(h)
  PROVE  ReceiptsInv'
<1> USE DEF ReceiptsInv
<1>1. Nil \notin 1..files /\ Screens \subseteq Messages /\ (\A m \in Messages : Screen[m] \in Messages)
  BY ReceiptsAssumption DEF FilesOK, Screens
<1>2. UNCHANGED <<disk, files, sentFor, taken, says, isVoid, receipt, births, carries, torn>>
  BY DEF AskAgain, Rests, disks, rows, At, Free, FilesOK, TasksOK
<1>3. (\A v \in Hands : v # h => task'[v] = task[v]) /\ task'[h].pc = "idle" /\ task'[h].file = Nil
  BY DEF AskAgain, Rests, disks, rows, At, Free, FilesOK, TasksOK
<1>4. task' = [v \in Hands |-> task'[v]]
  BY DEF AskAgain, Rests, disks, rows, At, Free, FilesOK, TasksOK
<1>5. task[h].pc = "reviewed" /\ task[h].msg \in Messages /\ Sort[task[h].msg] = "reply"
        /\ task[h].file \in 1..files /\ Mine(h)
  BY DEF AskAgain, Talks, disks, rows, At, Free, FilesOK, TasksOK
<1>6. PICK c \in Screens : c = Screen[task[h].msg]
  BY <1>5, ReceiptsAssumption DEF Screens
<1>7. PICK question : /\ draft' = [draft EXCEPT ![c] = question]
                      /\ \/ question.file = Nil /\ question.kind = FALSE
                         \/ question.file = task[h].file /\ question.kind = draft[c].kind
  <2> DEFINE again == [file |-> task[h].file, action |-> task[h].plan, source |-> task[h].msg, kind |-> draft[c].kind]
  <2>1. draft' = [draft EXCEPT ![c] = IF task[h].plan = Nil THEN NoQuestion ELSE again]
    BY <1>6 DEF AskAgain, FilesOK
  <2>2. again.file = task[h].file /\ again.kind = draft[c].kind /\ NoQuestion.file = Nil
          /\ NoQuestion.kind = FALSE
    BY DEF NoQuestion
  <2> HIDE DEF again
  <2> QED  BY <2>1, <2>2
<1>8. /\ draft' = [s \in Screens |-> draft'[s]] /\ (\A s \in Screens : s # c => draft'[s] = draft[s])
      /\ (\/ draft'[c].file = Nil /\ draft'[c].kind = FALSE
          \/ draft'[c].file = task[h].file /\ draft'[c].kind = draft[c].kind)
  BY <1>7 DEF FilesOK
<1>9. task[h].msg \in Messages /\ msg' = TurnAnswered(h)
  BY DEF AskAgain, Rests, disks, rows, At, Free, FilesOK, TasksOK
<1>10. msg' \in [Messages -> Turn] /\ (\A m \in Messages : Same(m))
         /\ (Mine(h) => msg'[task[h].msg].status = "answered")
  BY <1>9, AnswerKeeps
<1>11. FilesOK'
  <2>1. (files \in 0..MaxFiles /\ births \in 0..MaxBirths)'
    BY <1>1, <1>2, <1>5, <1>6 DEF FilesOK
  <2>2. (disk \subseteq 1..files /\ torn \subseteq 1..files)'
    BY <1>1, <1>2, <1>5, <1>6 DEF FilesOK
  <2>3. (receipt \in [Ids -> 1..files \cup {Nil}])'
    BY <1>1, <1>2, <1>5, <1>6 DEF FilesOK, TasksOK
  <2>4. (isVoid \in [Ids -> BOOLEAN])'
    BY <1>1, <1>2, <1>5, <1>6 DEF FilesOK
  <2>5. (carries \in [Ids -> SUBSET (1..MaxBirths)])'
    BY <1>1, <1>2, <1>5, <1>6 DEF FilesOK
  <2>6. (sentFor \in [1..MaxFiles -> SUBSET (1..MaxBirths)])'
    BY <1>1, <1>2, <1>5, <1>6 DEF FilesOK
  <2>7. (msg \in [Messages -> Turn])'
    BY <1>1, <1>2, <1>5, <1>6, <1>9, <1>10 DEF FilesOK
  <2>8. (taken \subseteq Ids)'
    BY <1>1, <1>2, <1>5, <1>6 DEF FilesOK
  <2>9. (draft = [s \in Screens |-> draft[s]])'
    BY <1>1, <1>2, <1>5, <1>6, <1>7, <1>8 DEF FilesOK, Screens
  <2>10. (task = [w \in Hands |-> task[w]])'
    BY <1>1, <1>2, <1>3, <1>4, <1>5, <1>6 DEF FilesOK
  <2> QED  BY <2>1, <2>2, <2>3, <2>4, <2>5, <2>6, <2>7, <2>8, <2>9, <2>10 DEF FilesOK
<1>12. TasksOK'
  <2>1. (\A s \in Screens : draft[s].file \in 1..files \cup {Nil} /\ draft[s].kind \in BOOLEAN)'
    BY <1>1, <1>2, <1>5, <1>6, <1>7, <1>8 DEF FilesOK, TasksOK, Talks, Asked, Open
  <2>2. (\A s \in Screens : draft[s].kind => Asked(s))'
    BY <1>1, <1>2, <1>5, <1>6, <1>7, <1>8 DEF FilesOK, TasksOK, Talks, Asked, Open
  <2>3. (\A w \in Hands : task[w].file \in 1..files \cup {Nil})'
    BY <1>1, <1>2, <1>3, <1>5, <1>6 DEF FilesOK, TasksOK, Talks, Asked, Open
  <2>4. (\A w \in Hands : task[w].pc \in {"begin", "fetched", "heard", "reviewed"} =>
         task[w].msg \in Messages)'
    BY <1>1, <1>2, <1>3, <1>5, <1>6, <1>9, <1>10 DEF FilesOK, TasksOK, Talks, Asked, Open
  <2>5. (\A w \in Hands : task[w].pc \in {"clean", "fetched", "heard", "reviewed"} =>
         task[w].file # Nil)'
    BY <1>1, <1>2, <1>3, <1>5, <1>6 DEF FilesOK, TasksOK, Talks, Asked, Open
  <2>6. (\A w \in Hands : Talks(w) => Sort[task[w].msg] = "reply")'
    BY <1>1, <1>2, <1>3, <1>5, <1>6, <1>9, <1>10 DEF FilesOK, TasksOK, Talks, Asked, Open
  <2>7. (\A w \in Hands : task[w].pc = "fetched" => Sort[task[w].msg] \in {"receipt", "screenshot"})'
    BY <1>1, <1>2, <1>3, <1>5, <1>6, <1>9, <1>10 DEF FilesOK, TasksOK, Talks, Asked, Open
  <2> QED  BY <2>1, <2>2, <2>3, <2>4, <2>5, <2>6, <2>7 DEF TasksOK
<1>13. RowsOK'
  <2>1. (\A i \in Ids : receipt[i] \in disk \cup torn \cup {Nil})'
    BY <1>1, <1>2, <1>5, <1>6 DEF FilesOK, TasksOK, RowsOK, FetchedOK, CleaningOK, QuestionsOK, Talks,
         Asked, Open
  <2>2. (\A i, j \in Ids : receipt[i] = receipt[j] /\ i # j => receipt[i] = Nil)'
    BY <1>1, <1>2, <1>5, <1>6 DEF FilesOK, TasksOK, RowsOK, FetchedOK, CleaningOK, QuestionsOK, Talks,
         Asked, Open
  <2>3. (\A i \in Ids : i \notin taken => receipt[i] = Nil)'
    BY <1>1, <1>2, <1>5, <1>6 DEF FilesOK, TasksOK, RowsOK, FetchedOK, CleaningOK, QuestionsOK, Talks,
         Asked, Open
  <2> QED  BY <2>1, <2>2, <2>3 DEF RowsOK
<1>14. QuestionsOK'
  <2>1. (\A s \in Screens : Open(s) => draft[s].file \in disk \cup torn)'
    BY SMTT(30), <1>1, <1>2, <1>5, <1>6, <1>7, <1>8 DEF FilesOK, TasksOK, QuestionsOK, FetchedOK,
         CleaningOK, TalkOK, Talks, Asked, Open
  <2>2. (\A s \in Screens, i \in Ids : Open(s) => receipt[i] # draft[s].file)'
    BY SMTT(30), <1>1, <1>2, <1>5, <1>6, <1>7, <1>8 DEF FilesOK, TasksOK, QuestionsOK, FetchedOK,
         CleaningOK, TalkOK, Talks, Asked, Open
  <2> QED  BY <2>1, <2>2 DEF QuestionsOK
<1>15. FetchedOK'
  <2>1. (\A w \in Hands : task[w].pc = "fetched" => task[w].file \in disk)'
    BY <1>1, <1>2, <1>3, <1>5, <1>6 DEF FilesOK, TasksOK, RowsOK, FetchedOK, Talks, Asked, Open
  <2>2. (\A w \in Hands, i \in Ids : task[w].pc = "fetched" => receipt[i] # task[w].file)'
    BY <1>1, <1>2, <1>3, <1>5, <1>6 DEF FilesOK, TasksOK, RowsOK, FetchedOK, Talks, Asked, Open
  <2>3. (\A w \in Hands, s \in Screens : task[w].pc = "fetched" /\ Asked(s) =>
         draft[s].file # task[w].file)'
    BY <1>1, <1>2, <1>3, <1>5, <1>6, <1>7, <1>8 DEF FilesOK, TasksOK, RowsOK, FetchedOK, Talks, Asked,
         Open
  <2>4. (\A v, w \in Hands : task[w].pc = "fetched" /\ v # w => task[v].file # task[w].file)'
    BY <1>1, <1>2, <1>3, <1>5, <1>6 DEF FilesOK, TasksOK, RowsOK, FetchedOK, Talks, Asked, Open
  <2> QED  BY <2>1, <2>2, <2>3, <2>4 DEF FetchedOK
<1>16. CleaningOK'
  <2>1. (\A w \in Hands, i \in Ids : task[w].pc = "clean" => receipt[i] # task[w].file)'
    BY <1>1, <1>2, <1>3, <1>5, <1>6 DEF FilesOK, TasksOK, RowsOK, QuestionsOK, FetchedOK, CleaningOK,
         TalkOK, Talks, Asked, Open
  <2>2. (\A w \in Hands, s \in Screens : task[w].pc = "clean" /\ Open(s) =>
         draft[s].file # task[w].file)'
    BY SMTT(30), <1>1, <1>2, <1>3, <1>5, <1>6, <1>7, <1>8 DEF FilesOK, TasksOK, RowsOK, QuestionsOK,
         FetchedOK, CleaningOK, TalkOK, Talks, Asked, Open
  <2> QED  BY <2>1, <2>2 DEF CleaningOK
<1>17. TalkOK'
  <2>1. (\A r, s \in Screens : Asked(r) /\ Asked(s) /\ r # s => draft[r].file # draft[s].file)'
    BY <1>1, <1>2, <1>5, <1>6, <1>7, <1>8 DEF FilesOK, TasksOK, TalkOK, FetchedOK, Mine, Same, Talks,
         Asked, Open
  <2>2. (\A w \in Hands, s \in Screens : Talks(w) /\ Asked(s) =>
         (draft[s].file = task[w].file <=> s = Screen[task[w].msg]))'
    BY <1>1, <1>2, <1>3, <1>5, <1>6, <1>7, <1>8, <1>9, <1>10 DEF FilesOK, TasksOK, TalkOK, FetchedOK,
         Mine, Same, Talks, Asked, Open
  <2>3. (\A v, w \in Hands : Talks(v) /\ Talks(w) =>
         (task[v].file = task[w].file <=> Screen[task[v].msg] = Screen[task[w].msg]))'
    BY <1>1, <1>2, <1>3, <1>5, <1>6, <1>9, <1>10 DEF FilesOK, TasksOK, TalkOK, FetchedOK, Mine, Same,
         Talks, Asked, Open
  <2>4. (\A s \in Screens : Asked(s) => msg[s].status = "answered")'
    BY <1>1, <1>2, <1>5, <1>6, <1>7, <1>8, <1>9, <1>10 DEF FilesOK, TasksOK, TalkOK, FetchedOK, Mine,
         Same, Talks, Asked, Open
  <2>5. (\A w \in Hands : Talks(w) => msg[Screen[task[w].msg]].status = "answered")'
    BY <1>1, <1>2, <1>3, <1>5, <1>6, <1>9, <1>10 DEF FilesOK, TasksOK, TalkOK, FetchedOK, Mine, Same,
         Talks, Asked, Open
  <2> QED  BY <2>1, <2>2, <2>3, <2>4, <2>5 DEF TalkOK
<1>18. AimsOK'
  <2>1. (\A m \in Messages : msg[m].row # Nil =>
         msg[m].row \in taken /\ msg[m].births \subseteq carries[msg[m].row])'
    BY <1>1, <1>2, <1>5, <1>6, <1>9, <1>10 DEF FilesOK, TasksOK, RowsOK, AimsOK, SentOK, FetchedOK,
         Same, Talks, Asked, Open
  <2>2. (\A i \in Ids : receipt[i] # Nil => sentFor[receipt[i]] \subseteq carries[i])'
    BY <1>1, <1>2, <1>5, <1>6 DEF FilesOK, TasksOK, RowsOK, AimsOK, SentOK, FetchedOK, Same, Talks,
         Asked, Open
  <2> QED  BY <2>1, <2>2 DEF AimsOK
<1>19. SentOK'
  <2>1. (\A s \in Screens : Asked(s) => sentFor[draft[s].file] = {})'
    BY <1>1, <1>2, <1>5, <1>6, <1>7, <1>8 DEF FilesOK, TasksOK, SentOK, FetchedOK, Same, Talks, Asked,
         Open
  <2>2. (\A w \in Hands : Talks(w) => sentFor[task[w].file] = {})'
    BY <1>1, <1>2, <1>3, <1>5, <1>6 DEF FilesOK, TasksOK, SentOK, FetchedOK, Same, Talks, Asked, Open
  <2>3. (\A w \in Hands : task[w].pc = "fetched" /\ Sort[task[w].msg] = "receipt" =>
         sentFor[task[w].file] = msg[task[w].msg].births)'
    BY <1>1, <1>2, <1>3, <1>5, <1>6, <1>9, <1>10 DEF FilesOK, TasksOK, SentOK, FetchedOK, Same, Talks,
         Asked, Open
  <2>4. (\A w \in Hands : task[w].pc = "fetched" /\ Sort[task[w].msg] = "screenshot" =>
         sentFor[task[w].file] = {})'
    <3>1. \A w \in Hands : task[w].pc = "fetched"
            /\ Sort[task[w].msg] = "screenshot" => sentFor[task[w].file] = {}
      BY DEF SentOK
    <3> SUFFICES ASSUME NEW w \in Hands, task'[w].pc = "fetched", Sort[task'[w].msg] = "screenshot"
                 PROVE  sentFor'[task'[w].file] = {}
      BY DEF Asked, Talks
    <3> QED  BY <3>1, <1>1, <1>2, <1>3, <1>5, <1>6, <1>7, <1>8, <1>9, <1>10 DEF Asked, Open, Talks
  <2>5. (\A f \in 1..MaxFiles : f > files => sentFor[f] = {})'
    BY <1>1, <1>2, <1>5, <1>6 DEF FilesOK, TasksOK, SentOK, FetchedOK, Same, Talks, Asked, Open
  <2>6. (\A w \in Hands : task[w].pc = "fetched" => msg[task[w].msg].status # "absent")'
    BY <1>1, <1>2, <1>3, <1>5, <1>6, <1>9, <1>10 DEF FilesOK, TasksOK, SentOK, FetchedOK, Same, Talks,
         Asked, Open
  <2>7. (\A w \in Hands : task[w].pc = "begin" => msg[task[w].msg].status # "absent")'
    BY <1>1, <1>2, <1>3, <1>5, <1>6, <1>9, <1>10 DEF FilesOK, TasksOK, SentOK, FetchedOK, Same, Talks,
         Asked, Open
  <2> QED  BY <2>1, <2>2, <2>3, <2>4, <2>5, <2>6, <2>7 DEF SentOK
<1> QED  BY <1>11, <1>12, <1>13, <1>14, <1>15, <1>16, <1>17, <1>18, <1>19 DEF ReceiptsInv

(* The row that holds the payment gets the file, and the question is gone. *)
LEMMA YesAttachesKeeps ==
  ASSUME ReceiptsInv, NEW c \in Screens, YesAttaches(c)
  PROVE  ReceiptsInv'
<1> USE DEF ReceiptsInv
<1>1. Nil \notin 1..files /\ Screens \subseteq Messages /\ (\A m \in Messages : Screen[m] \in Messages)
  BY ReceiptsAssumption DEF FilesOK, Screens
<1>2. UNCHANGED <<disk, files, sentFor, taken, says, births, carries, msg, task, torn>>
  BY DEF YesAttaches, disks, rows, At, Free, FilesOK, TasksOK
<1>3. Open(c)
  BY DEF YesAttaches, disks, rows, At, Free, FilesOK, TasksOK
<1>4. PICK k \in taken : receipt' = [receipt EXCEPT ![k] = draft[c].file] /\ isVoid' = [isVoid EXCEPT ![k] = FALSE] /\ receipt[k] = Nil
  BY DEF YesAttaches
<1>5. /\ receipt' \in [Ids -> 1..files \cup {Nil}] /\ isVoid' \in [Ids -> BOOLEAN]
      /\ receipt'[k] = draft[c].file
      /\ (\A i \in Ids : i # k => receipt'[i] = receipt[i])
  BY <1>4 DEF FilesOK, TasksOK
<1>6. /\ draft' = [s \in Screens |-> draft'[s]] /\ draft'[c].file = Nil /\ draft'[c].kind = FALSE
      /\ (\A s \in Screens : s # c => draft'[s] = draft[s])
  BY DEF YesAttaches, FilesOK, NoQuestion
<1>7. FilesOK'
  <2>1. (files \in 0..MaxFiles /\ births \in 0..MaxBirths)'
    BY <1>1, <1>2, <1>3 DEF FilesOK
  <2>2. (disk \subseteq 1..files /\ torn \subseteq 1..files)'
    BY <1>1, <1>2, <1>3 DEF FilesOK
  <2>3. (receipt \in [Ids -> 1..files \cup {Nil}])'
    BY <1>1, <1>2, <1>3, <1>4, <1>5 DEF FilesOK, TasksOK
  <2>4. (isVoid \in [Ids -> BOOLEAN])'
    BY <1>1, <1>2, <1>3, <1>4, <1>5 DEF FilesOK
  <2>5. (carries \in [Ids -> SUBSET (1..MaxBirths)])'
    BY <1>1, <1>2, <1>3 DEF FilesOK
  <2>6. (sentFor \in [1..MaxFiles -> SUBSET (1..MaxBirths)])'
    BY <1>1, <1>2, <1>3 DEF FilesOK
  <2>7. (msg \in [Messages -> Turn])'
    BY <1>1, <1>2, <1>3 DEF FilesOK
  <2>8. (taken \subseteq Ids)'
    BY <1>1, <1>2, <1>3 DEF FilesOK
  <2>9. (draft = [s \in Screens |-> draft[s]])'
    BY <1>1, <1>2, <1>3, <1>6 DEF FilesOK, Screens
  <2>10. (task = [w \in Hands |-> task[w]])'
    BY <1>1, <1>2, <1>3 DEF FilesOK
  <2> QED  BY <2>1, <2>2, <2>3, <2>4, <2>5, <2>6, <2>7, <2>8, <2>9, <2>10 DEF FilesOK
<1>8. TasksOK'
  <2>1. (\A s \in Screens : draft[s].file \in 1..files \cup {Nil} /\ draft[s].kind \in BOOLEAN)'
    BY <1>1, <1>2, <1>3, <1>6 DEF FilesOK, TasksOK, Talks, Asked, Open
  <2>2. (\A s \in Screens : draft[s].kind => Asked(s))'
    BY <1>1, <1>2, <1>3, <1>6 DEF FilesOK, TasksOK, Talks, Asked, Open
  <2>3. (\A w \in Hands : task[w].file \in 1..files \cup {Nil})'
    BY <1>1, <1>2, <1>3 DEF FilesOK, TasksOK, Talks, Asked, Open
  <2>4. (\A w \in Hands : task[w].pc \in {"begin", "fetched", "heard", "reviewed"} =>
         task[w].msg \in Messages)'
    BY <1>1, <1>2, <1>3 DEF FilesOK, TasksOK, Talks, Asked, Open
  <2>5. (\A w \in Hands : task[w].pc \in {"clean", "fetched", "heard", "reviewed"} =>
         task[w].file # Nil)'
    BY <1>1, <1>2, <1>3 DEF FilesOK, TasksOK, Talks, Asked, Open
  <2>6. (\A w \in Hands : Talks(w) => Sort[task[w].msg] = "reply")'
    BY <1>1, <1>2, <1>3 DEF FilesOK, TasksOK, Talks, Asked, Open
  <2>7. (\A w \in Hands : task[w].pc = "fetched" => Sort[task[w].msg] \in {"receipt", "screenshot"})'
    BY <1>1, <1>2, <1>3, <1>4, <1>5 DEF FilesOK, TasksOK, Talks, Asked, Open
  <2> QED  BY <2>1, <2>2, <2>3, <2>4, <2>5, <2>6, <2>7 DEF TasksOK
<1>9. RowsOK'
  <2>1. (\A i \in Ids : receipt[i] \in disk \cup torn \cup {Nil})'
    BY <1>1, <1>2, <1>3, <1>4, <1>5 DEF FilesOK, TasksOK, RowsOK, FetchedOK, CleaningOK, QuestionsOK,
         Talks, Asked, Open
  <2>2. (\A i, j \in Ids : receipt[i] = receipt[j] /\ i # j => receipt[i] = Nil)'
    BY <1>1, <1>2, <1>3, <1>4, <1>5 DEF FilesOK, TasksOK, RowsOK, FetchedOK, CleaningOK, QuestionsOK,
         Talks, Asked, Open
  <2>3. (\A i \in Ids : i \notin taken => receipt[i] = Nil)'
    BY <1>1, <1>2, <1>3, <1>4, <1>5 DEF FilesOK, TasksOK, RowsOK, FetchedOK, CleaningOK, QuestionsOK,
         Talks, Asked, Open
  <2> QED  BY <2>1, <2>2, <2>3 DEF RowsOK
<1>10. QuestionsOK'
  <2>1. (\A s \in Screens : Open(s) => draft[s].file \in disk \cup torn)'
    BY <1>1, <1>2, <1>3, <1>6 DEF FilesOK, TasksOK, QuestionsOK, FetchedOK, CleaningOK, TalkOK, Talks,
         Asked, Open
  <2>2. (\A s \in Screens, i \in Ids : Open(s) => receipt[i] # draft[s].file)'
    BY <1>1, <1>2, <1>3, <1>4, <1>5, <1>6 DEF FilesOK, TasksOK, QuestionsOK, FetchedOK, CleaningOK,
         TalkOK, Talks, Asked, Open
  <2> QED  BY <2>1, <2>2 DEF QuestionsOK
<1>11. FetchedOK'
  <2>1. (\A w \in Hands : task[w].pc = "fetched" => task[w].file \in disk)'
    BY <1>1, <1>2, <1>3 DEF FilesOK, TasksOK, RowsOK, FetchedOK, Talks, Asked, Open
  <2>2. (\A w \in Hands, i \in Ids : task[w].pc = "fetched" => receipt[i] # task[w].file)'
    BY <1>1, <1>2, <1>3, <1>4, <1>5 DEF FilesOK, TasksOK, RowsOK, FetchedOK, Talks, Asked, Open
  <2>3. (\A w \in Hands, s \in Screens : task[w].pc = "fetched" /\ Asked(s) =>
         draft[s].file # task[w].file)'
    BY <1>1, <1>2, <1>3, <1>6 DEF FilesOK, TasksOK, RowsOK, FetchedOK, Talks, Asked, Open
  <2>4. (\A v, w \in Hands : task[w].pc = "fetched" /\ v # w => task[v].file # task[w].file)'
    BY <1>1, <1>2, <1>3 DEF FilesOK, TasksOK, RowsOK, FetchedOK, Talks, Asked, Open
  <2> QED  BY <2>1, <2>2, <2>3, <2>4 DEF FetchedOK
<1>12. CleaningOK'
  <2>1. (\A w \in Hands, i \in Ids : task[w].pc = "clean" => receipt[i] # task[w].file)'
    BY <1>1, <1>2, <1>3, <1>4, <1>5 DEF FilesOK, TasksOK, RowsOK, QuestionsOK, FetchedOK, CleaningOK,
         TalkOK, Talks, Asked, Open
  <2>2. (\A w \in Hands, s \in Screens : task[w].pc = "clean" /\ Open(s) =>
         draft[s].file # task[w].file)'
    BY <1>1, <1>2, <1>3, <1>6 DEF FilesOK, TasksOK, RowsOK, QuestionsOK, FetchedOK, CleaningOK, TalkOK,
         Talks, Asked, Open
  <2> QED  BY <2>1, <2>2 DEF CleaningOK
<1>13. TalkOK'
  <2>1. (\A r, s \in Screens : Asked(r) /\ Asked(s) /\ r # s => draft[r].file # draft[s].file)'
    BY <1>1, <1>2, <1>3, <1>6 DEF FilesOK, TasksOK, TalkOK, FetchedOK, Mine, Same, Talks, Asked, Open
  <2>2. (\A w \in Hands, s \in Screens : Talks(w) /\ Asked(s) =>
         (draft[s].file = task[w].file <=> s = Screen[task[w].msg]))'
    BY <1>1, <1>2, <1>3, <1>6 DEF FilesOK, TasksOK, TalkOK, FetchedOK, Mine, Same, Talks, Asked, Open
  <2>3. (\A v, w \in Hands : Talks(v) /\ Talks(w) =>
         (task[v].file = task[w].file <=> Screen[task[v].msg] = Screen[task[w].msg]))'
    BY <1>1, <1>2, <1>3 DEF FilesOK, TasksOK, TalkOK, FetchedOK, Mine, Same, Talks, Asked, Open
  <2>4. (\A s \in Screens : Asked(s) => msg[s].status = "answered")'
    BY <1>1, <1>2, <1>3, <1>6 DEF FilesOK, TasksOK, TalkOK, FetchedOK, Mine, Same, Talks, Asked, Open
  <2>5. (\A w \in Hands : Talks(w) => msg[Screen[task[w].msg]].status = "answered")'
    BY <1>1, <1>2, <1>3 DEF FilesOK, TasksOK, TalkOK, FetchedOK, Mine, Same, Talks, Asked, Open
  <2> QED  BY <2>1, <2>2, <2>3, <2>4, <2>5 DEF TalkOK
<1>14. AimsOK'
  <2>1. (\A m \in Messages : msg[m].row # Nil =>
         msg[m].row \in taken /\ msg[m].births \subseteq carries[msg[m].row])'
    BY <1>1, <1>2, <1>3 DEF FilesOK, TasksOK, RowsOK, AimsOK, SentOK, FetchedOK, Same, Talks, Asked,
         Open
  <2>2. (\A i \in Ids : receipt[i] # Nil => sentFor[receipt[i]] \subseteq carries[i])'
    <3>1. \A j \in Ids : receipt[j] # Nil => sentFor[receipt[j]] \subseteq carries[j]
      BY DEF AimsOK
    <3>2. sentFor[draft[c].file] = {}
      BY <1>3 DEF SentOK, Open
    <3> TAKE i \in Ids
    <3>3. CASE i = k
      BY <3>2, <3>3, <1>2, <1>5
    <3>4. CASE i # k
      BY <3>1, <3>4, <1>2, <1>5
    <3> QED  BY <3>3, <3>4
  <2> QED  BY <2>1, <2>2 DEF AimsOK
<1>15. SentOK'
  <2>1. (\A s \in Screens : Asked(s) => sentFor[draft[s].file] = {})'
    <3>1. \A s \in Screens : Asked(s) => sentFor[draft[s].file] = {}
      BY DEF SentOK
    <3> SUFFICES ASSUME NEW s \in Screens, Asked(s)'
                 PROVE  sentFor'[draft'[s].file] = {}
      BY DEF Asked, Talks
    <3> QED  BY <3>1, <1>1, <1>2, <1>3, <1>4, <1>5, <1>6 DEF Asked, Open, Talks
  <2>2. (\A w \in Hands : Talks(w) => sentFor[task[w].file] = {})'
    BY <1>1, <1>2, <1>3 DEF FilesOK, TasksOK, SentOK, FetchedOK, Same, Talks, Asked, Open
  <2>3. (\A w \in Hands : task[w].pc = "fetched" /\ Sort[task[w].msg] = "receipt" =>
         sentFor[task[w].file] = msg[task[w].msg].births)'
    BY <1>1, <1>2, <1>3, <1>4, <1>5 DEF FilesOK, TasksOK, SentOK, FetchedOK, Same, Talks, Asked, Open
  <2>4. (\A w \in Hands : task[w].pc = "fetched" /\ Sort[task[w].msg] = "screenshot" =>
         sentFor[task[w].file] = {})'
    BY <1>1, <1>2, <1>3 DEF FilesOK, TasksOK, SentOK, Talks, Asked, Open
  <2>5. (\A f \in 1..MaxFiles : f > files => sentFor[f] = {})'
    BY <1>1, <1>2, <1>3 DEF FilesOK, TasksOK, SentOK, FetchedOK, Same, Talks, Asked, Open
  <2>6. (\A w \in Hands : task[w].pc = "fetched" => msg[task[w].msg].status # "absent")'
    BY <1>1, <1>2, <1>3 DEF FilesOK, TasksOK, SentOK, FetchedOK, Same, Talks, Asked, Open
  <2>7. (\A w \in Hands : task[w].pc = "begin" => msg[task[w].msg].status # "absent")'
    BY <1>1, <1>2, <1>3 DEF FilesOK, TasksOK, SentOK, FetchedOK, Same, Talks, Asked, Open
  <2> QED  BY <2>1, <2>2, <2>3, <2>4, <2>5, <2>6, <2>7 DEF SentOK
<1> QED  BY <1>7, <1>8, <1>9, <1>10, <1>11, <1>12, <1>13, <1>14, <1>15 DEF ReceiptsInv

(* What a No removes is no row's, or is torn. *)
LEMMA NoKeeps ==
  ASSUME ReceiptsInv, NEW c \in Screens, No(c)
  PROVE  ReceiptsInv'
<1> USE DEF ReceiptsInv
<1>1. Nil \notin 1..files /\ Screens \subseteq Messages /\ (\A m \in Messages : Screen[m] \in Messages)
  BY ReceiptsAssumption DEF FilesOK, Screens
<1>2. UNCHANGED <<files, sentFor, taken, says, isVoid, receipt, births, carries, msg, task>>
  BY DEF No, disks, rows, At, Free, FilesOK, TasksOK
<1>3. Asked(c) /\ draft[c].file \in 1..files /\ disk' = disk \ {draft[c].file}
  BY DEF No, TasksOK, Asked
<1>4. \/ draft' = draft /\ torn' = torn \cup {draft[c].file}
      \/ draft' = [draft EXCEPT ![c] = NoQuestion] /\ torn' = IF draft[c].kind THEN torn ELSE torn \cup {draft[c].file}
  BY DEF No
<1>5. /\ draft' = [s \in Screens |-> draft'[s]] /\ (\A s \in Screens : s # c => draft'[s] = draft[s])
      /\ (draft'[c] # draft[c] => draft'[c].file = Nil /\ draft'[c].kind = FALSE)
  BY <1>4 DEF FilesOK, NoQuestion
<1>6. draft'[c].kind \in BOOLEAN
  BY <1>5 DEF TasksOK
<1>7. torn' = torn \/ torn' = torn \cup {draft[c].file}
  BY <1>4
<1>8. torn' # torn \cup {draft[c].file} => Open(c) /\ draft'[c].file = Nil
  BY <1>3, <1>4 DEF Open, FilesOK, NoQuestion
<1>9. FilesOK'
  <2>1. (files \in 0..MaxFiles /\ births \in 0..MaxBirths)'
    BY <1>1, <1>2 DEF FilesOK
  <2>2. (disk \subseteq 1..files /\ torn \subseteq 1..files)'
    BY <1>1, <1>2, <1>3, <1>7, <1>8 DEF FilesOK
  <2>3. (receipt \in [Ids -> 1..files \cup {Nil}])'
    BY <1>1, <1>2 DEF FilesOK, TasksOK
  <2>4. (isVoid \in [Ids -> BOOLEAN])'
    BY <1>1, <1>2 DEF FilesOK
  <2>5. (carries \in [Ids -> SUBSET (1..MaxBirths)])'
    BY <1>1, <1>2 DEF FilesOK
  <2>6. (sentFor \in [1..MaxFiles -> SUBSET (1..MaxBirths)])'
    BY <1>1, <1>2 DEF FilesOK
  <2>7. (msg \in [Messages -> Turn])'
    BY <1>1, <1>2 DEF FilesOK
  <2>8. (taken \subseteq Ids)'
    BY <1>1, <1>2 DEF FilesOK
  <2>9. (draft = [s \in Screens |-> draft[s]])'
    BY SMTT(30), <1>1, <1>2, <1>5, <1>6, <1>8 DEF FilesOK, Screens
  <2>10. (task = [w \in Hands |-> task[w]])'
    BY <1>1, <1>2 DEF FilesOK
  <2> QED  BY <2>1, <2>2, <2>3, <2>4, <2>5, <2>6, <2>7, <2>8, <2>9, <2>10 DEF FilesOK
<1>10. TasksOK'
  <2>1. (\A s \in Screens : draft[s].file \in 1..files \cup {Nil} /\ draft[s].kind \in BOOLEAN)'
    BY SMTT(30), <1>1, <1>2, <1>5, <1>6, <1>8 DEF FilesOK, TasksOK, Talks, Asked, Open
  <2>2. (\A s \in Screens : draft[s].kind => Asked(s))'
    BY <1>1, <1>2, <1>5, <1>6, <1>8 DEF FilesOK, TasksOK, Talks, Asked, Open
  <2>3. (\A w \in Hands : task[w].file \in 1..files \cup {Nil})'
    BY <1>1, <1>2 DEF FilesOK, TasksOK, Talks, Asked, Open
  <2>4. (\A w \in Hands : task[w].pc \in {"begin", "fetched", "heard", "reviewed"} =>
         task[w].msg \in Messages)'
    BY <1>1, <1>2 DEF FilesOK, TasksOK, Talks, Asked, Open
  <2>5. (\A w \in Hands : task[w].pc \in {"clean", "fetched", "heard", "reviewed"} =>
         task[w].file # Nil)'
    BY <1>1, <1>2 DEF FilesOK, TasksOK, Talks, Asked, Open
  <2>6. (\A w \in Hands : Talks(w) => Sort[task[w].msg] = "reply")'
    BY <1>1, <1>2 DEF FilesOK, TasksOK, Talks, Asked, Open
  <2>7. (\A w \in Hands : task[w].pc = "fetched" => Sort[task[w].msg] \in {"receipt", "screenshot"})'
    BY <1>1, <1>2 DEF FilesOK, TasksOK, Talks, Asked, Open
  <2> QED  BY <2>1, <2>2, <2>3, <2>4, <2>5, <2>6, <2>7 DEF TasksOK
<1>11. RowsOK'
  <2>1. (\A i \in Ids : receipt[i] \in disk \cup torn \cup {Nil})'
    BY SMTT(30), <1>1, <1>2, <1>3, <1>7, <1>8 DEF FilesOK, TasksOK, RowsOK, FetchedOK, CleaningOK,
         QuestionsOK, Talks, Asked, Open
  <2>2. (\A i, j \in Ids : receipt[i] = receipt[j] /\ i # j => receipt[i] = Nil)'
    BY <1>1, <1>2 DEF FilesOK, TasksOK, RowsOK, FetchedOK, CleaningOK, QuestionsOK, Talks, Asked, Open
  <2>3. (\A i \in Ids : i \notin taken => receipt[i] = Nil)'
    BY <1>1, <1>2 DEF FilesOK, TasksOK, RowsOK, FetchedOK, CleaningOK, QuestionsOK, Talks, Asked, Open
  <2> QED  BY <2>1, <2>2, <2>3 DEF RowsOK
<1>12. QuestionsOK'
  <2>1. (\A s \in Screens : Open(s) => draft[s].file \in disk \cup torn)'
    BY SMTT(30), <1>1, <1>2, <1>3, <1>5, <1>6, <1>7, <1>8 DEF FilesOK, TasksOK, QuestionsOK, FetchedOK,
         CleaningOK, TalkOK, Talks, Asked, Open
  <2>2. (\A s \in Screens, i \in Ids : Open(s) => receipt[i] # draft[s].file)'
    BY SMTT(30), <1>1, <1>2, <1>5, <1>6, <1>8 DEF FilesOK, TasksOK, QuestionsOK, FetchedOK, CleaningOK,
         TalkOK, Talks, Asked, Open
  <2> QED  BY <2>1, <2>2 DEF QuestionsOK
<1>13. FetchedOK'
  <2>1. (\A w \in Hands : task[w].pc = "fetched" => task[w].file \in disk)'
    BY <1>1, <1>2, <1>3 DEF FilesOK, TasksOK, RowsOK, FetchedOK, Talks, Asked, Open
  <2>2. (\A w \in Hands, i \in Ids : task[w].pc = "fetched" => receipt[i] # task[w].file)'
    BY <1>1, <1>2 DEF FilesOK, TasksOK, RowsOK, FetchedOK, Talks, Asked, Open
  <2>3. (\A w \in Hands, s \in Screens : task[w].pc = "fetched" /\ Asked(s) =>
         draft[s].file # task[w].file)'
    BY SMTT(30), <1>1, <1>2, <1>5, <1>6, <1>8 DEF FilesOK, TasksOK, RowsOK, FetchedOK, Talks, Asked,
         Open
  <2>4. (\A v, w \in Hands : task[w].pc = "fetched" /\ v # w => task[v].file # task[w].file)'
    BY <1>1, <1>2 DEF FilesOK, TasksOK, RowsOK, FetchedOK, Talks, Asked, Open
  <2> QED  BY <2>1, <2>2, <2>3, <2>4 DEF FetchedOK
<1>14. CleaningOK'
  <2>1. (\A w \in Hands, i \in Ids : task[w].pc = "clean" => receipt[i] # task[w].file)'
    BY <1>1, <1>2 DEF FilesOK, TasksOK, RowsOK, QuestionsOK, FetchedOK, CleaningOK, TalkOK, Talks,
         Asked, Open
  <2>2. (\A w \in Hands, s \in Screens : task[w].pc = "clean" /\ Open(s) =>
         draft[s].file # task[w].file)'
    BY SMTT(30), <1>1, <1>2, <1>5, <1>6, <1>8 DEF FilesOK, TasksOK, RowsOK, QuestionsOK, FetchedOK,
         CleaningOK, TalkOK, Talks, Asked, Open
  <2> QED  BY <2>1, <2>2 DEF CleaningOK
<1>15. TalkOK'
  <2>1. (\A r, s \in Screens : Asked(r) /\ Asked(s) /\ r # s => draft[r].file # draft[s].file)'
    BY SMTT(30), <1>1, <1>2, <1>5, <1>6, <1>8 DEF FilesOK, TasksOK, TalkOK, FetchedOK, Mine, Same,
         Talks, Asked, Open
  <2>2. (\A w \in Hands, s \in Screens : Talks(w) /\ Asked(s) =>
         (draft[s].file = task[w].file <=> s = Screen[task[w].msg]))'
    BY SMTT(30), <1>1, <1>2, <1>5, <1>6, <1>8 DEF FilesOK, TasksOK, TalkOK, FetchedOK, Mine, Same,
         Talks, Asked, Open
  <2>3. (\A v, w \in Hands : Talks(v) /\ Talks(w) =>
         (task[v].file = task[w].file <=> Screen[task[v].msg] = Screen[task[w].msg]))'
    BY <1>1, <1>2 DEF FilesOK, TasksOK, TalkOK, FetchedOK, Mine, Same, Talks, Asked, Open
  <2>4. (\A s \in Screens : Asked(s) => msg[s].status = "answered")'
    BY SMTT(30), <1>1, <1>2, <1>5, <1>6, <1>8 DEF FilesOK, TasksOK, TalkOK, FetchedOK, Mine, Same,
         Talks, Asked, Open
  <2>5. (\A w \in Hands : Talks(w) => msg[Screen[task[w].msg]].status = "answered")'
    BY <1>1, <1>2 DEF FilesOK, TasksOK, TalkOK, FetchedOK, Mine, Same, Talks, Asked, Open
  <2> QED  BY <2>1, <2>2, <2>3, <2>4, <2>5 DEF TalkOK
<1>16. AimsOK'
  <2>1. (\A m \in Messages : msg[m].row # Nil =>
         msg[m].row \in taken /\ msg[m].births \subseteq carries[msg[m].row])'
    BY <1>1, <1>2 DEF FilesOK, TasksOK, RowsOK, AimsOK, SentOK, FetchedOK, Same, Talks, Asked, Open
  <2>2. (\A i \in Ids : receipt[i] # Nil => sentFor[receipt[i]] \subseteq carries[i])'
    BY <1>1, <1>2 DEF FilesOK, TasksOK, RowsOK, AimsOK, SentOK, FetchedOK, Same, Talks, Asked, Open
  <2> QED  BY <2>1, <2>2 DEF AimsOK
<1>17. SentOK'
  <2>1. (\A s \in Screens : Asked(s) => sentFor[draft[s].file] = {})'
    <3>1. \A s \in Screens : Asked(s) => sentFor[draft[s].file] = {}
      BY DEF SentOK
    <3> SUFFICES ASSUME NEW s \in Screens, Asked(s)'
                 PROVE  sentFor'[draft'[s].file] = {}
      BY DEF Asked, Talks
    <3> QED  BY <3>1, <1>2, <1>3, <1>5 DEF Asked, Open, Talks
  <2>2. (\A w \in Hands : Talks(w) => sentFor[task[w].file] = {})'
    BY <1>1, <1>2 DEF FilesOK, TasksOK, SentOK, FetchedOK, Same, Talks, Asked, Open
  <2>3. (\A w \in Hands : task[w].pc = "fetched" /\ Sort[task[w].msg] = "receipt" =>
         sentFor[task[w].file] = msg[task[w].msg].births)'
    BY <1>1, <1>2 DEF FilesOK, TasksOK, SentOK, FetchedOK, Same, Talks, Asked, Open
  <2>4. (\A w \in Hands : task[w].pc = "fetched" /\ Sort[task[w].msg] = "screenshot" =>
         sentFor[task[w].file] = {})'
    BY <1>1, <1>2 DEF FilesOK, TasksOK, SentOK, Talks, Asked, Open
  <2>5. (\A f \in 1..MaxFiles : f > files => sentFor[f] = {})'
    BY <1>1, <1>2 DEF FilesOK, TasksOK, SentOK, FetchedOK, Same, Talks, Asked, Open
  <2>6. (\A w \in Hands : task[w].pc = "fetched" => msg[task[w].msg].status # "absent")'
    BY <1>1, <1>2 DEF FilesOK, TasksOK, SentOK, FetchedOK, Same, Talks, Asked, Open
  <2>7. (\A w \in Hands : task[w].pc = "begin" => msg[task[w].msg].status # "absent")'
    BY <1>1, <1>2 DEF FilesOK, TasksOK, SentOK, FetchedOK, Same, Talks, Asked, Open
  <2> QED  BY <2>1, <2>2, <2>3, <2>4, <2>5, <2>6, <2>7 DEF SentOK
<1> QED  BY <1>9, <1>10, <1>11, <1>12, <1>13, <1>14, <1>15, <1>16, <1>17 DEF ReceiptsInv

(* A row of the bank has no file. *)
LEMMA RecordKeeps ==
  ASSUME ReceiptsInv, Record
  PROVE  ReceiptsInv'
<1> USE DEF ReceiptsInv
<1>1. Nil \notin 1..files /\ Screens \subseteq Messages /\ (\A m \in Messages : Screen[m] \in Messages)
  BY ReceiptsAssumption DEF FilesOK, Screens
<1>2. UNCHANGED <<disk, files, sentFor, msg, draft, task, torn>>
  BY DEF Record, Insert, disks, rows, At, Free, FilesOK, TasksOK
<1>3. births' \in 1..MaxBirths
  BY ReceiptsAssumption DEF Record, Insert, FilesOK
<1>4. PICK k \in Ids : /\ \A j \in taken : j < k
                     /\ taken' = taken \cup {k} /\ isVoid' = [isVoid EXCEPT ![k] = FALSE]
                     /\ receipt' = [receipt EXCEPT ![k] = Nil]
                     /\ carries' = [carries EXCEPT ![k] = {births'}]
  BY DEF Record, Insert
<1>5. k \notin taken /\ taken' = taken \cup {k} /\ receipt[k] = Nil
  BY <1>4, ReceiptsAssumption DEF FilesOK, RowsOK
<1>6. /\ receipt' \in [Ids -> 1..files \cup {Nil}] /\ receipt'[k] = Nil
      /\ (\A i \in Ids : i # k => receipt'[i] = receipt[i])
      /\ isVoid' \in [Ids -> BOOLEAN]
      /\ carries' \in [Ids -> SUBSET (1..MaxBirths)]
      /\ (\A i \in Ids : i # k => carries'[i] = carries[i])
  BY <1>3, <1>4 DEF FilesOK
<1>7. FilesOK'
  <2>1. (files \in 0..MaxFiles /\ births \in 0..MaxBirths)'
    BY <1>1, <1>2, <1>3 DEF FilesOK
  <2>2. (disk \subseteq 1..files /\ torn \subseteq 1..files)'
    BY <1>1, <1>2 DEF FilesOK
  <2>3. (receipt \in [Ids -> 1..files \cup {Nil}])'
    BY <1>1, <1>2, <1>6 DEF FilesOK, TasksOK
  <2>4. (isVoid \in [Ids -> BOOLEAN])'
    BY <1>1, <1>2, <1>6 DEF FilesOK
  <2>5. (carries \in [Ids -> SUBSET (1..MaxBirths)])'
    BY <1>1, <1>2, <1>6 DEF FilesOK
  <2>6. (sentFor \in [1..MaxFiles -> SUBSET (1..MaxBirths)])'
    BY <1>1, <1>2 DEF FilesOK
  <2>7. (msg \in [Messages -> Turn])'
    BY <1>1, <1>2 DEF FilesOK
  <2>8. (taken \subseteq Ids)'
    BY <1>1, <1>2, <1>5 DEF FilesOK
  <2>9. (draft = [s \in Screens |-> draft[s]])'
    BY <1>1, <1>2 DEF FilesOK, Screens
  <2>10. (task = [w \in Hands |-> task[w]])'
    BY <1>1, <1>2 DEF FilesOK
  <2> QED  BY <2>1, <2>2, <2>3, <2>4, <2>5, <2>6, <2>7, <2>8, <2>9, <2>10 DEF FilesOK
<1>8. TasksOK'
  <2>1. (\A s \in Screens : draft[s].file \in 1..files \cup {Nil} /\ draft[s].kind \in BOOLEAN)'
    BY <1>1, <1>2 DEF FilesOK, TasksOK, Talks, Asked, Open
  <2>2. (\A s \in Screens : draft[s].kind => Asked(s))'
    BY <1>1, <1>2 DEF FilesOK, TasksOK, Talks, Asked, Open
  <2>3. (\A w \in Hands : task[w].file \in 1..files \cup {Nil})'
    BY <1>1, <1>2 DEF FilesOK, TasksOK, Talks, Asked, Open
  <2>4. (\A w \in Hands : task[w].pc \in {"begin", "fetched", "heard", "reviewed"} =>
         task[w].msg \in Messages)'
    BY <1>1, <1>2 DEF FilesOK, TasksOK, Talks, Asked, Open
  <2>5. (\A w \in Hands : task[w].pc \in {"clean", "fetched", "heard", "reviewed"} =>
         task[w].file # Nil)'
    BY <1>1, <1>2 DEF FilesOK, TasksOK, Talks, Asked, Open
  <2>6. (\A w \in Hands : Talks(w) => Sort[task[w].msg] = "reply")'
    BY <1>1, <1>2 DEF FilesOK, TasksOK, Talks, Asked, Open
  <2>7. (\A w \in Hands : task[w].pc = "fetched" => Sort[task[w].msg] \in {"receipt", "screenshot"})'
    BY <1>1, <1>2, <1>6 DEF FilesOK, TasksOK, Talks, Asked, Open
  <2> QED  BY <2>1, <2>2, <2>3, <2>4, <2>5, <2>6, <2>7 DEF TasksOK
<1>9. RowsOK'
  <2>1. (\A i \in Ids : receipt[i] \in disk \cup torn \cup {Nil})'
    BY <1>1, <1>2, <1>6 DEF FilesOK, TasksOK, RowsOK, FetchedOK, CleaningOK, QuestionsOK, Talks, Asked,
         Open
  <2>2. (\A i, j \in Ids : receipt[i] = receipt[j] /\ i # j => receipt[i] = Nil)'
    BY <1>1, <1>2, <1>6 DEF FilesOK, TasksOK, RowsOK, FetchedOK, CleaningOK, QuestionsOK, Talks, Asked,
         Open
  <2>3. (\A i \in Ids : i \notin taken => receipt[i] = Nil)'
    BY <1>1, <1>2, <1>5, <1>6 DEF FilesOK, TasksOK, RowsOK, FetchedOK, CleaningOK, QuestionsOK, Talks,
         Asked, Open
  <2> QED  BY <2>1, <2>2, <2>3 DEF RowsOK
<1>10. QuestionsOK'
  <2>1. (\A s \in Screens : Open(s) => draft[s].file \in disk \cup torn)'
    BY <1>1, <1>2 DEF FilesOK, TasksOK, QuestionsOK, FetchedOK, CleaningOK, TalkOK, Talks, Asked, Open
  <2>2. (\A s \in Screens, i \in Ids : Open(s) => receipt[i] # draft[s].file)'
    BY <1>1, <1>2, <1>6 DEF FilesOK, TasksOK, QuestionsOK, FetchedOK, CleaningOK, TalkOK, Talks, Asked,
         Open
  <2> QED  BY <2>1, <2>2 DEF QuestionsOK
<1>11. FetchedOK'
  <2>1. (\A w \in Hands : task[w].pc = "fetched" => task[w].file \in disk)'
    BY <1>1, <1>2 DEF FilesOK, TasksOK, RowsOK, FetchedOK, Talks, Asked, Open
  <2>2. (\A w \in Hands, i \in Ids : task[w].pc = "fetched" => receipt[i] # task[w].file)'
    BY <1>1, <1>2, <1>6 DEF FilesOK, TasksOK, RowsOK, FetchedOK, Talks, Asked, Open
  <2>3. (\A w \in Hands, s \in Screens : task[w].pc = "fetched" /\ Asked(s) =>
         draft[s].file # task[w].file)'
    BY <1>1, <1>2 DEF FilesOK, TasksOK, RowsOK, FetchedOK, Talks, Asked, Open
  <2>4. (\A v, w \in Hands : task[w].pc = "fetched" /\ v # w => task[v].file # task[w].file)'
    BY <1>1, <1>2 DEF FilesOK, TasksOK, RowsOK, FetchedOK, Talks, Asked, Open
  <2> QED  BY <2>1, <2>2, <2>3, <2>4 DEF FetchedOK
<1>12. CleaningOK'
  <2>1. (\A w \in Hands, i \in Ids : task[w].pc = "clean" => receipt[i] # task[w].file)'
    BY <1>1, <1>2, <1>6 DEF FilesOK, TasksOK, RowsOK, QuestionsOK, FetchedOK, CleaningOK, TalkOK,
         Talks, Asked, Open
  <2>2. (\A w \in Hands, s \in Screens : task[w].pc = "clean" /\ Open(s) =>
         draft[s].file # task[w].file)'
    BY <1>1, <1>2 DEF FilesOK, TasksOK, RowsOK, QuestionsOK, FetchedOK, CleaningOK, TalkOK, Talks,
         Asked, Open
  <2> QED  BY <2>1, <2>2 DEF CleaningOK
<1>13. TalkOK'
  <2>1. (\A r, s \in Screens : Asked(r) /\ Asked(s) /\ r # s => draft[r].file # draft[s].file)'
    BY <1>1, <1>2 DEF FilesOK, TasksOK, TalkOK, FetchedOK, Mine, Same, Talks, Asked, Open
  <2>2. (\A w \in Hands, s \in Screens : Talks(w) /\ Asked(s) =>
         (draft[s].file = task[w].file <=> s = Screen[task[w].msg]))'
    BY <1>1, <1>2 DEF FilesOK, TasksOK, TalkOK, FetchedOK, Mine, Same, Talks, Asked, Open
  <2>3. (\A v, w \in Hands : Talks(v) /\ Talks(w) =>
         (task[v].file = task[w].file <=> Screen[task[v].msg] = Screen[task[w].msg]))'
    BY <1>1, <1>2 DEF FilesOK, TasksOK, TalkOK, FetchedOK, Mine, Same, Talks, Asked, Open
  <2>4. (\A s \in Screens : Asked(s) => msg[s].status = "answered")'
    BY <1>1, <1>2 DEF FilesOK, TasksOK, TalkOK, FetchedOK, Mine, Same, Talks, Asked, Open
  <2>5. (\A w \in Hands : Talks(w) => msg[Screen[task[w].msg]].status = "answered")'
    BY <1>1, <1>2 DEF FilesOK, TasksOK, TalkOK, FetchedOK, Mine, Same, Talks, Asked, Open
  <2> QED  BY <2>1, <2>2, <2>3, <2>4, <2>5 DEF TalkOK
<1>14. AimsOK'
  <2>1. (\A m \in Messages : msg[m].row # Nil =>
         msg[m].row \in taken /\ msg[m].births \subseteq carries[msg[m].row])'
    BY <1>1, <1>2, <1>3, <1>5, <1>6 DEF FilesOK, TasksOK, RowsOK, AimsOK, SentOK, FetchedOK, Same,
         Talks, Asked, Open
  <2>2. (\A i \in Ids : receipt[i] # Nil => sentFor[receipt[i]] \subseteq carries[i])'
    BY <1>1, <1>2, <1>6 DEF FilesOK, TasksOK, RowsOK, AimsOK, SentOK, FetchedOK, Same, Talks, Asked,
         Open
  <2> QED  BY <2>1, <2>2 DEF AimsOK
<1>15. SentOK'
  <2>1. (\A s \in Screens : Asked(s) => sentFor[draft[s].file] = {})'
    BY <1>1, <1>2 DEF FilesOK, TasksOK, SentOK, FetchedOK, Same, Talks, Asked, Open
  <2>2. (\A w \in Hands : Talks(w) => sentFor[task[w].file] = {})'
    BY <1>1, <1>2 DEF FilesOK, TasksOK, SentOK, FetchedOK, Same, Talks, Asked, Open
  <2>3. (\A w \in Hands : task[w].pc = "fetched" /\ Sort[task[w].msg] = "receipt" =>
         sentFor[task[w].file] = msg[task[w].msg].births)'
    BY <1>1, <1>2, <1>3, <1>6 DEF FilesOK, TasksOK, SentOK, FetchedOK, Same, Talks, Asked, Open
  <2>4. (\A w \in Hands : task[w].pc = "fetched" /\ Sort[task[w].msg] = "screenshot" =>
         sentFor[task[w].file] = {})'
    BY <1>1, <1>2 DEF FilesOK, TasksOK, SentOK, Talks, Asked, Open
  <2>5. (\A f \in 1..MaxFiles : f > files => sentFor[f] = {})'
    BY <1>1, <1>2 DEF FilesOK, TasksOK, SentOK, FetchedOK, Same, Talks, Asked, Open
  <2>6. (\A w \in Hands : task[w].pc = "fetched" => msg[task[w].msg].status # "absent")'
    BY <1>1, <1>2 DEF FilesOK, TasksOK, SentOK, FetchedOK, Same, Talks, Asked, Open
  <2>7. (\A w \in Hands : task[w].pc = "begin" => msg[task[w].msg].status # "absent")'
    BY <1>1, <1>2 DEF FilesOK, TasksOK, SentOK, FetchedOK, Same, Talks, Asked, Open
  <2> QED  BY <2>1, <2>2, <2>3, <2>4, <2>5, <2>6, <2>7 DEF SentOK
<1> QED  BY <1>7, <1>8, <1>9, <1>10, <1>11, <1>12, <1>13, <1>14, <1>15 DEF ReceiptsInv

(* The new row gets the file, and the question is gone. *)
LEMMA YesSavesKeeps ==
  ASSUME ReceiptsInv, NEW c \in Screens, YesSaves(c)
  PROVE  ReceiptsInv'
<1> USE DEF ReceiptsInv
<1>1. Nil \notin 1..files /\ Screens \subseteq Messages /\ (\A m \in Messages : Screen[m] \in Messages)
  BY ReceiptsAssumption DEF FilesOK, Screens
<1>2. UNCHANGED <<disk, files, sentFor, msg, task, torn>>
  BY DEF YesSaves, Insert, disks, rows, At, Free, FilesOK, TasksOK
<1>3. Open(c) /\ draft[c].file \in 1..files /\ sentFor[draft[c].file] = {}
  BY DEF YesSaves, TasksOK, SentOK, Open, Asked
<1>4. births' \in 1..MaxBirths
  BY ReceiptsAssumption DEF YesSaves, Insert, FilesOK
<1>5. PICK k \in Ids : /\ \A j \in taken : j < k
                     /\ taken' = taken \cup {k} /\ isVoid' = [isVoid EXCEPT ![k] = FALSE]
                     /\ receipt' = [receipt EXCEPT ![k] = draft[c].file]
                     /\ carries' = [carries EXCEPT ![k] = {births'}]
  BY DEF YesSaves, Insert
<1>6. k \notin taken /\ taken' = taken \cup {k} /\ receipt[k] = Nil
  BY <1>5, ReceiptsAssumption DEF FilesOK, RowsOK
<1>7. /\ receipt' \in [Ids -> 1..files \cup {Nil}] /\ receipt'[k] = draft[c].file
      /\ (\A i \in Ids : i # k => receipt'[i] = receipt[i])
      /\ isVoid' \in [Ids -> BOOLEAN]
      /\ carries' \in [Ids -> SUBSET (1..MaxBirths)]
      /\ (\A i \in Ids : i # k => carries'[i] = carries[i])
  BY <1>4, <1>5, <1>3 DEF FilesOK
<1>8. /\ draft' = [s \in Screens |-> draft'[s]] /\ draft'[c].file = Nil /\ draft'[c].kind = FALSE
      /\ (\A s \in Screens : s # c => draft'[s] = draft[s])
  BY DEF YesSaves, FilesOK, NoQuestion
<1>9. FilesOK'
  <2>1. (files \in 0..MaxFiles /\ births \in 0..MaxBirths)'
    BY <1>1, <1>2, <1>3, <1>4 DEF FilesOK
  <2>2. (disk \subseteq 1..files /\ torn \subseteq 1..files)'
    BY <1>1, <1>2, <1>3 DEF FilesOK
  <2>3. (receipt \in [Ids -> 1..files \cup {Nil}])'
    BY <1>1, <1>2, <1>3, <1>7 DEF FilesOK, TasksOK
  <2>4. (isVoid \in [Ids -> BOOLEAN])'
    BY <1>1, <1>2, <1>3, <1>7 DEF FilesOK
  <2>5. (carries \in [Ids -> SUBSET (1..MaxBirths)])'
    BY <1>1, <1>2, <1>3, <1>7 DEF FilesOK
  <2>6. (sentFor \in [1..MaxFiles -> SUBSET (1..MaxBirths)])'
    BY <1>1, <1>2, <1>3 DEF FilesOK
  <2>7. (msg \in [Messages -> Turn])'
    BY <1>1, <1>2, <1>3 DEF FilesOK
  <2>8. (taken \subseteq Ids)'
    BY <1>1, <1>2, <1>3, <1>6 DEF FilesOK
  <2>9. (draft = [s \in Screens |-> draft[s]])'
    BY <1>1, <1>2, <1>3, <1>8 DEF FilesOK, Screens
  <2>10. (task = [w \in Hands |-> task[w]])'
    BY <1>1, <1>2, <1>3 DEF FilesOK
  <2> QED  BY <2>1, <2>2, <2>3, <2>4, <2>5, <2>6, <2>7, <2>8, <2>9, <2>10 DEF FilesOK
<1>10. TasksOK'
  <2>1. (\A s \in Screens : draft[s].file \in 1..files \cup {Nil} /\ draft[s].kind \in BOOLEAN)'
    BY <1>1, <1>2, <1>3, <1>8 DEF FilesOK, TasksOK, Talks, Asked, Open
  <2>2. (\A s \in Screens : draft[s].kind => Asked(s))'
    BY <1>1, <1>2, <1>3, <1>8 DEF FilesOK, TasksOK, Talks, Asked, Open
  <2>3. (\A w \in Hands : task[w].file \in 1..files \cup {Nil})'
    BY <1>1, <1>2, <1>3 DEF FilesOK, TasksOK, Talks, Asked, Open
  <2>4. (\A w \in Hands : task[w].pc \in {"begin", "fetched", "heard", "reviewed"} =>
         task[w].msg \in Messages)'
    BY <1>1, <1>2, <1>3 DEF FilesOK, TasksOK, Talks, Asked, Open
  <2>5. (\A w \in Hands : task[w].pc \in {"clean", "fetched", "heard", "reviewed"} =>
         task[w].file # Nil)'
    BY <1>1, <1>2, <1>3 DEF FilesOK, TasksOK, Talks, Asked, Open
  <2>6. (\A w \in Hands : Talks(w) => Sort[task[w].msg] = "reply")'
    BY <1>1, <1>2, <1>3 DEF FilesOK, TasksOK, Talks, Asked, Open
  <2>7. (\A w \in Hands : task[w].pc = "fetched" => Sort[task[w].msg] \in {"receipt", "screenshot"})'
    BY <1>1, <1>2, <1>3, <1>7 DEF FilesOK, TasksOK, Talks, Asked, Open
  <2> QED  BY <2>1, <2>2, <2>3, <2>4, <2>5, <2>6, <2>7 DEF TasksOK
<1>11. RowsOK'
  <2>1. (\A i \in Ids : receipt[i] \in disk \cup torn \cup {Nil})'
    BY <1>1, <1>2, <1>3, <1>7 DEF FilesOK, TasksOK, RowsOK, FetchedOK, CleaningOK, QuestionsOK, Talks,
         Asked, Open
  <2>2. (\A i, j \in Ids : receipt[i] = receipt[j] /\ i # j => receipt[i] = Nil)'
    BY <1>1, <1>2, <1>3, <1>7 DEF FilesOK, TasksOK, RowsOK, FetchedOK, CleaningOK, QuestionsOK, Talks,
         Asked, Open
  <2>3. (\A i \in Ids : i \notin taken => receipt[i] = Nil)'
    BY <1>1, <1>2, <1>3, <1>6, <1>7 DEF FilesOK, TasksOK, RowsOK, FetchedOK, CleaningOK, QuestionsOK,
         Talks, Asked, Open
  <2> QED  BY <2>1, <2>2, <2>3 DEF RowsOK
<1>12. QuestionsOK'
  <2>1. (\A s \in Screens : Open(s) => draft[s].file \in disk \cup torn)'
    BY <1>1, <1>2, <1>3, <1>8 DEF FilesOK, TasksOK, QuestionsOK, FetchedOK, CleaningOK, TalkOK, Talks,
         Asked, Open
  <2>2. (\A s \in Screens, i \in Ids : Open(s) => receipt[i] # draft[s].file)'
    BY <1>1, <1>2, <1>3, <1>7, <1>8 DEF FilesOK, TasksOK, QuestionsOK, FetchedOK, CleaningOK, TalkOK,
         Talks, Asked, Open
  <2> QED  BY <2>1, <2>2 DEF QuestionsOK
<1>13. FetchedOK'
  <2>1. (\A w \in Hands : task[w].pc = "fetched" => task[w].file \in disk)'
    BY <1>1, <1>2, <1>3 DEF FilesOK, TasksOK, RowsOK, FetchedOK, Talks, Asked, Open
  <2>2. (\A w \in Hands, i \in Ids : task[w].pc = "fetched" => receipt[i] # task[w].file)'
    BY <1>1, <1>2, <1>3, <1>7 DEF FilesOK, TasksOK, RowsOK, FetchedOK, Talks, Asked, Open
  <2>3. (\A w \in Hands, s \in Screens : task[w].pc = "fetched" /\ Asked(s) =>
         draft[s].file # task[w].file)'
    BY <1>1, <1>2, <1>3, <1>8 DEF FilesOK, TasksOK, RowsOK, FetchedOK, Talks, Asked, Open
  <2>4. (\A v, w \in Hands : task[w].pc = "fetched" /\ v # w => task[v].file # task[w].file)'
    BY <1>1, <1>2, <1>3 DEF FilesOK, TasksOK, RowsOK, FetchedOK, Talks, Asked, Open
  <2> QED  BY <2>1, <2>2, <2>3, <2>4 DEF FetchedOK
<1>14. CleaningOK'
  <2>1. (\A w \in Hands, i \in Ids : task[w].pc = "clean" => receipt[i] # task[w].file)'
    BY <1>1, <1>2, <1>3, <1>7 DEF FilesOK, TasksOK, RowsOK, QuestionsOK, FetchedOK, CleaningOK, TalkOK,
         Talks, Asked, Open
  <2>2. (\A w \in Hands, s \in Screens : task[w].pc = "clean" /\ Open(s) =>
         draft[s].file # task[w].file)'
    BY <1>1, <1>2, <1>3, <1>8 DEF FilesOK, TasksOK, RowsOK, QuestionsOK, FetchedOK, CleaningOK, TalkOK,
         Talks, Asked, Open
  <2> QED  BY <2>1, <2>2 DEF CleaningOK
<1>15. TalkOK'
  <2>1. (\A r, s \in Screens : Asked(r) /\ Asked(s) /\ r # s => draft[r].file # draft[s].file)'
    BY <1>1, <1>2, <1>3, <1>8 DEF FilesOK, TasksOK, TalkOK, FetchedOK, Mine, Same, Talks, Asked, Open
  <2>2. (\A w \in Hands, s \in Screens : Talks(w) /\ Asked(s) =>
         (draft[s].file = task[w].file <=> s = Screen[task[w].msg]))'
    BY <1>1, <1>2, <1>3, <1>8 DEF FilesOK, TasksOK, TalkOK, FetchedOK, Mine, Same, Talks, Asked, Open
  <2>3. (\A v, w \in Hands : Talks(v) /\ Talks(w) =>
         (task[v].file = task[w].file <=> Screen[task[v].msg] = Screen[task[w].msg]))'
    BY <1>1, <1>2, <1>3 DEF FilesOK, TasksOK, TalkOK, FetchedOK, Mine, Same, Talks, Asked, Open
  <2>4. (\A s \in Screens : Asked(s) => msg[s].status = "answered")'
    BY <1>1, <1>2, <1>3, <1>8 DEF FilesOK, TasksOK, TalkOK, FetchedOK, Mine, Same, Talks, Asked, Open
  <2>5. (\A w \in Hands : Talks(w) => msg[Screen[task[w].msg]].status = "answered")'
    BY <1>1, <1>2, <1>3 DEF FilesOK, TasksOK, TalkOK, FetchedOK, Mine, Same, Talks, Asked, Open
  <2> QED  BY <2>1, <2>2, <2>3, <2>4, <2>5 DEF TalkOK
<1>16. AimsOK'
  <2>1. (\A m \in Messages : msg[m].row # Nil =>
         msg[m].row \in taken /\ msg[m].births \subseteq carries[msg[m].row])'
    BY <1>1, <1>2, <1>3, <1>4, <1>6, <1>7 DEF FilesOK, TasksOK, RowsOK, AimsOK, SentOK, FetchedOK,
         Same, Talks, Asked, Open
  <2>2. (\A i \in Ids : receipt[i] # Nil => sentFor[receipt[i]] \subseteq carries[i])'
    <3>1. \A j \in Ids : receipt[j] # Nil => sentFor[receipt[j]] \subseteq carries[j]
      BY DEF AimsOK
    <3>2. sentFor[draft[c].file] = {}
      BY <1>3 DEF SentOK, Open
    <3> TAKE i \in Ids
    <3>3. CASE i = k
      BY <3>2, <3>3, <1>2, <1>7
    <3>4. CASE i # k
      BY <3>1, <3>4, <1>2, <1>7
    <3> QED  BY <3>3, <3>4
  <2> QED  BY <2>1, <2>2 DEF AimsOK
<1>17. SentOK'
  <2>1. (\A s \in Screens : Asked(s) => sentFor[draft[s].file] = {})'
    <3>1. \A s \in Screens : Asked(s) => sentFor[draft[s].file] = {}
      BY DEF SentOK
    <3> SUFFICES ASSUME NEW s \in Screens, Asked(s)'
                 PROVE  sentFor'[draft'[s].file] = {}
      BY DEF Asked, Talks
    <3> QED  BY <3>1, <1>1, <1>2, <1>3, <1>4, <1>6, <1>7, <1>8 DEF Asked, Open, Talks
  <2>2. (\A w \in Hands : Talks(w) => sentFor[task[w].file] = {})'
    BY <1>1, <1>2, <1>3 DEF FilesOK, TasksOK, SentOK, FetchedOK, Same, Talks, Asked, Open
  <2>3. (\A w \in Hands : task[w].pc = "fetched" /\ Sort[task[w].msg] = "receipt" =>
         sentFor[task[w].file] = msg[task[w].msg].births)'
    BY <1>1, <1>2, <1>3, <1>4, <1>7 DEF FilesOK, TasksOK, SentOK, FetchedOK, Same, Talks, Asked, Open
  <2>4. (\A w \in Hands : task[w].pc = "fetched" /\ Sort[task[w].msg] = "screenshot" =>
         sentFor[task[w].file] = {})'
    BY <1>1, <1>2, <1>3 DEF FilesOK, TasksOK, SentOK, Talks, Asked, Open
  <2>5. (\A f \in 1..MaxFiles : f > files => sentFor[f] = {})'
    BY <1>1, <1>2, <1>3 DEF FilesOK, TasksOK, SentOK, FetchedOK, Same, Talks, Asked, Open
  <2>6. (\A w \in Hands : task[w].pc = "fetched" => msg[task[w].msg].status # "absent")'
    BY <1>1, <1>2, <1>3 DEF FilesOK, TasksOK, SentOK, FetchedOK, Same, Talks, Asked, Open
  <2>7. (\A w \in Hands : task[w].pc = "begin" => msg[task[w].msg].status # "absent")'
    BY <1>1, <1>2, <1>3 DEF FilesOK, TasksOK, SentOK, FetchedOK, Same, Talks, Asked, Open
  <2> QED  BY <2>1, <2>2, <2>3, <2>4, <2>5, <2>6, <2>7 DEF SentOK
<1> QED  BY <1>9, <1>10, <1>11, <1>12, <1>13, <1>14, <1>15, <1>16, <1>17 DEF ReceiptsInv

(* A flag moves no file. *)
LEMMA VoidKeeps ==
  ASSUME ReceiptsInv, NEW k \in Ids, Void(k)
  PROVE  ReceiptsInv'
<1> USE DEF ReceiptsInv
<1>1. Nil \notin 1..files /\ Screens \subseteq Messages /\ (\A m \in Messages : Screen[m] \in Messages)
  BY ReceiptsAssumption DEF FilesOK, Screens
<1>2. UNCHANGED <<disk, files, sentFor, taken, says, receipt, births, carries, msg, draft, task, torn>>
  BY DEF Void, disks, rows, At, Free, FilesOK, TasksOK
<1>3. isVoid' \in [Ids -> BOOLEAN]
  BY DEF Void, FilesOK
<1>4. FilesOK'
  <2>1. (files \in 0..MaxFiles /\ births \in 0..MaxBirths)'
    BY <1>1, <1>2 DEF FilesOK
  <2>2. (disk \subseteq 1..files /\ torn \subseteq 1..files)'
    BY <1>1, <1>2 DEF FilesOK
  <2>3. (receipt \in [Ids -> 1..files \cup {Nil}])'
    BY <1>1, <1>2 DEF FilesOK, TasksOK
  <2>4. (isVoid \in [Ids -> BOOLEAN])'
    BY <1>1, <1>2, <1>3 DEF FilesOK
  <2>5. (carries \in [Ids -> SUBSET (1..MaxBirths)])'
    BY <1>1, <1>2 DEF FilesOK
  <2>6. (sentFor \in [1..MaxFiles -> SUBSET (1..MaxBirths)])'
    BY <1>1, <1>2 DEF FilesOK
  <2>7. (msg \in [Messages -> Turn])'
    BY <1>1, <1>2 DEF FilesOK
  <2>8. (taken \subseteq Ids)'
    BY <1>1, <1>2 DEF FilesOK
  <2>9. (draft = [s \in Screens |-> draft[s]])'
    BY <1>1, <1>2 DEF FilesOK, Screens
  <2>10. (task = [w \in Hands |-> task[w]])'
    BY <1>1, <1>2 DEF FilesOK
  <2> QED  BY <2>1, <2>2, <2>3, <2>4, <2>5, <2>6, <2>7, <2>8, <2>9, <2>10 DEF FilesOK
<1>5. TasksOK'
  <2>1. (\A s \in Screens : draft[s].file \in 1..files \cup {Nil} /\ draft[s].kind \in BOOLEAN)'
    BY <1>1, <1>2 DEF FilesOK, TasksOK, Talks, Asked, Open
  <2>2. (\A s \in Screens : draft[s].kind => Asked(s))'
    BY <1>1, <1>2 DEF FilesOK, TasksOK, Talks, Asked, Open
  <2>3. (\A w \in Hands : task[w].file \in 1..files \cup {Nil})'
    BY <1>1, <1>2 DEF FilesOK, TasksOK, Talks, Asked, Open
  <2>4. (\A w \in Hands : task[w].pc \in {"begin", "fetched", "heard", "reviewed"} =>
         task[w].msg \in Messages)'
    BY <1>1, <1>2 DEF FilesOK, TasksOK, Talks, Asked, Open
  <2>5. (\A w \in Hands : task[w].pc \in {"clean", "fetched", "heard", "reviewed"} =>
         task[w].file # Nil)'
    BY <1>1, <1>2 DEF FilesOK, TasksOK, Talks, Asked, Open
  <2>6. (\A w \in Hands : Talks(w) => Sort[task[w].msg] = "reply")'
    BY <1>1, <1>2 DEF FilesOK, TasksOK, Talks, Asked, Open
  <2>7. (\A w \in Hands : task[w].pc = "fetched" => Sort[task[w].msg] \in {"receipt", "screenshot"})'
    BY <1>1, <1>2 DEF FilesOK, TasksOK, Talks, Asked, Open
  <2> QED  BY <2>1, <2>2, <2>3, <2>4, <2>5, <2>6, <2>7 DEF TasksOK
<1>6. RowsOK'
  <2>1. (\A i \in Ids : receipt[i] \in disk \cup torn \cup {Nil})'
    BY <1>1, <1>2 DEF FilesOK, TasksOK, RowsOK, FetchedOK, CleaningOK, QuestionsOK, Talks, Asked, Open
  <2>2. (\A i, j \in Ids : receipt[i] = receipt[j] /\ i # j => receipt[i] = Nil)'
    BY <1>1, <1>2 DEF FilesOK, TasksOK, RowsOK, FetchedOK, CleaningOK, QuestionsOK, Talks, Asked, Open
  <2>3. (\A i \in Ids : i \notin taken => receipt[i] = Nil)'
    BY <1>1, <1>2 DEF FilesOK, TasksOK, RowsOK, FetchedOK, CleaningOK, QuestionsOK, Talks, Asked, Open
  <2> QED  BY <2>1, <2>2, <2>3 DEF RowsOK
<1>7. QuestionsOK'
  <2>1. (\A s \in Screens : Open(s) => draft[s].file \in disk \cup torn)'
    BY <1>1, <1>2 DEF FilesOK, TasksOK, QuestionsOK, FetchedOK, CleaningOK, TalkOK, Talks, Asked, Open
  <2>2. (\A s \in Screens, i \in Ids : Open(s) => receipt[i] # draft[s].file)'
    BY <1>1, <1>2 DEF FilesOK, TasksOK, QuestionsOK, FetchedOK, CleaningOK, TalkOK, Talks, Asked, Open
  <2> QED  BY <2>1, <2>2 DEF QuestionsOK
<1>8. FetchedOK'
  <2>1. (\A w \in Hands : task[w].pc = "fetched" => task[w].file \in disk)'
    BY <1>1, <1>2 DEF FilesOK, TasksOK, RowsOK, FetchedOK, Talks, Asked, Open
  <2>2. (\A w \in Hands, i \in Ids : task[w].pc = "fetched" => receipt[i] # task[w].file)'
    BY <1>1, <1>2 DEF FilesOK, TasksOK, RowsOK, FetchedOK, Talks, Asked, Open
  <2>3. (\A w \in Hands, s \in Screens : task[w].pc = "fetched" /\ Asked(s) =>
         draft[s].file # task[w].file)'
    BY <1>1, <1>2 DEF FilesOK, TasksOK, RowsOK, FetchedOK, Talks, Asked, Open
  <2>4. (\A v, w \in Hands : task[w].pc = "fetched" /\ v # w => task[v].file # task[w].file)'
    BY <1>1, <1>2 DEF FilesOK, TasksOK, RowsOK, FetchedOK, Talks, Asked, Open
  <2> QED  BY <2>1, <2>2, <2>3, <2>4 DEF FetchedOK
<1>9. CleaningOK'
  <2>1. (\A w \in Hands, i \in Ids : task[w].pc = "clean" => receipt[i] # task[w].file)'
    BY <1>1, <1>2 DEF FilesOK, TasksOK, RowsOK, QuestionsOK, FetchedOK, CleaningOK, TalkOK, Talks,
         Asked, Open
  <2>2. (\A w \in Hands, s \in Screens : task[w].pc = "clean" /\ Open(s) =>
         draft[s].file # task[w].file)'
    BY <1>1, <1>2 DEF FilesOK, TasksOK, RowsOK, QuestionsOK, FetchedOK, CleaningOK, TalkOK, Talks,
         Asked, Open
  <2> QED  BY <2>1, <2>2 DEF CleaningOK
<1>10. TalkOK'
  <2>1. (\A r, s \in Screens : Asked(r) /\ Asked(s) /\ r # s => draft[r].file # draft[s].file)'
    BY <1>1, <1>2 DEF FilesOK, TasksOK, TalkOK, FetchedOK, Mine, Same, Talks, Asked, Open
  <2>2. (\A w \in Hands, s \in Screens : Talks(w) /\ Asked(s) =>
         (draft[s].file = task[w].file <=> s = Screen[task[w].msg]))'
    BY <1>1, <1>2 DEF FilesOK, TasksOK, TalkOK, FetchedOK, Mine, Same, Talks, Asked, Open
  <2>3. (\A v, w \in Hands : Talks(v) /\ Talks(w) =>
         (task[v].file = task[w].file <=> Screen[task[v].msg] = Screen[task[w].msg]))'
    BY <1>1, <1>2 DEF FilesOK, TasksOK, TalkOK, FetchedOK, Mine, Same, Talks, Asked, Open
  <2>4. (\A s \in Screens : Asked(s) => msg[s].status = "answered")'
    BY <1>1, <1>2 DEF FilesOK, TasksOK, TalkOK, FetchedOK, Mine, Same, Talks, Asked, Open
  <2>5. (\A w \in Hands : Talks(w) => msg[Screen[task[w].msg]].status = "answered")'
    BY <1>1, <1>2 DEF FilesOK, TasksOK, TalkOK, FetchedOK, Mine, Same, Talks, Asked, Open
  <2> QED  BY <2>1, <2>2, <2>3, <2>4, <2>5 DEF TalkOK
<1>11. AimsOK'
  <2>1. (\A m \in Messages : msg[m].row # Nil =>
         msg[m].row \in taken /\ msg[m].births \subseteq carries[msg[m].row])'
    BY <1>1, <1>2 DEF FilesOK, TasksOK, RowsOK, AimsOK, SentOK, FetchedOK, Same, Talks, Asked, Open
  <2>2. (\A i \in Ids : receipt[i] # Nil => sentFor[receipt[i]] \subseteq carries[i])'
    BY <1>1, <1>2 DEF FilesOK, TasksOK, RowsOK, AimsOK, SentOK, FetchedOK, Same, Talks, Asked, Open
  <2> QED  BY <2>1, <2>2 DEF AimsOK
<1>12. SentOK'
  <2>1. (\A s \in Screens : Asked(s) => sentFor[draft[s].file] = {})'
    BY <1>1, <1>2 DEF FilesOK, TasksOK, SentOK, FetchedOK, Same, Talks, Asked, Open
  <2>2. (\A w \in Hands : Talks(w) => sentFor[task[w].file] = {})'
    BY <1>1, <1>2 DEF FilesOK, TasksOK, SentOK, FetchedOK, Same, Talks, Asked, Open
  <2>3. (\A w \in Hands : task[w].pc = "fetched" /\ Sort[task[w].msg] = "receipt" =>
         sentFor[task[w].file] = msg[task[w].msg].births)'
    BY <1>1, <1>2 DEF FilesOK, TasksOK, SentOK, FetchedOK, Same, Talks, Asked, Open
  <2>4. (\A w \in Hands : task[w].pc = "fetched" /\ Sort[task[w].msg] = "screenshot" =>
         sentFor[task[w].file] = {})'
    BY <1>1, <1>2 DEF FilesOK, TasksOK, SentOK, Talks, Asked, Open
  <2>5. (\A f \in 1..MaxFiles : f > files => sentFor[f] = {})'
    BY <1>1, <1>2 DEF FilesOK, TasksOK, SentOK, FetchedOK, Same, Talks, Asked, Open
  <2>6. (\A w \in Hands : task[w].pc = "fetched" => msg[task[w].msg].status # "absent")'
    BY <1>1, <1>2 DEF FilesOK, TasksOK, SentOK, FetchedOK, Same, Talks, Asked, Open
  <2>7. (\A w \in Hands : task[w].pc = "begin" => msg[task[w].msg].status # "absent")'
    BY <1>1, <1>2 DEF FilesOK, TasksOK, SentOK, FetchedOK, Same, Talks, Asked, Open
  <2> QED  BY <2>1, <2>2, <2>3, <2>4, <2>5, <2>6, <2>7 DEF SentOK
<1> QED  BY <1>4, <1>5, <1>6, <1>7, <1>8, <1>9, <1>10, <1>11, <1>12 DEF ReceiptsInv

(* Only a row without a file is deleted. *)
LEMMA DeleteKeeps ==
  ASSUME ReceiptsInv, NEW k \in Ids, Delete(k)
  PROVE  ReceiptsInv'
<1> USE DEF ReceiptsInv
<1>1. Nil \notin 1..files /\ Screens \subseteq Messages /\ (\A m \in Messages : Screen[m] \in Messages)
  BY ReceiptsAssumption DEF FilesOK, Screens
<1>2. UNCHANGED <<disk, files, sentFor, says, isVoid, receipt, births, task, torn>>
  BY DEF Delete, MoveReferences, disks, rows, At, Free, FilesOK, TasksOK
<1>3. k \in taken /\ receipt[k] = Nil /\ taken' = taken \ {k} /\ carries' = [carries EXCEPT ![k] = {}]
  BY DEF Delete
<1>4. k \in taken /\ receipt[k] = Nil /\ taken' = taken \ {k}
  BY <1>3
<1>5. carries' \in [Ids -> SUBSET (1..MaxBirths)] /\ (\A i \in Ids : i # k => carries'[i] = carries[i])
  BY <1>3 DEF FilesOK
<1>6. /\ msg' = [m \in Messages |-> msg'[m]]
      /\ (\A m \in Messages : msg'[m] = IF msg[m].row = k THEN [msg[m] EXCEPT !.row = Nil] ELSE msg[m])
  BY DEF Delete, MoveReferences
<1>7. \A m \in Messages : /\ msg'[m] \in Turn /\ msg'[m].births = msg[m].births
        /\ msg'[m].status = msg[m].status
                           /\ msg'[m].row = IF msg[m].row = k THEN Nil ELSE msg[m].row
  <2> TAKE m \in Messages
  <2>1. msg[m] \in Turn
    BY DEF FilesOK
  <2>2. CASE msg[m].row = k
    BY <1>6, <2>1, <2>2, <1>1 DEF Turn
  <2>3. CASE msg[m].row # k
    BY <1>6, <2>1, <2>3
  <2> QED  BY <2>2, <2>3
<1>8. msg' \in [Messages -> Turn]
  BY <1>6, <1>7
<1>9. /\ draft' = [s \in Screens |-> draft'[s]]
      /\ (\A s \in Screens : draft'[s] # draft[s] => draft'[s].file = Nil /\ draft'[s].kind = FALSE)
  BY DEF Delete, MoveReferences, FilesOK, NoQuestion
<1>10. FilesOK'
  <2>1. (files \in 0..MaxFiles /\ births \in 0..MaxBirths)'
    BY <1>1, <1>2 DEF FilesOK
  <2>2. (disk \subseteq 1..files /\ torn \subseteq 1..files)'
    BY <1>1, <1>2 DEF FilesOK
  <2>3. (receipt \in [Ids -> 1..files \cup {Nil}])'
    BY <1>1, <1>2 DEF FilesOK, TasksOK
  <2>4. (isVoid \in [Ids -> BOOLEAN])'
    BY <1>1, <1>2 DEF FilesOK
  <2>5. (carries \in [Ids -> SUBSET (1..MaxBirths)])'
    BY <1>1, <1>2, <1>5 DEF FilesOK
  <2>6. (sentFor \in [1..MaxFiles -> SUBSET (1..MaxBirths)])'
    BY <1>1, <1>2 DEF FilesOK
  <2>7. (msg \in [Messages -> Turn])'
    BY <1>1, <1>2, <1>7, <1>8 DEF FilesOK
  <2>8. (taken \subseteq Ids)'
    BY <1>1, <1>2, <1>4 DEF FilesOK
  <2>9. (draft = [s \in Screens |-> draft[s]])'
    BY <1>1, <1>2, <1>9 DEF FilesOK, Screens
  <2>10. (task = [w \in Hands |-> task[w]])'
    BY <1>1, <1>2 DEF FilesOK
  <2> QED  BY <2>1, <2>2, <2>3, <2>4, <2>5, <2>6, <2>7, <2>8, <2>9, <2>10 DEF FilesOK
<1>11. TasksOK'
  <2>1. (\A s \in Screens : draft[s].file \in 1..files \cup {Nil} /\ draft[s].kind \in BOOLEAN)'
    BY <1>1, <1>2, <1>9 DEF FilesOK, TasksOK, Talks, Asked, Open
  <2>2. (\A s \in Screens : draft[s].kind => Asked(s))'
    BY <1>1, <1>2, <1>9 DEF FilesOK, TasksOK, Talks, Asked, Open
  <2>3. (\A w \in Hands : task[w].file \in 1..files \cup {Nil})'
    BY <1>1, <1>2 DEF FilesOK, TasksOK, Talks, Asked, Open
  <2>4. (\A w \in Hands : task[w].pc \in {"begin", "fetched", "heard", "reviewed"} =>
         task[w].msg \in Messages)'
    BY <1>1, <1>2, <1>7, <1>8 DEF FilesOK, TasksOK, Talks, Asked, Open
  <2>5. (\A w \in Hands : task[w].pc \in {"clean", "fetched", "heard", "reviewed"} =>
         task[w].file # Nil)'
    BY <1>1, <1>2 DEF FilesOK, TasksOK, Talks, Asked, Open
  <2>6. (\A w \in Hands : Talks(w) => Sort[task[w].msg] = "reply")'
    BY <1>1, <1>2, <1>7, <1>8 DEF FilesOK, TasksOK, Talks, Asked, Open
  <2>7. (\A w \in Hands : task[w].pc = "fetched" => Sort[task[w].msg] \in {"receipt", "screenshot"})'
    BY <1>1, <1>2, <1>7, <1>8 DEF FilesOK, TasksOK, Talks, Asked, Open
  <2> QED  BY <2>1, <2>2, <2>3, <2>4, <2>5, <2>6, <2>7 DEF TasksOK
<1>12. RowsOK'
  <2>1. (\A i \in Ids : receipt[i] \in disk \cup torn \cup {Nil})'
    BY <1>1, <1>2 DEF FilesOK, TasksOK, RowsOK, FetchedOK, CleaningOK, QuestionsOK, Talks, Asked, Open
  <2>2. (\A i, j \in Ids : receipt[i] = receipt[j] /\ i # j => receipt[i] = Nil)'
    BY <1>1, <1>2 DEF FilesOK, TasksOK, RowsOK, FetchedOK, CleaningOK, QuestionsOK, Talks, Asked, Open
  <2>3. (\A i \in Ids : i \notin taken => receipt[i] = Nil)'
    BY <1>1, <1>2, <1>4 DEF FilesOK, TasksOK, RowsOK, FetchedOK, CleaningOK, QuestionsOK, Talks, Asked,
         Open
  <2> QED  BY <2>1, <2>2, <2>3 DEF RowsOK
<1>13. QuestionsOK'
  <2>1. (\A s \in Screens : Open(s) => draft[s].file \in disk \cup torn)'
    BY <1>1, <1>2, <1>9 DEF FilesOK, TasksOK, QuestionsOK, FetchedOK, CleaningOK, TalkOK, Talks, Asked,
         Open
  <2>2. (\A s \in Screens, i \in Ids : Open(s) => receipt[i] # draft[s].file)'
    BY <1>1, <1>2, <1>9 DEF FilesOK, TasksOK, QuestionsOK, FetchedOK, CleaningOK, TalkOK, Talks, Asked,
         Open
  <2> QED  BY <2>1, <2>2 DEF QuestionsOK
<1>14. FetchedOK'
  <2>1. (\A w \in Hands : task[w].pc = "fetched" => task[w].file \in disk)'
    BY <1>1, <1>2 DEF FilesOK, TasksOK, RowsOK, FetchedOK, Talks, Asked, Open
  <2>2. (\A w \in Hands, i \in Ids : task[w].pc = "fetched" => receipt[i] # task[w].file)'
    BY <1>1, <1>2 DEF FilesOK, TasksOK, RowsOK, FetchedOK, Talks, Asked, Open
  <2>3. (\A w \in Hands, s \in Screens : task[w].pc = "fetched" /\ Asked(s) =>
         draft[s].file # task[w].file)'
    BY <1>1, <1>2, <1>9 DEF FilesOK, TasksOK, RowsOK, FetchedOK, Talks, Asked, Open
  <2>4. (\A v, w \in Hands : task[w].pc = "fetched" /\ v # w => task[v].file # task[w].file)'
    BY <1>1, <1>2 DEF FilesOK, TasksOK, RowsOK, FetchedOK, Talks, Asked, Open
  <2> QED  BY <2>1, <2>2, <2>3, <2>4 DEF FetchedOK
<1>15. CleaningOK'
  <2>1. (\A w \in Hands, i \in Ids : task[w].pc = "clean" => receipt[i] # task[w].file)'
    BY <1>1, <1>2 DEF FilesOK, TasksOK, RowsOK, QuestionsOK, FetchedOK, CleaningOK, TalkOK, Talks,
         Asked, Open
  <2>2. (\A w \in Hands, s \in Screens : task[w].pc = "clean" /\ Open(s) =>
         draft[s].file # task[w].file)'
    BY <1>1, <1>2, <1>9 DEF FilesOK, TasksOK, RowsOK, QuestionsOK, FetchedOK, CleaningOK, TalkOK,
         Talks, Asked, Open
  <2> QED  BY <2>1, <2>2 DEF CleaningOK
<1>16. TalkOK'
  <2>1. (\A r, s \in Screens : Asked(r) /\ Asked(s) /\ r # s => draft[r].file # draft[s].file)'
    BY <1>1, <1>2, <1>9 DEF FilesOK, TasksOK, TalkOK, FetchedOK, Mine, Same, Talks, Asked, Open
  <2>2. (\A w \in Hands, s \in Screens : Talks(w) /\ Asked(s) =>
         (draft[s].file = task[w].file <=> s = Screen[task[w].msg]))'
    BY <1>1, <1>2, <1>7, <1>8, <1>9 DEF FilesOK, TasksOK, TalkOK, FetchedOK, Mine, Same, Talks, Asked,
         Open
  <2>3. (\A v, w \in Hands : Talks(v) /\ Talks(w) =>
         (task[v].file = task[w].file <=> Screen[task[v].msg] = Screen[task[w].msg]))'
    BY <1>1, <1>2, <1>7, <1>8 DEF FilesOK, TasksOK, TalkOK, FetchedOK, Mine, Same, Talks, Asked, Open
  <2>4. (\A s \in Screens : Asked(s) => msg[s].status = "answered")'
    BY <1>1, <1>2, <1>7, <1>8, <1>9 DEF FilesOK, TasksOK, TalkOK, FetchedOK, Mine, Same, Talks, Asked,
         Open
  <2>5. (\A w \in Hands : Talks(w) => msg[Screen[task[w].msg]].status = "answered")'
    BY <1>1, <1>2, <1>7, <1>8 DEF FilesOK, TasksOK, TalkOK, FetchedOK, Mine, Same, Talks, Asked, Open
  <2> QED  BY <2>1, <2>2, <2>3, <2>4, <2>5 DEF TalkOK
<1>17. AimsOK'
  <2>1. (\A m \in Messages : msg[m].row # Nil =>
         msg[m].row \in taken /\ msg[m].births \subseteq carries[msg[m].row])'
    BY <1>1, <1>2, <1>4, <1>5, <1>7, <1>8 DEF FilesOK, TasksOK, RowsOK, AimsOK, SentOK, FetchedOK,
         Same, Talks, Asked, Open
  <2>2. (\A i \in Ids : receipt[i] # Nil => sentFor[receipt[i]] \subseteq carries[i])'
    BY <1>1, <1>2, <1>4, <1>5, <1>7, <1>8, <1>9 DEF FilesOK, TasksOK, RowsOK, AimsOK, SentOK,
         FetchedOK, Same, Talks, Asked, Open
  <2> QED  BY <2>1, <2>2 DEF AimsOK
<1>18. SentOK'
  <2>1. (\A s \in Screens : Asked(s) => sentFor[draft[s].file] = {})'
    <3>1. \A s \in Screens : Asked(s) => sentFor[draft[s].file] = {}
      BY DEF SentOK
    <3> SUFFICES ASSUME NEW s \in Screens, Asked(s)'
                 PROVE  sentFor'[draft'[s].file] = {}
      BY DEF Asked, Talks
    <3> QED  BY <3>1, <1>1, <1>2, <1>4, <1>5, <1>7, <1>8, <1>9 DEF Asked, Open, Talks
  <2>2. (\A w \in Hands : Talks(w) => sentFor[task[w].file] = {})'
    BY <1>1, <1>2 DEF FilesOK, TasksOK, SentOK, FetchedOK, Same, Talks, Asked, Open
  <2>3. (\A w \in Hands : task[w].pc = "fetched" /\ Sort[task[w].msg] = "receipt" =>
         sentFor[task[w].file] = msg[task[w].msg].births)'
    BY <1>1, <1>2, <1>7, <1>8 DEF FilesOK, TasksOK, SentOK, FetchedOK, Same, Talks, Asked, Open
  <2>4. (\A w \in Hands : task[w].pc = "fetched" /\ Sort[task[w].msg] = "screenshot" =>
         sentFor[task[w].file] = {})'
    BY <1>1, <1>2, <1>7, <1>8 DEF FilesOK, TasksOK, SentOK, Talks, Asked, Open
  <2>5. (\A f \in 1..MaxFiles : f > files => sentFor[f] = {})'
    BY <1>1, <1>2 DEF FilesOK, TasksOK, SentOK, FetchedOK, Same, Talks, Asked, Open
  <2>6. (\A w \in Hands : task[w].pc = "fetched" => msg[task[w].msg].status # "absent")'
    BY <1>1, <1>2, <1>7, <1>8 DEF FilesOK, TasksOK, SentOK, FetchedOK, Same, Talks, Asked, Open
  <2>7. (\A w \in Hands : task[w].pc = "begin" => msg[task[w].msg].status # "absent")'
    BY <1>1, <1>2, <1>7, <1>8 DEF FilesOK, TasksOK, SentOK, FetchedOK, Same, Talks, Asked, Open
  <2> QED  BY <2>1, <2>2, <2>3, <2>4, <2>5, <2>6, <2>7 DEF SentOK
<1> QED  BY <1>10, <1>11, <1>12, <1>13, <1>14, <1>15, <1>16, <1>17, <1>18 DEF ReceiptsInv

(* The row that stays stands for both and has a file of theirs. *)
LEMMA FoldKeeps ==
  ASSUME ReceiptsInv, NEW n \in Ids, NEW k \in Ids, Fold(n, k)
  PROVE  ReceiptsInv'
<1> USE DEF ReceiptsInv
<1>1. Nil \notin 1..files /\ Screens \subseteq Messages /\ (\A m \in Messages : Screen[m] \in Messages)
  BY ReceiptsAssumption DEF FilesOK, Screens
<1>2. UNCHANGED <<disk, files, sentFor, says, isVoid, births, task, torn>>
  BY DEF Fold, MoveReferences, disks, rows, At, Free, FilesOK, TasksOK
<1>3. /\ receipt' = [receipt EXCEPT ![k] = Nil, ![n] = IF receipt[n] = Nil THEN receipt[k] ELSE receipt[n]]
      /\ carries' = [carries EXCEPT ![k] = {}, ![n] = carries[n] \cup carries[k]]
  BY DEF Fold, FilesOK
<1>4. n # k /\ n \in taken /\ k \in taken /\ taken' = taken \ {k}
  BY DEF Fold
<1>5. /\ receipt' \in [Ids -> 1..files \cup {Nil}] /\ receipt'[k] = Nil
      /\ receipt'[n] = (IF receipt[n] = Nil THEN receipt[k] ELSE receipt[n])
      /\ (\A i \in Ids : i \notin {n, k} => receipt'[i] = receipt[i])
  BY <1>3, <1>4 DEF FilesOK
<1>6. /\ carries' \in [Ids -> SUBSET (1..MaxBirths)] /\ carries'[n] = carries[n] \cup carries[k]
      /\ (\A i \in Ids : i \notin {n, k} => carries'[i] = carries[i])
  BY <1>3, <1>4 DEF FilesOK
<1>7. /\ msg' = [m \in Messages |-> msg'[m]]
      /\ (\A m \in Messages : msg'[m] = IF msg[m].row = k THEN [msg[m] EXCEPT !.row = n] ELSE msg[m])
  BY DEF Fold, MoveReferences
<1>8. \A m \in Messages : /\ msg'[m] \in Turn /\ msg'[m].births = msg[m].births
        /\ msg'[m].status = msg[m].status
                           /\ msg'[m].row = IF msg[m].row = k THEN n ELSE msg[m].row
  <2> TAKE m \in Messages
  <2>1. msg[m] \in Turn
    BY DEF FilesOK
  <2>2. CASE msg[m].row = k
    BY <1>7, <2>1, <2>2, <1>4 DEF Turn
  <2>3. CASE msg[m].row # k
    BY <1>7, <2>1, <2>3
  <2> QED  BY <2>2, <2>3
<1>9. msg' \in [Messages -> Turn]
  BY <1>7, <1>8
<1>10. /\ draft' = [s \in Screens |-> draft'[s]]
       /\ (\A s \in Screens : draft'[s] # draft[s] => draft'[s].file = Nil /\ draft'[s].kind = FALSE)
  BY DEF Fold, MoveReferences, FilesOK, NoQuestion
<1>11. FilesOK'
  <2>1. (files \in 0..MaxFiles /\ births \in 0..MaxBirths)'
    BY <1>1, <1>2 DEF FilesOK
  <2>2. (disk \subseteq 1..files /\ torn \subseteq 1..files)'
    BY <1>1, <1>2 DEF FilesOK
  <2>3. (receipt \in [Ids -> 1..files \cup {Nil}])'
    BY <1>1, <1>2, <1>5 DEF FilesOK, TasksOK
  <2>4. (isVoid \in [Ids -> BOOLEAN])'
    BY <1>1, <1>2 DEF FilesOK
  <2>5. (carries \in [Ids -> SUBSET (1..MaxBirths)])'
    BY <1>1, <1>2, <1>6 DEF FilesOK
  <2>6. (sentFor \in [1..MaxFiles -> SUBSET (1..MaxBirths)])'
    BY <1>1, <1>2 DEF FilesOK
  <2>7. (msg \in [Messages -> Turn])'
    BY <1>1, <1>2, <1>8, <1>9 DEF FilesOK
  <2>8. (taken \subseteq Ids)'
    BY <1>1, <1>2, <1>4 DEF FilesOK
  <2>9. (draft = [s \in Screens |-> draft[s]])'
    BY <1>1, <1>2, <1>10 DEF FilesOK, Screens
  <2>10. (task = [w \in Hands |-> task[w]])'
    BY <1>1, <1>2 DEF FilesOK
  <2> QED  BY <2>1, <2>2, <2>3, <2>4, <2>5, <2>6, <2>7, <2>8, <2>9, <2>10 DEF FilesOK
<1>12. TasksOK'
  <2>1. (\A s \in Screens : draft[s].file \in 1..files \cup {Nil} /\ draft[s].kind \in BOOLEAN)'
    BY <1>1, <1>2, <1>10 DEF FilesOK, TasksOK, Talks, Asked, Open
  <2>2. (\A s \in Screens : draft[s].kind => Asked(s))'
    BY <1>1, <1>2, <1>10 DEF FilesOK, TasksOK, Talks, Asked, Open
  <2>3. (\A w \in Hands : task[w].file \in 1..files \cup {Nil})'
    BY <1>1, <1>2 DEF FilesOK, TasksOK, Talks, Asked, Open
  <2>4. (\A w \in Hands : task[w].pc \in {"begin", "fetched", "heard", "reviewed"} =>
         task[w].msg \in Messages)'
    BY <1>1, <1>2, <1>8, <1>9 DEF FilesOK, TasksOK, Talks, Asked, Open
  <2>5. (\A w \in Hands : task[w].pc \in {"clean", "fetched", "heard", "reviewed"} =>
         task[w].file # Nil)'
    BY <1>1, <1>2 DEF FilesOK, TasksOK, Talks, Asked, Open
  <2>6. (\A w \in Hands : Talks(w) => Sort[task[w].msg] = "reply")'
    BY <1>1, <1>2, <1>8, <1>9 DEF FilesOK, TasksOK, Talks, Asked, Open
  <2>7. (\A w \in Hands : task[w].pc = "fetched" => Sort[task[w].msg] \in {"receipt", "screenshot"})'
    BY <1>1, <1>2, <1>5, <1>8, <1>9 DEF FilesOK, TasksOK, Talks, Asked, Open
  <2> QED  BY <2>1, <2>2, <2>3, <2>4, <2>5, <2>6, <2>7 DEF TasksOK
<1>13. RowsOK'
  <2>1. (\A i \in Ids : receipt[i] \in disk \cup torn \cup {Nil})'
    BY <1>1, <1>2, <1>5 DEF FilesOK, TasksOK, RowsOK, FetchedOK, CleaningOK, QuestionsOK, Talks, Asked,
         Open
  <2>2. (\A i, j \in Ids : receipt[i] = receipt[j] /\ i # j => receipt[i] = Nil)'
    BY <1>1, <1>2, <1>5 DEF FilesOK, TasksOK, RowsOK, FetchedOK, CleaningOK, QuestionsOK, Talks, Asked,
         Open
  <2>3. (\A i \in Ids : i \notin taken => receipt[i] = Nil)'
    BY <1>1, <1>2, <1>4, <1>5 DEF FilesOK, TasksOK, RowsOK, FetchedOK, CleaningOK, QuestionsOK, Talks,
         Asked, Open
  <2> QED  BY <2>1, <2>2, <2>3 DEF RowsOK
<1>14. QuestionsOK'
  <2>1. (\A s \in Screens : Open(s) => draft[s].file \in disk \cup torn)'
    BY <1>1, <1>2, <1>10 DEF FilesOK, TasksOK, QuestionsOK, FetchedOK, CleaningOK, TalkOK, Talks,
         Asked, Open
  <2>2. (\A s \in Screens, i \in Ids : Open(s) => receipt[i] # draft[s].file)'
    BY <1>1, <1>2, <1>5, <1>10 DEF FilesOK, TasksOK, QuestionsOK, FetchedOK, CleaningOK, TalkOK, Talks,
         Asked, Open
  <2> QED  BY <2>1, <2>2 DEF QuestionsOK
<1>15. FetchedOK'
  <2>1. (\A w \in Hands : task[w].pc = "fetched" => task[w].file \in disk)'
    BY <1>1, <1>2 DEF FilesOK, TasksOK, RowsOK, FetchedOK, Talks, Asked, Open
  <2>2. (\A w \in Hands, i \in Ids : task[w].pc = "fetched" => receipt[i] # task[w].file)'
    BY <1>1, <1>2, <1>5 DEF FilesOK, TasksOK, RowsOK, FetchedOK, Talks, Asked, Open
  <2>3. (\A w \in Hands, s \in Screens : task[w].pc = "fetched" /\ Asked(s) =>
         draft[s].file # task[w].file)'
    BY <1>1, <1>2, <1>10 DEF FilesOK, TasksOK, RowsOK, FetchedOK, Talks, Asked, Open
  <2>4. (\A v, w \in Hands : task[w].pc = "fetched" /\ v # w => task[v].file # task[w].file)'
    BY <1>1, <1>2 DEF FilesOK, TasksOK, RowsOK, FetchedOK, Talks, Asked, Open
  <2> QED  BY <2>1, <2>2, <2>3, <2>4 DEF FetchedOK
<1>16. CleaningOK'
  <2>1. (\A w \in Hands, i \in Ids : task[w].pc = "clean" => receipt[i] # task[w].file)'
    BY <1>1, <1>2, <1>5 DEF FilesOK, TasksOK, RowsOK, QuestionsOK, FetchedOK, CleaningOK, TalkOK,
         Talks, Asked, Open
  <2>2. (\A w \in Hands, s \in Screens : task[w].pc = "clean" /\ Open(s) =>
         draft[s].file # task[w].file)'
    BY <1>1, <1>2, <1>10 DEF FilesOK, TasksOK, RowsOK, QuestionsOK, FetchedOK, CleaningOK, TalkOK,
         Talks, Asked, Open
  <2> QED  BY <2>1, <2>2 DEF CleaningOK
<1>17. TalkOK'
  <2>1. (\A r, s \in Screens : Asked(r) /\ Asked(s) /\ r # s => draft[r].file # draft[s].file)'
    BY <1>1, <1>2, <1>10 DEF FilesOK, TasksOK, TalkOK, FetchedOK, Mine, Same, Talks, Asked, Open
  <2>2. (\A w \in Hands, s \in Screens : Talks(w) /\ Asked(s) =>
         (draft[s].file = task[w].file <=> s = Screen[task[w].msg]))'
    BY <1>1, <1>2, <1>8, <1>9, <1>10 DEF FilesOK, TasksOK, TalkOK, FetchedOK, Mine, Same, Talks, Asked,
         Open
  <2>3. (\A v, w \in Hands : Talks(v) /\ Talks(w) =>
         (task[v].file = task[w].file <=> Screen[task[v].msg] = Screen[task[w].msg]))'
    BY <1>1, <1>2, <1>8, <1>9 DEF FilesOK, TasksOK, TalkOK, FetchedOK, Mine, Same, Talks, Asked, Open
  <2>4. (\A s \in Screens : Asked(s) => msg[s].status = "answered")'
    BY <1>1, <1>2, <1>8, <1>9, <1>10 DEF FilesOK, TasksOK, TalkOK, FetchedOK, Mine, Same, Talks, Asked,
         Open
  <2>5. (\A w \in Hands : Talks(w) => msg[Screen[task[w].msg]].status = "answered")'
    BY <1>1, <1>2, <1>8, <1>9 DEF FilesOK, TasksOK, TalkOK, FetchedOK, Mine, Same, Talks, Asked, Open
  <2> QED  BY <2>1, <2>2, <2>3, <2>4, <2>5 DEF TalkOK
<1>18. AimsOK'
  <2>1. (\A m \in Messages : msg[m].row # Nil =>
         msg[m].row \in taken /\ msg[m].births \subseteq carries[msg[m].row])'
    <3> TAKE m \in Messages
    <3>1. msg[m].row # Nil => msg[m].row \in taken /\ msg[m].births \subseteq carries[msg[m].row]
      BY DEF AimsOK
    <3>2. CASE msg[m].row = k
      BY <3>1, <3>2, <1>4, <1>6, <1>8, ReceiptsAssumption DEF FilesOK
    <3>3. CASE msg[m].row = n
      BY <3>1, <3>3, <1>4, <1>6, <1>8, ReceiptsAssumption DEF FilesOK
    <3>4. CASE msg[m].row \notin {k, n}
      BY <3>1, <3>4, <1>4, <1>6, <1>8, ReceiptsAssumption DEF FilesOK
    <3> QED  BY <3>2, <3>3, <3>4
  <2>2. (\A i \in Ids : receipt[i] # Nil => sentFor[receipt[i]] \subseteq carries[i])'
    BY <1>1, <1>2, <1>5, <1>6 DEF FilesOK, TasksOK, RowsOK, AimsOK, SentOK, FetchedOK, Same, Talks,
         Asked, Open
  <2> QED  BY <2>1, <2>2 DEF AimsOK
<1>19. SentOK'
  <2>1. (\A s \in Screens : Asked(s) => sentFor[draft[s].file] = {})'
    <3>1. \A s \in Screens : Asked(s) => sentFor[draft[s].file] = {}
      BY DEF SentOK
    <3> SUFFICES ASSUME NEW s \in Screens, Asked(s)'
                 PROVE  sentFor'[draft'[s].file] = {}
      BY DEF Asked, Talks
    <3> QED  BY <3>1, <1>1, <1>2, <1>4, <1>5, <1>6, <1>8, <1>9, <1>10 DEF Asked, Open, Talks
  <2>2. (\A w \in Hands : Talks(w) => sentFor[task[w].file] = {})'
    BY <1>1, <1>2 DEF FilesOK, TasksOK, SentOK, FetchedOK, Same, Talks, Asked, Open
  <2>3. (\A w \in Hands : task[w].pc = "fetched" /\ Sort[task[w].msg] = "receipt" =>
         sentFor[task[w].file] = msg[task[w].msg].births)'
    BY <1>1, <1>2, <1>5, <1>8, <1>9 DEF FilesOK, TasksOK, SentOK, FetchedOK, Same, Talks, Asked, Open
  <2>4. (\A w \in Hands : task[w].pc = "fetched" /\ Sort[task[w].msg] = "screenshot" =>
         sentFor[task[w].file] = {})'
    BY <1>1, <1>2, <1>8, <1>9 DEF FilesOK, TasksOK, SentOK, Talks, Asked, Open
  <2>5. (\A f \in 1..MaxFiles : f > files => sentFor[f] = {})'
    BY <1>1, <1>2 DEF FilesOK, TasksOK, SentOK, FetchedOK, Same, Talks, Asked, Open
  <2>6. (\A w \in Hands : task[w].pc = "fetched" => msg[task[w].msg].status # "absent")'
    BY <1>1, <1>2, <1>8, <1>9 DEF FilesOK, TasksOK, SentOK, FetchedOK, Same, Talks, Asked, Open
  <2>7. (\A w \in Hands : task[w].pc = "begin" => msg[task[w].msg].status # "absent")'
    BY <1>1, <1>2, <1>8, <1>9 DEF FilesOK, TasksOK, SentOK, FetchedOK, Same, Talks, Asked, Open
  <2> QED  BY <2>1, <2>2, <2>3, <2>4, <2>5, <2>6, <2>7 DEF SentOK
<1> QED  BY <1>11, <1>12, <1>13, <1>14, <1>15, <1>16, <1>17, <1>18, <1>19 DEF ReceiptsInv

LEMMA ReceiptsStart == ReceiptsInit => ReceiptsInv
<1> SUFFICES ASSUME ReceiptsInit PROVE ReceiptsInv
  OBVIOUS
<1>1. /\ draft = [s \in Screens |-> NoQuestion] /\ NoQuestion.file = Nil /\ NoQuestion.kind = FALSE
      /\ task = [w \in Hands |-> Free] /\ Free.pc = "idle" /\ Free.file = Nil
      /\ receipt = [i \in Ids |-> Nil] /\ isVoid = [i \in Ids |-> FALSE] /\ carries = [i \in Ids |-> {}]
      /\ sentFor = [f \in 1..MaxFiles |-> {}] /\ disk = {} /\ torn = {} /\ taken = {} /\ files = 0 /\ births = 0
  BY DEF ReceiptsInit, NoQuestion, Free, At
<1>2. \A m \in Messages : msg[m].row = Nil
  BY DEF ReceiptsInit
<1>3. msg \in [Messages -> Turn]
  <2>1. [status |-> "absent", by |-> Nil, row |-> Nil, births |-> {}, answers |-> Nil] \in Turn
    BY DEF Turn
  <2> QED  BY <2>1 DEF ReceiptsInit
<1>4. FilesOK
  BY <1>1, <1>3, ReceiptsAssumption DEF FilesOK
<1>5. TasksOK
  BY <1>1 DEF TasksOK, Talks, Asked
<1>6. RowsOK /\ QuestionsOK
  BY <1>1 DEF RowsOK, QuestionsOK, Open, Asked
<1>7. FetchedOK /\ CleaningOK
  BY <1>1 DEF FetchedOK, CleaningOK
<1>8. TalkOK
  BY <1>1 DEF TalkOK, Asked, Talks
<1>9. AimsOK
  BY <1>1, <1>2 DEF AimsOK
<1>10. SentOK
  BY <1>1 DEF SentOK, Asked, Talks
<1> QED  BY <1>4, <1>5, <1>6, <1>7, <1>8, <1>9, <1>10 DEF ReceiptsInv

LEMMA ReceiptsStep ==
  ASSUME ReceiptsInv, [ReceiptsNext]_receiptVars
  PROVE  ReceiptsInv'
<1>1. ASSUME NEW t \in Messages, Receive(t) PROVE ReceiptsInv'
  BY <1>1, ReceiveKeeps
<1>2. ASSUME NEW h \in Hands, NEW t \in Messages, Claim(h, t) PROVE ReceiptsInv'
  BY <1>2, ClaimKeeps
<1>3. ASSUME NEW h \in Hands, Process(h) PROVE ReceiptsInv'
  BY <1>3, FetchKeeps, DeclineKeeps, DiscardKeeps, AbandonKeeps, AttachKeeps, CutOffKeeps, CleanKeeps,
     ProposeKeeps, RefuseKeeps, HearKeeps, ReconsiderKeeps, AskAgainKeeps DEF Process
<1>4. ASSUME NEW c \in Screens, YesAttaches(c) \/ YesSaves(c) \/ No(c) PROVE ReceiptsInv'
  BY <1>4, YesAttachesKeeps, YesSavesKeeps, NoKeeps
<1>5. CASE Record
  BY <1>5, RecordKeeps
<1>6. ASSUME NEW k \in Ids, Void(k) \/ Delete(k) PROVE ReceiptsInv'
  BY <1>6, VoidKeeps, DeleteKeeps
<1>7. ASSUME NEW n \in Ids, NEW k \in Ids, Fold(n, k) PROVE ReceiptsInv'
  BY <1>7, FoldKeeps
<1>8. CASE UNCHANGED receiptVars
  <2> USE DEF ReceiptsInv
  <2>1. UNCHANGED <<disk, files, sentFor, taken, says, isVoid, receipt, births, carries, msg, draft, task, torn>>
    BY <1>8 DEF receiptVars, disks, rows
  <2>2. FilesOK'
    BY <2>1 DEF FilesOK, Screens
  <2>3. TasksOK'
    BY <2>1 DEF TasksOK, Asked, Talks
  <2>4. RowsOK'
    BY <2>1 DEF RowsOK
  <2>5. QuestionsOK'
    BY <2>1 DEF QuestionsOK, Open, Asked
  <2>6. FetchedOK'
    BY <2>1 DEF FetchedOK, Asked
  <2>7. CleaningOK'
    BY <2>1 DEF CleaningOK, Open, Asked
  <2>8. TalkOK'
    BY <2>1 DEF TalkOK, Asked, Talks
  <2>9. AimsOK'
    BY <2>1 DEF AimsOK
  <2>10. SentOK'
    BY <2>1 DEF SentOK, Asked, Talks
  <2> QED  BY <2>2, <2>3, <2>4, <2>5, <2>6, <2>7, <2>8, <2>9, <2>10
<1> QED
  BY <1>1, <1>2, <1>3, <1>4, <1>5, <1>6, <1>7, <1>8 DEF ReceiptsNext

(* A receipt that a row shows is on disk or was torn from it by one of the   *)
(* three faults, is of no other row and no question that may be answered,    *)
(* and was sent for that row or for one that went into it.                   *)
THEOREM ReceiptsAlwaysHold == ReceiptsSpec => []ReceiptsHold
<1>1. ReceiptsInit => ReceiptsInv
  BY ReceiptsStart
<1>2. ReceiptsInv /\ [ReceiptsNext]_receiptVars => ReceiptsInv'
  BY ReceiptsStep
<1>3. ReceiptsInv => ReceiptsHold
  BY DEF ReceiptsInv, FilesOK, RowsOK, QuestionsOK, AimsOK,
     ReceiptsHold, ReceiptsAreThere, OneHolder, ReceiptFollowsRow
<1> QED
  BY <1>1, <1>2, <1>3, PTL DEF ReceiptsSpec

=============================================================================
