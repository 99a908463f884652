--------------------------- MODULE AssistantTurns ---------------------------
(* Assistant turns: one audit_interactions row per Telegram update, claimed  *)
(* by a worker under a five-minute lease, run, and finished in one commit    *)
(* that holds its writes, its question and its answer. The conversation      *)
(* keeps at most one pending confirmation, which a later Yes applies.        *)
(*                                                                           *)
(* One action is one committed session or one read that is used after an     *)
(* await. The model provider is external: it may answer, write or ask. The   *)
(* data a write depends on is a version number.                              *)
EXTENDS Naturals

CONSTANTS
  Updates,       \* Telegram updates, each with its turn
  Kind,          \* ask: /ask or a reply; yes: an affirmative reply;
                 \* tap: the Yes or No button; screenshot: an image
  Question,      \* the turn whose question a yes or tap answers
  Workers,
  None,
  MaxTurnAttempts,
  MaxData,       \* bound on the versions of the data
  MaxCrashes,    \* bound on crashes
  Faults

TurnFaults == {"redeliver", "lease_expiry", "fail", "revoke", "edit"}

ASSUME TurnsAssumption ==
  /\ Kind \in [Updates -> {"ask", "yes", "tap", "screenshot"}]
  /\ Question \in [Updates -> Updates \cup {None}]
  /\ None \notin Updates \cup Workers
  /\ MaxTurnAttempts \in Nat \ {0} /\ MaxData \in Nat /\ MaxCrashes \in Nat
  /\ Faults \subseteq TurnFaults

VARIABLES
  turn,        \* audit_interactions: status, attempts, token, live lease
  pending,     \* the conversation's pending confirmation
  data,        \* version of the transaction the turns are about
  authorised,  \* the configured chat is the one the turns came from
  worker,      \* locals of each worker
  crashes,
  asked,       \* history: the data version each stored question was about
  writes       \* history: committed writes per turn

vars == <<turn, pending, data, authorised, worker, crashes, asked, writes>>

NoPending == [source |-> None, hash |-> 0]
Idle == [pc |-> "idle", u |-> None, seen |-> NoPending, base |-> 0]
Answers(u) == Kind[u] \in {"yes", "tap"}

Init ==
  /\ turn = [u \in Updates |->
               [status |-> "absent", attempts |-> 0, token |-> None, live |-> FALSE]]
  /\ pending = NoPending
  /\ data = 0
  /\ authorised = TRUE
  /\ worker = [w \in Workers |-> Idle]
  /\ crashes = 0
  /\ asked = [u \in Updates |-> None]
  /\ writes = [u \in Updates |-> 0]

-----------------------------------------------------------------------------
(* audit.py on the row of one turn.                                          *)
Claimable(t) == t.status = "claimed" \/ (t.status = "processing" /\ ~t.live)

Close(t, s) == [t EXCEPT !.status = s, !.token = None, !.live = FALSE]

\* mark_authorization_changed before there is any output
AuthorizationChanged(t) ==
  IF t.status \in {"claimed", "processing"} THEN [t EXCEPT !.status = "failed"] ELSE t

\* Mutant: every worker may finish
OwnsAlways(w, u) == turn[u].status # "absent"
\* The fence of renew_processing_lease and finalize_interaction
Owns(w, u) == turn[u].status = "processing" /\ turn[u].token = w

-----------------------------------------------------------------------------
(* handle_telegram_update: claim_interaction inserts the turn once per       *)
(* update id. A Yes can only be given to a question that was asked.          *)
Arrive(w, u) ==
  /\ worker[w] = Idle /\ turn[u].status = "absent"
  /\ Answers(u) => asked[Question[u]] # None
  /\ turn' = [turn EXCEPT ![u].status = "claimed"]
  /\ worker' = [worker EXCEPT ![w] = [Idle EXCEPT !.pc = "arrived", !.u = u]]
  /\ UNCHANGED <<pending, data, authorised, crashes, asked, writes>>

(* Telegram delivers the update again: an unfinished turn is claimed again,  *)
(* a button is only answered "Already handled".                              *)
Redeliver(w, u) ==
  /\ "redeliver" \in Faults
  /\ worker[w] = Idle /\ Kind[u] # "tap"
  /\ turn[u].status \in {"claimed", "processing"}
  /\ worker' = [worker EXCEPT ![w] = [Idle EXCEPT !.pc = "arrived", !.u = u]]
  /\ UNCHANGED <<turn, pending, data, authorised, crashes, asked, writes>>

\* resume_claimed_interactions: no trigger "screenshot" in its list.
Resume(w, u) ==
  /\ worker[w] = Idle /\ Kind[u] # "screenshot"
  /\ turn[u].status = "claimed"
  /\ worker' = [worker EXCEPT ![w] = [Idle EXCEPT !.pc = "arrived", !.u = u]]
  /\ UNCHANGED <<turn, pending, data, authorised, crashes, asked, writes>>

ClaimProcessing(w) ==
  LET u == worker[w].u
      claimed == [turn[u] EXCEPT !.status = "processing", !.token = w,
                                 !.live = TRUE, !.attempts = @ + 1]
  IN  /\ worker[w].pc = "arrived"
      /\ IF ~Claimable(turn[u])
         THEN /\ worker' = [worker EXCEPT ![w] = Idle]
              /\ UNCHANGED turn
         ELSE IF turn[u].attempts >= MaxTurnAttempts
         THEN /\ turn' = [turn EXCEPT ![u] = Close(@, "failed")]
              /\ worker' = [worker EXCEPT ![w] = Idle]
         ELSE \/ /\ ~authorised
                 /\ turn' = [turn EXCEPT ![u] = AuthorizationChanged(claimed)]
                 /\ worker' = [worker EXCEPT ![w] = Idle]
              \/ /\ authorised \/ Kind[u] = "tap"
                 /\ turn' = [turn EXCEPT ![u] = claimed]
                 /\ worker' = [worker EXCEPT ![w].pc = "begin"]
      /\ UNCHANGED <<pending, data, authorised, crashes, asked, writes>>

(* The turn reads the conversation. A Yes to the pending question goes on to *)
(* apply it; any other text dismisses a pending question first.              *)
Begin(w) ==
  LET u == worker[w].u
  IN  /\ worker[w].pc = "begin"
      /\ worker' = [worker EXCEPT ![w] =
           [@ EXCEPT !.seen = pending, !.base = data,
              !.pc = CASE Kind[u] = "tap" -> "tap"
                       [] Kind[u] = "screenshot" -> "turn"
                       [] Kind[u] = "yes" /\ pending.source = Question[u] -> "apply"
                       [] OTHER -> IF pending = NoPending THEN "turn" ELSE "dismiss"]]
      /\ UNCHANGED <<turn, pending, data, authorised, crashes, asked, writes>>

\* clear_pending_confirmation and its own commit, before the provider is asked.
Dismiss(w) ==
  /\ worker[w].pc = "dismiss"
  /\ pending' = NoPending
  /\ worker' = [worker EXCEPT ![w].pc = "turn", ![w].base = data]
  /\ UNCHANGED <<turn, data, authorised, crashes, asked, writes>>

\* renew_owned_lease between two provider calls; ProcessingLeaseLost ends the turn.
Renew(w) ==
  LET u == worker[w].u
  IN  /\ worker[w].pc = "turn" /\ Kind[u] # "screenshot"
      /\ IF Owns(w, u)
         THEN turn' = [turn EXCEPT ![u].live = TRUE] /\ UNCHANGED worker
         ELSE worker' = [worker EXCEPT ![w] = Idle] /\ UNCHANGED turn
      /\ UNCHANGED <<pending, data, authorised, crashes, asked, writes>>

-----------------------------------------------------------------------------
(* The last session of a turn. It takes the write lock together with the     *)
(* check of the chat (_lock_authorized_chat), works, and finalizes fenced;   *)
(* everything below is one commit or nothing.                                *)
Working(w) == worker[w].pc \in {"turn", "apply", "tap"}

\* Mutant: the lock is taken without the check of the chat
LockAnyChat(w) == Working(w)
LockAuthorizedChat(w) == Working(w) /\ authorised

\* _lock_authorized_chat fails: the turn is failed, whoever owns it by now.
FailAuthorization(w) ==
  /\ Working(w) /\ ~authorised
  /\ turn' = [turn EXCEPT ![worker[w].u] = AuthorizationChanged(@)]
  /\ worker' = [worker EXCEPT ![w] = Idle]
  /\ UNCHANGED <<pending, data, authorised, crashes, asked, writes>>

\* finalize_interaction finds another owner: the session is rolled back.
LoseTurn(w) ==
  /\ LockAuthorizedChat(w) /\ ~Owns(w, worker[w].u)
  /\ worker' = [worker EXCEPT ![w] = Idle]
  /\ UNCHANGED <<turn, pending, data, authorised, crashes, asked, writes>>

Finish(w) ==
  /\ LockAuthorizedChat(w) /\ Owns(w, worker[w].u)
  /\ turn' = [turn EXCEPT ![worker[w].u] = Close(@, "ready_to_send")]
  /\ worker' = [worker EXCEPT ![w] = Idle]
  /\ UNCHANGED <<authorised, crashes>>

Write(u) ==
  /\ data < MaxData
  /\ data' = data + 1
  /\ writes' = [writes EXCEPT ![u] = @ + 1]

Ask(u, version) ==
  /\ pending' = [source |-> u, hash |-> version]
  /\ asked' = [asked EXCEPT ![u] = version]

\* An answer, or an error answer, changes nothing.
Answer(w) ==
  /\ worker[w].pc = "turn"
  /\ Finish(w)
  /\ UNCHANGED <<pending, data, asked, writes>>

\* run_turn writes or asks only if the data is still what the turn read.
WriteNow(w) ==
  /\ worker[w].pc = "turn" /\ worker[w].base = data
  /\ Finish(w) /\ Write(worker[w].u)
  /\ UNCHANGED <<pending, asked>>

AskFirst(w) ==
  /\ worker[w].pc = "turn" /\ worker[w].base = data
  /\ Finish(w) /\ Ask(worker[w].u, data)
  /\ UNCHANGED <<data, writes>>

\* Mutant: a stale question still applies
AppliesStale(w, stored, fresh) ==
  /\ stored.source = Question[worker[w].u] /\ stored # NoPending
  /\ pending = stored

(* run_pending_confirmation: under the lock, the data must still have the    *)
(* hash of the stored question, and the compare-and-swap must find that      *)
(* question still pending.                                                   *)
Applies(w, stored, fresh) ==
  /\ stored.source = Question[worker[w].u] /\ stored # NoPending
  /\ fresh = stored.hash
  /\ pending = stored

\* The text reply uses the conversation it read before the lock, the tap reads
\* it under the lock.
Stored(w) == IF worker[w].pc = "apply" THEN worker[w].seen ELSE pending

\* _apply_pending: the write, then nothing more or the next question of a chain.
ApplyPending(w) ==
  LET u == worker[w].u
  IN  /\ worker[w].pc \in {"apply", "tap"}
      /\ Applies(w, Stored(w), data)
      /\ Finish(w) /\ Write(u)
      /\ \/ pending' = NoPending /\ UNCHANGED asked
         \/ Ask(u, data + 1)

\* The confirmation is stale, used or refused: an error answer.
RefusePending(w) ==
  /\ worker[w].pc \in {"apply", "tap"}
  /\ ~Applies(w, Stored(w), data)
  /\ Finish(w)
  /\ UNCHANGED <<pending, data, asked, writes>>

\* The No button
DeclinePending(w) ==
  /\ worker[w].pc = "tap"
  /\ pending.source = Question[worker[w].u]
  /\ Finish(w)
  /\ pending' = NoPending
  /\ UNCHANGED <<data, asked, writes>>

\* The turn's timeout or an exception: rolled back, left to its lease.
Fail(w) ==
  /\ "fail" \in Faults /\ worker[w].pc \in {"begin", "turn", "apply", "tap"}
  /\ worker' = [worker EXCEPT ![w] = Idle]
  /\ UNCHANGED <<turn, pending, data, authorised, crashes, asked, writes>>

-----------------------------------------------------------------------------
\* recover_assistant_work, the part on turns
Recover ==
  /\ turn' = [u \in Updates |->
                IF turn[u].status = "processing" /\ ~turn[u].live
                THEN Close(turn[u], "claimed") ELSE turn[u]]
  /\ UNCHANGED <<pending, data, authorised, worker, crashes, asked, writes>>

Running(w, u) ==
  /\ worker[w].u = u /\ worker[w].pc \in {"begin", "dismiss", "turn", "apply", "tap"}
  /\ Owns(w, u)

(* Five minutes pass. The turn's own timeout is three, so a running worker   *)
(* loses its lease only to a jump of the clock.                              *)
LeaseExpires(u) ==
  /\ turn[u].status = "processing" /\ turn[u].live
  /\ "lease_expiry" \in Faults \/ \A w \in Workers : ~Running(w, u)
  /\ turn' = [turn EXCEPT ![u].live = FALSE]
  /\ UNCHANGED <<pending, data, authorised, worker, crashes, asked, writes>>

\* A poll, the web page or a statement changes the transaction.
Edit ==
  /\ "edit" \in Faults /\ data < MaxData
  /\ data' = data + 1
  /\ UNCHANGED <<turn, pending, authorised, worker, crashes, asked, writes>>

\* The operator configures another chat.
Revoke ==
  /\ "revoke" \in Faults /\ authorised
  /\ authorised' = FALSE
  /\ UNCHANGED <<turn, pending, data, worker, crashes, asked, writes>>

Crash ==
  /\ crashes < MaxCrashes
  /\ crashes' = crashes + 1
  /\ worker' = [w \in Workers |-> Idle]
  /\ UNCHANGED <<turn, pending, data, authorised, asked, writes>>

WorkerStep(w) ==
  \/ ClaimProcessing(w) \/ Begin(w) \/ Dismiss(w)
  \/ FailAuthorization(w) \/ LoseTurn(w)
  \/ Answer(w) \/ WriteNow(w) \/ AskFirst(w)
  \/ ApplyPending(w) \/ RefusePending(w) \/ DeclinePending(w)

Next ==
  \/ \E w \in Workers, u \in Updates : Arrive(w, u) \/ Redeliver(w, u) \/ Resume(w, u)
  \/ \E w \in Workers : WorkerStep(w) \/ Renew(w) \/ Fail(w)
  \/ \E u \in Updates : LeaseExpires(u)
  \/ Recover \/ Edit \/ Revoke \/ Crash

Spec == Init /\ [][Next]_vars

-----------------------------------------------------------------------------
TurnType ==
  [status : {"absent", "claimed", "processing", "ready_to_send", "failed"},
   attempts : 0..MaxTurnAttempts, token : Workers \cup {None}, live : BOOLEAN]
Pendings == [source : Updates \cup {None}, hash : 0..MaxData]
WorkerType ==
  [pc : {"idle", "arrived", "begin", "dismiss", "turn", "apply", "tap"},
   u : Updates \cup {None}, seen : Pendings, base : 0..MaxData]

(* Every variable has its type; in particular a turn is attempted at most    *)
(* MaxTurnAttempts times, and a worker that is not idle has a turn.          *)
TypeOK ==
  /\ turn \in [Updates -> TurnType]
  /\ pending \in Pendings
  /\ data \in 0..MaxData
  /\ authorised \in BOOLEAN
  /\ worker \in [Workers -> WorkerType]
  /\ \A w \in Workers : worker[w].pc # "idle" => worker[w].u \in Updates
  /\ crashes \in 0..MaxCrashes
  /\ asked \in [Updates -> 0..MaxData \cup {None}]
  /\ writes \in [Updates -> Nat]

(* However often an update is delivered, its turn retried or its lease lost, *)
(* it commits its writes at most once, and only together with its answer.    *)
WritesOnce ==
  \A u \in Updates : writes[u] <= 1 /\ (writes[u] = 1 => turn[u].status = "ready_to_send")

(* A Yes applies the question it answers only while that question is the     *)
(* pending one and the data is what the question was about.                  *)
YesIsFresh ==
  [][\A w \in Workers :
       LET u == worker[w].u
       IN  worker[w].pc \in {"apply", "tap"} /\ writes' # writes /\ worker'[w] = Idle =>
             pending.source = Question[u] /\ asked[Question[u]] = data]_vars

(* Nothing is written for a chat that is no longer the configured one.       *)
NoWriteAfterRevocation ==
  [][~authorised => writes' = writes /\ pending' \in {pending, NoPending}]_vars
=============================================================================
