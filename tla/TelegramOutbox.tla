--------------------------- MODULE TelegramOutbox ---------------------------
(* The durable Telegram outbox: telegram_outbound_deliveries rows, the       *)
(* senders that claim one, call the Bot API and record the result in another *)
(* database session, the recovery of each fetch cycle, and the two owners of *)
(* a row: an assistant turn (audit_interactions, several rows) or a category *)
(* review decision (one prompt about one transaction).                       *)
(*                                                                           *)
(* One action is one committed session, or one read that the code uses after *)
(* an await. The Bot API is external: it renders a message, refuses it, or   *)
(* does not answer. Time appears as the expiry of a two-minute lease.        *)
EXTENDS Naturals

CONSTANTS
  Messages,        \* outbox rows
  Turns,           \* owners that are assistant turns
  Decisions,       \* owners that are review decisions, with their transaction
  Owner,           \* the owner of each row
  Workers,         \* tasks that can be inside dispatch_saved_delivery
  NoWorker,
  NoMessage,
  Chats,           \* values of the setting telegram.chat_id
  MaxAttempts,     \* MAX_DELIVERY_ATTEMPTS
  MaxTries,        \* attempts of _send_with_retry
  MaxNotifies,     \* _MAX_NOTIFY_ATTEMPTS
  MaxRebinds,      \* bound on changes of the chat setting
  Faults           \* what the environment does, see FaultNames

FaultNames == {"crash", "cancel", "network", "rejected", "slow_send", "stale_choice"}

ASSUME OutboxAssumption ==
  /\ Owner \in [Messages -> Turns \cup Decisions]
  /\ Turns \cap Decisions = {}
  /\ \A d \in Decisions : \A m, n \in Messages :
       Owner[m] = d /\ Owner[n] = d => m = n
  /\ NoWorker \notin Workers /\ NoMessage \notin Messages
  /\ MaxAttempts \in Nat \ {0} /\ MaxTries \in Nat \ {0}
  /\ MaxNotifies \in Nat /\ MaxRebinds \in Nat
  /\ Faults \subseteq FaultNames

VARIABLES
  row,        \* the outbox table; status "absent" before the row is made
  turn,       \* audit_interactions.status of each turn
  decision,   \* category_review_decisions.status
  review,     \* transactions.review_status of each decision's transaction
  notifies,   \* transactions.notify_attempts
  chat,       \* the configured chat
  rebinds,    \* changes of the chat so far
  sender,     \* the locals of dispatch_saved_delivery in each worker
  shown       \* how many times Telegram rendered each message

vars == <<row, turn, decision, review, notifies, chat, rebinds, sender, shown>>

Open == {"pending", "delivering", "delivery_unknown"}
Final == {"delivered", "cancelled", "abandoned"}
Idle == [pc |-> "idle", msg |-> NoMessage, status |-> "absent",
         attempts |-> 0, tries |-> 0, notify |-> FALSE, notifies |-> 0]
MaxShown == MaxAttempts * MaxTries

MessagesOf(o) == {m \in Messages : Owner[m] = o}
Statuses(rows) == [m \in Messages |-> rows[m].status]

-----------------------------------------------------------------------------
(* delivery.py, as functions of the tables.                                  *)

NewRow == [status |-> "pending", attempts |-> 0, token |-> NoWorker,
           live |-> FALSE, to |-> chat]

SetStatus(rows, S, s) ==
  [m \in Messages |->
     IF m \in S THEN [rows[m] EXCEPT !.status = s, !.token = NoWorker, !.live = FALSE]
                ELSE rows[m]]

\* Mutant: a row being delivered needs no expired lease
ClaimableWithoutLease(r) == r.attempts < MaxAttempts /\ r.status \in Open

\* claim_delivery
Claimable(r) ==
  /\ r.attempts < MaxAttempts
  /\ \/ r.status \in {"pending", "delivery_unknown"}
     \/ r.status = "delivering" /\ ~r.live

ClaimDelivery(r, w) ==
  [r EXCEPT !.status = "delivering", !.token = w, !.live = TRUE,
            !.attempts = @ + 1]

\* The fence of mark_delivery_delivered and mark_delivery_unknown
Owns(w, m) == row[m].status = "delivering" /\ row[m].token = w

\* Mutant: one delivered message delivers the turn
AggregateAny(t, seen) ==
  IF \E m \in MessagesOf(t) : seen[m] = "delivered" THEN "delivered"
  ELSE IF \E m \in MessagesOf(t) : seen[m] \in {"abandoned", "cancelled"}
       THEN "delivery_failed" ELSE "ready_to_send"

\* refresh_interaction_delivery_status, on the statuses the session sees
Aggregate(t, seen) ==
  LET S == {seen[m] : m \in MessagesOf(t)}
  IN  CASE S = {"delivered"} -> "delivered"
        [] S \cap {"abandoned", "cancelled"} # {} -> "delivery_failed"
        [] S \cap {"abandoned", "cancelled"} = {}
           /\ S \cap {"delivering", "delivery_unknown"} # {} -> "delivery_partial"
        [] OTHER -> "ready_to_send"

Refresh(turns, o, seen) ==
  IF o \in Turns THEN [turns EXCEPT ![o] = Aggregate(o, seen)] ELSE turns

\* Mutant: off by one
ExhaustedLater(r) ==
  r.status \in {"pending", "delivery_unknown"} /\ r.attempts > MaxAttempts

\* abandon_exhausted
Exhausted(r) ==
  r.status \in {"pending", "delivery_unknown"} /\ r.attempts >= MaxAttempts

AbandonRows(rows) ==
  [m \in Messages |->
     IF Exhausted(rows[m]) THEN [rows[m] EXCEPT !.status = "abandoned"] ELSE rows[m]]

AbandonTurns(turns, rows) ==
  [t \in Turns |->
     IF /\ \E m \in MessagesOf(t) : Exhausted(rows[m])
        /\ turns[t] \in {"ready_to_send", "delivery_partial"}
     THEN "delivery_failed" ELSE turns[t]]

-----------------------------------------------------------------------------
Init ==
  /\ chat \in Chats
  /\ row = [m \in Messages |-> [NewRow EXCEPT !.status = "absent"]]
  /\ turn = [t \in Turns |-> "processing"]
  /\ decision = [d \in Decisions |-> "active"]
  /\ review = [d \in Decisions |-> "pending"]
  /\ notifies = [d \in Decisions |-> 0]
  /\ rebinds = 0
  /\ sender = [w \in Workers |-> Idle]
  /\ shown = [m \in Messages |-> 0]

\* _queue_result: finalize_interaction and the rows of the answer, one commit.
Queue(t) ==
  /\ turn[t] = "processing"
  /\ turn' = [turn EXCEPT ![t] = "ready_to_send"]
  /\ row' = [m \in Messages |-> IF Owner[m] = t THEN NewRow ELSE row[m]]
  /\ UNCHANGED <<decision, review, notifies, chat, rebinds, sender, shown>>

(* The first read of dispatch_saved_delivery: the row's status and attempts  *)
(* are used again after the claim's await.                                   *)
SavedRow(task, m) ==
  [task EXCEPT !.pc = IF row[m].to = chat THEN "claim" ELSE "cancel", !.msg = m,
               !.status = row[m].status, !.attempts = row[m].attempts]

\* One message of dispatch_pending_deliveries, or of the turn that queued it.
Dispatch(w, m) ==
  /\ sender[w] = Idle
  /\ row[m].status \in Open
  /\ sender' = [sender EXCEPT ![w] = SavedRow(Idle, m)]
  /\ UNCHANGED <<row, turn, decision, review, notifies, chat, rebinds, shown>>

(* _notify_assistant: the prompt row of an active decision is created once   *)
(* (ensure_decision_delivery returns the existing row in any status) and     *)
(* then dispatched. Only the fetch cycle does this, one prompt at a time.    *)
Notify(w, m) ==
  LET d == Owner[m]
  IN  /\ d \in Decisions
      /\ sender[w] = Idle /\ \A v \in Workers : ~sender[v].notify
      /\ review[d] = "pending" /\ notifies[d] < MaxNotifies
      /\ decision[d] = "active"
      /\ row' = IF row[m].status = "absent" THEN [row EXCEPT ![m] = NewRow] ELSE row
      /\ sender' = [sender EXCEPT ![w] = 
                    [Idle EXCEPT !.pc = "open", !.msg = m, !.notify = TRUE,
                                 !.notifies = notifies[d]]]
      /\ UNCHANGED <<turn, decision, review, notifies, chat, rebinds, shown>>

\* The caller's share when dispatch_saved_delivery returned False: one more
\* than the count that the sweep read with the transaction.
CountFailure(w) ==
  notifies' = IF sender[w].notify
              THEN [notifies EXCEPT ![Owner[sender[w].msg]] = sender[w].notifies + 1]
              ELSE notifies

\* Back in dispatch_saved_delivery: a terminal row is not sent again; only a
\* delivered one counts as a sent prompt.
ReadPrompt(w) ==
  LET m == sender[w].msg
  IN  /\ sender[w].pc = "open"
      /\ IF row[m].status \in Open
         THEN /\ sender' = [sender EXCEPT ![w] = SavedRow(sender[w], m)]
              /\ UNCHANGED notifies
         ELSE /\ sender' = [sender EXCEPT ![w] = Idle]
              /\ IF row[m].status = "delivered" THEN UNCHANGED notifies
                                                ELSE CountFailure(w)
      /\ UNCHANGED <<row, turn, decision, review, chat, rebinds, shown>>

(* The recipient is no longer the configured chat: the row is written        *)
(* cancelled whatever it is by now, and mark_authorization_changed fails the *)
(* turn and cancels its other open rows.                                     *)
CancelForAuthorization(w) ==
  LET m == sender[w].msg
      t == Owner[m]
      fails == t \in Turns /\ turn[t] \in {"ready_to_send", "delivery_partial"}
      mine == [row EXCEPT ![m].status = "cancelled"]
  IN  /\ sender[w].pc = "cancel"
      /\ row' = IF fails
                THEN SetStatus(mine, {n \in MessagesOf(t) : mine[n].status \in Open},
                               "cancelled")
                ELSE mine
      /\ turn' = IF fails THEN [turn EXCEPT ![t] = "delivery_failed"] ELSE turn
      /\ CountFailure(w)
      /\ sender' = [sender EXCEPT ![w] = Idle]
      /\ UNCHANGED <<decision, review, chat, rebinds, shown>>

ClaimWins(w) ==
  LET m == sender[w].msg
  IN  /\ sender[w].pc = "claim"
      /\ Claimable(row[m])
      /\ row' = [row EXCEPT ![m] = ClaimDelivery(@, w)]
      /\ sender' = [sender EXCEPT ![w].pc = "send"]
      /\ UNCHANGED <<turn, decision, review, notifies, chat, rebinds, shown>>

(* A lost claim abandons exhausted rows and refreshes the turn. The session  *)
(* still holds the row it read before the claim, so the refresh counts that  *)
(* row as it was then.                                                       *)
ClaimLoses(w) ==
  LET m == sender[w].msg
      seen == [Statuses(AbandonRows(row)) EXCEPT ![m] =
                 IF Exhausted(sender[w]) THEN "abandoned" ELSE sender[w].status]
  IN  /\ sender[w].pc = "claim"
      /\ ~Claimable(row[m])
      /\ row' = AbandonRows(row)
      /\ turn' = Refresh(AbandonTurns(turn, row), Owner[m], seen)
      /\ CountFailure(w)
      /\ sender' = [sender EXCEPT ![w] = Idle]
      /\ UNCHANGED <<decision, review, chat, rebinds, shown>>

-----------------------------------------------------------------------------
(* _send_with_retry. A NetworkError leaves open whether Telegram rendered    *)
(* the message; the helper tries MaxTries times before it raises. A refusal  *)
(* raises at once. RetryAfter only takes time: see LeaseExpires.             *)

Render(m) == shown' = [shown EXCEPT ![m] = @ + 1]

SendAccepted(w) ==
  /\ sender[w].pc = "send"
  /\ Render(sender[w].msg)
  /\ sender' = [sender EXCEPT ![w].pc = "sent"]
  /\ UNCHANGED <<row, turn, decision, review, notifies, chat, rebinds>>

SendUnanswered(w) ==
  /\ "network" \in Faults
  /\ sender[w].pc = "send"
  /\ Render(sender[w].msg) \/ UNCHANGED shown
  /\ sender' = [sender EXCEPT ![w].tries = @ + 1,
                              ![w].pc = IF sender[w].tries + 1 >= MaxTries
                                        THEN "raised" ELSE "send"]
  /\ UNCHANGED <<row, turn, decision, review, notifies, chat, rebinds>>

SendRejected(w) ==
  /\ "rejected" \in Faults
  /\ sender[w].pc = "send"
  /\ sender' = [sender EXCEPT ![w].pc = "raised"]
  /\ UNCHANGED <<row, turn, decision, review, notifies, chat, rebinds, shown>>

(* Success: the fenced mark, the transaction of a still active decision      *)
(* becomes notified, and the turn is refreshed. A sender that lost the row   *)
(* rolls back; True only if somebody settled it.                             *)
MarkDelivered(w) ==
  LET m == sender[w].msg
      o == Owner[m]
      rows == SetStatus(row, {m}, "delivered")
      prompts == o \in Decisions
  IN  /\ sender[w].pc = "sent"
      /\ IF Owns(w, m)
         THEN /\ row' = rows
              /\ turn' = Refresh(turn, o, Statuses(rows))
              /\ IF prompts /\ review[o] = "pending" /\ decision[o] = "active"
                 THEN /\ review' = [review EXCEPT ![o] = "notified"]
                      /\ notifies' = [notifies EXCEPT ![o] = @ + 1]
                 ELSE UNCHANGED <<review, notifies>>
         ELSE /\ IF row[m].status = "delivered"
                 THEN UNCHANGED notifies ELSE CountFailure(w)
              /\ UNCHANGED <<row, turn, review>>
      /\ sender' = [sender EXCEPT ![w] = Idle]
      /\ UNCHANGED <<decision, chat, rebinds, shown>>

\* Mutant: the failure is recorded without the fence
MarkUnknownUnfenced(w) ==
  LET m == sender[w].msg
      rows == SetStatus(row, {m}, "delivery_unknown")
  IN  /\ sender[w].pc = "raised"
      /\ row' = AbandonRows(rows)
      /\ turn' = Refresh(AbandonTurns(turn, rows), Owner[m],
                         Statuses(AbandonRows(rows)))
      /\ CountFailure(w)
      /\ sender' = [sender EXCEPT ![w] = Idle]
      /\ UNCHANGED <<decision, review, chat, rebinds, shown>>

\* The except branch: fenced mark_delivery_unknown, abandon, refresh.
MarkUnknown(w) ==
  LET m == sender[w].msg
      rows == IF Owns(w, m) THEN SetStatus(row, {m}, "delivery_unknown") ELSE row
  IN  /\ sender[w].pc = "raised"
      /\ row' = AbandonRows(rows)
      /\ turn' = Refresh(AbandonTurns(turn, rows), Owner[m],
                         Statuses(AbandonRows(rows)))
      /\ CountFailure(w)
      /\ sender' = [sender EXCEPT ![w] = Idle]
      /\ UNCHANGED <<decision, review, chat, rebinds, shown>>

\* The turn's timeout cancels the task inside the send; nothing is recorded.
Cancelled(w) ==
  /\ "cancel" \in Faults
  /\ sender[w].pc = "send"
  /\ Render(sender[w].msg) \/ UNCHANGED shown
  /\ sender' = [sender EXCEPT ![w] = Idle]
  /\ UNCHANGED <<row, turn, decision, review, notifies, chat, rebinds>>

\* recover_assistant_work, the outbox part
Recover ==
  LET stale == {m \in Messages : row[m].status = "delivering" /\ ~row[m].live}
      rows == SetStatus(row, stale, "delivery_unknown")
  IN  /\ row' = AbandonRows(rows)
      /\ turn' = AbandonTurns(turn, rows)
      /\ UNCHANGED <<decision, review, notifies, chat, rebinds, sender, shown>>

(* Two minutes pass since the claim. A sender still inside its call (rate    *)
(* limited, or slow) is only overtaken in the runs that allow it.            *)
Sending(w, m) ==
  sender[w].pc \in {"send", "sent", "raised"} /\ sender[w].msg = m /\ Owns(w, m)

LeaseExpires(m) ==
  /\ row[m].status = "delivering" /\ row[m].live
  /\ "slow_send" \in Faults \/ \A w \in Workers : ~Sending(w, m)
  /\ row' = [row EXCEPT ![m].live = FALSE]
  /\ UNCHANGED <<turn, decision, review, notifies, chat, rebinds, sender, shown>>

(* The user answers a rendered message: a reply that carries its Ref token,  *)
(* or a tap. Both settle the row (settle_delivery_from_callback); a tap on a *)
(* review prompt also consumes the decision unless the choice is stale.      *)
Settled(m) ==
  IF row[m].status \in Open \cup {"abandoned"}
  THEN SetStatus(row, {m}, "delivered") ELSE row

Reply(m) ==
  LET rows == Settled(m)
  IN  /\ shown[m] > 0 /\ row[m].to = chat
      /\ row[m].status # "cancelled"
      /\ row' = rows
      /\ turn' = Refresh(turn, Owner[m], Statuses(rows))
      /\ UNCHANGED <<decision, review, notifies, chat, rebinds, sender, shown>>

Tap(m) ==
  LET d == Owner[m]
  IN  /\ d \in Decisions
      /\ shown[m] > 0 /\ row[m].to = chat
      /\ row[m].status # "cancelled"
      /\ row' = Settled(m)
      /\ \/ /\ decision[d] = "active" /\ review[d] \in {"pending", "notified"}
            /\ decision' = [decision EXCEPT ![d] = "consumed"]
            /\ review' = [review EXCEPT ![d] = "done"]
         \/ /\ decision[d] # "active" \/ "stale_choice" \in Faults
            /\ UNCHANGED <<decision, review>>
      /\ UNCHANGED <<turn, notifies, chat, rebinds, sender, shown>>

\* Mutant: the open prompt is not cancelled
SupersedeKeepingPrompt(d) ==
  /\ decision[d] = "active"
  /\ decision' = [decision EXCEPT ![d] = "superseded"]
  /\ review' = [review EXCEPT ![d] = "done"]
  /\ UNCHANGED <<row, turn, notifies, chat, rebinds, sender, shown>>

(* Another path categorises the transaction: supersede_active_decisions      *)
(* cancels the prompt if it is still open.                                   *)
Supersede(d) ==
  /\ decision[d] = "active"
  /\ decision' = [decision EXCEPT ![d] = "superseded"]
  /\ review' = [review EXCEPT ![d] = "done"]
  /\ row' = SetStatus(row, {m \in MessagesOf(d) : row[m].status \in Open}, "cancelled")
  /\ UNCHANGED <<turn, notifies, chat, rebinds, sender, shown>>

\* save_settings: the operator points the bot at another chat.
ChangeChat(c) ==
  /\ rebinds < MaxRebinds /\ c # chat
  /\ chat' = c
  /\ rebinds' = rebinds + 1
  /\ UNCHANGED <<row, turn, decision, review, notifies, sender, shown>>

\* The process dies: every send in flight is lost, also one that was rendered.
Crash ==
  /\ "crash" \in Faults
  /\ \E w \in Workers : sender[w] # Idle
  /\ \/ UNCHANGED shown
     \/ \E w \in Workers : sender[w].pc = "send" /\ Render(sender[w].msg)
  /\ sender' = [w \in Workers |-> Idle]
  /\ UNCHANGED <<row, turn, decision, review, notifies, chat, rebinds>>

-----------------------------------------------------------------------------
SenderStep(w) ==
  \/ ReadPrompt(w) \/ CancelForAuthorization(w)
  \/ ClaimWins(w) \/ ClaimLoses(w)
  \/ SendAccepted(w) \/ SendUnanswered(w) \/ SendRejected(w)
  \/ MarkDelivered(w) \/ MarkUnknown(w)

Next ==
  \/ \E t \in Turns : Queue(t)
  \/ \E w \in Workers, m \in Messages : Dispatch(w, m) \/ Notify(w, m)
  \/ \E w \in Workers : SenderStep(w) \/ Cancelled(w)
  \/ Recover
  \/ \E m \in Messages : LeaseExpires(m) \/ Reply(m) \/ Tap(m)
  \/ \E d \in Decisions : Supersede(d)
  \/ \E c \in Chats : ChangeChat(c)
  \/ Crash

Spec == Init /\ [][Next]_vars

(* The fetch cycle recovers and dispatches again and again, a send returns   *)
(* or raises, and leases expire. Nothing makes the user answer.              *)
Fairness ==
  /\ WF_vars(Recover)
  /\ \A t \in Turns : WF_vars(Queue(t))
  /\ \A m \in Messages :
       /\ WF_vars(LeaseExpires(m))
       /\ SF_vars(row[m].status \in {"pending", "delivery_unknown"}
                  /\ \E w \in Workers : Dispatch(w, m))
  /\ \A w \in Workers : WF_vars(SenderStep(w))

FairSpec == Spec /\ Fairness

-----------------------------------------------------------------------------
Rows == [status : Open \cup Final \cup {"absent"}, attempts : 0..MaxAttempts,
         token : Workers \cup {NoWorker}, live : BOOLEAN, to : Chats]
Senders == [pc : {"idle", "open", "cancel", "claim", "send", "sent", "raised"},
            msg : Messages \cup {NoMessage},
            status : Open \cup {"absent"}, attempts : 0..MaxAttempts,
            tries : 0..MaxTries, notify : BOOLEAN, notifies : 0..MaxNotifies]

(* Every variable has its type. In particular an attempt renders a message   *)
(* at most MaxTries times and a row is claimed at most MaxAttempts times.    *)
TypeOK ==
  /\ row \in [Messages -> Rows]
  /\ turn \in [Turns -> {"processing", "ready_to_send", "delivery_partial",
                        "delivered", "delivery_failed"}]
  /\ decision \in [Decisions -> {"active", "consumed", "superseded"}]
  /\ review \in [Decisions -> {"pending", "notified", "done"}]
  /\ notifies \in [Decisions -> 0..MaxNotifies + 1]
  /\ chat \in Chats /\ rebinds \in 0..MaxRebinds
  /\ sender \in [Workers -> Senders]
  /\ shown \in [Messages -> 0..MaxShown]

(* A turn is recorded delivered only when every one of its messages is       *)
(* (refresh_interaction_delivery_status, against abandonment, cancellation,  *)
(* late taps and dispatchers that lost their claim).                         *)
DeliveredTurnIsComplete ==
  \A t \in Turns : turn[t] = "delivered" =>
    \A m \in MessagesOf(t) : row[m].status = "delivered"

(* A message that one task sends is never sent by another: with answered     *)
(* sends and leases that outlive them, Telegram renders each message at most *)
(* once, whatever dispatchers, cycles and taps race.                         *)
ShownOnce == \A m \in Messages : shown[m] <= 1

(* Once the transaction has its category, its prompt is not sent (again): no *)
(* later step claims the prompt's row.                                       *)
AnsweredIsNotAsked ==
  [][\A m \in Messages :
       Owner[m] \in Decisions /\ review[Owner[m]] = "done" =>
         row'[m].attempts = row[m].attempts]_vars

(* The outbox implements the promise of OutboxPromise for every message.     *)
Fate ==
  [m \in Messages |-> CASE row[m].status = "delivered" -> "delivered"
                        [] row[m].status = "abandoned" -> "dropped"
                        [] row[m].status = "cancelled" -> "withdrawn"
                        [] OTHER -> "waiting"]
Promise == INSTANCE OutboxPromise WITH fate <- Fate
KeepsPromise == Promise!Spec

\* Every message of the outbox is in the end delivered, cancelled or abandoned.
MessagesSettle ==
  \A m \in Messages : row[m].status \in Open ~> row[m].status \in Final

\* Every queued turn in the end records the outcome of its messages.
TurnsSettle ==
  \A t \in Turns :
    turn[t] = "ready_to_send" ~> turn[t] \in {"delivered", "delivery_failed"}
=============================================================================
