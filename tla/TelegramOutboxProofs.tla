------------------------ MODULE TelegramOutboxProofs ------------------------
(* For any messages, senders, limits and faults:                             *)
(*   - the outbox keeps its promise, and a delivered turn is complete, as    *)
(*     long as the chat stays the same (a change of the chat may cancel a    *)
(*     message that was delivered meanwhile);                                *)
(*   - an answered prompt is never claimed again, whatever the chat does;    *)
(*   - no message is shown twice, where each call is answered before its     *)
(*     lease ends, whatever the chat does.                                   *)
EXTENDS TelegramOutbox, TLAPS

TurnStatuses == {"processing", "ready_to_send", "delivery_partial", "delivered",
                 "delivery_failed"}
Tasks == [pc : {"idle", "open", "claim", "send", "sent", "raised"},
          msg : Messages \cup {NoMessage}, status : Open \cup {"absent"},
          attempts : Nat, tries : Nat, notify : BOOLEAN, notifies : Nat]

(* The types that the safety of the outbox rests on. No sender is about to   *)
(* cancel, since no recipient differs from the chat.                         *)
Typed ==
  /\ row \in [Messages -> Rows]
  /\ turn \in [Turns -> TurnStatuses]
  /\ sender \in [Workers -> Tasks]
  /\ shown \in [Messages -> Nat]
  /\ notifies \in [Decisions -> Nat]
  /\ rebinds = 0 /\ chat \in Chats
  /\ \A m \in Messages : row[m].to = chat

(* A sender works on a row that exists; what it has sent was shown; what     *)
(* does not exist was not.                                                   *)
InOrder(task, rows, seen) ==
  task.pc # "idle" =>
    /\ task.msg \in Messages /\ rows[task.msg].status # "absent"
    /\ task.pc = "sent" => seen[task.msg] > 0

SendersInOrder ==
  /\ \A w \in Workers : InOrder(sender[w], row, shown)
  /\ \A m \in Messages : row[m].status = "absent" => shown[m] = 0

(* The rows of a turn are made when it is finalized, not before. *)
QueuedOnce ==
  \A t \in Turns : turn[t] = "processing" =>
    \A m \in MessagesOf(t) : row[m].status = "absent"

OutboxInv == Typed /\ SendersInOrder /\ QueuedOnce /\ DeliveredTurnIsComplete

-----------------------------------------------------------------------------
(* delivery.py on rows and turns.                                            *)

LEMMA SetStatusRows ==
  ASSUME NEW rows \in [Messages -> Rows], NEW S, NEW s \in Open \cup Final
  PROVE  /\ SetStatus(rows, S, s) \in [Messages -> Rows]
         /\ \A m \in Messages :
              /\ SetStatus(rows, S, s)[m].status = (IF m \in S THEN s ELSE rows[m].status)
              /\ SetStatus(rows, S, s)[m].to = rows[m].to
BY DEF SetStatus, Rows

LEMMA AbandonedRows ==
  ASSUME NEW rows \in [Messages -> Rows]
  PROVE  /\ AbandonRows(rows) \in [Messages -> Rows]
         /\ \A m \in Messages :
              /\ AbandonRows(rows)[m].status
                   = (IF Exhausted(rows[m]) THEN "abandoned" ELSE rows[m].status)
              /\ AbandonRows(rows)[m].to = rows[m].to
BY DEF AbandonRows, Rows, Open, Final

LEMMA AbandonedTurns ==
  ASSUME NEW turns \in [Turns -> TurnStatuses], NEW rows
  PROVE  /\ AbandonTurns(turns, rows) \in [Turns -> TurnStatuses]
         /\ \A t \in Turns : AbandonTurns(turns, rows)[t] \in {turns[t], "delivery_failed"}
BY DEF AbandonTurns, TurnStatuses

(* The aggregate says delivered only of a turn whose messages all are. *)
LEMMA AggregateOf ==
  ASSUME NEW t, NEW seen
  PROVE  /\ Aggregate(t, seen) \in TurnStatuses \ {"processing"}
         /\ Aggregate(t, seen) = "delivered" => \A m \in MessagesOf(t) : seen[m] = "delivered"
<1> DEFINE S == {seen[m] : m \in MessagesOf(t)}
<1>1. Aggregate(t, seen) = CASE S = {"delivered"} -> "delivered"
        [] S \cap {"abandoned", "cancelled"} # {} -> "delivery_failed"
        [] S \cap {"abandoned", "cancelled"} = {}
           /\ S \cap {"delivering", "delivery_unknown"} # {} -> "delivery_partial"
        [] OTHER -> "ready_to_send"
  BY DEF Aggregate
<1>2. \A m \in MessagesOf(t) : seen[m] \in S
  OBVIOUS
<1>3. S = {"delivered"} => \A m \in MessagesOf(t) : seen[m] = "delivered"
  BY <1>2
<1> HIDE DEF S
<1>4. \/ S = {"delivered"} /\ Aggregate(t, seen) = "delivered"
      \/ Aggregate(t, seen) \in {"delivery_failed", "delivery_partial", "ready_to_send"}
  BY <1>1
<1> QED
  BY <1>3, <1>4 DEF TurnStatuses

LEMMA RefreshedTurns ==
  ASSUME NEW turns \in [Turns -> TurnStatuses], NEW o, NEW seen
  PROVE  /\ Refresh(turns, o, seen) \in [Turns -> TurnStatuses]
         /\ \A t \in Turns :
              \/ Refresh(turns, o, seen)[t] = turns[t]
              \/ /\ t = o /\ Refresh(turns, o, seen)[t] # "processing"
                 /\ Refresh(turns, o, seen)[t] = "delivered" =>
                      \A m \in MessagesOf(t) : seen[m] = "delivered"
BY AggregateOf DEF Refresh

-----------------------------------------------------------------------------
(* What every step keeps.                                                    *)

(* Rows do not disappear, and a delivered one stays delivered. *)
RowsStay ==
  \A m \in Messages :
    /\ row[m].status # "absent" => row'[m].status # "absent"
    /\ row[m].status = "delivered" => row'[m].status = "delivered"

(* A turn keeps its status, fails, or is recorded as its messages are. *)
TurnMoves(t) ==
  \/ turn'[t] = turn[t]
  \/ turn'[t] = "delivery_failed"
  \/ /\ turn'[t] # "processing"
     /\ turn'[t] = "delivered" => \A m \in MessagesOf(t) : row'[m].status = "delivered"

LEMMA StepKeeps ==
  ASSUME OutboxInv,
         row' \in [Messages -> Rows], \A m \in Messages : row'[m].to = chat,
         turn' \in [Turns -> TurnStatuses],
         sender' \in [Workers -> Tasks],
         shown' \in [Messages -> Nat],
         notifies' \in [Decisions -> Nat],
         UNCHANGED <<rebinds, chat>>,
         RowsStay,
         \A t \in Turns : TurnMoves(t),
         \A t \in Turns : turn'[t] = "processing" => \A m \in MessagesOf(t) :
            row[m].status = "absent" => row'[m].status = "absent",
         \A m \in Messages : row'[m].status = "absent" => shown'[m] = shown[m],
         \A w \in Workers : InOrder(sender'[w], row', shown')
  PROVE  OutboxInv'
<1>1. Typed'
  BY DEF OutboxInv, Typed
<1>2. SendersInOrder'
  BY DEF OutboxInv, SendersInOrder, RowsStay
<1>3. QueuedOnce'
  <2> SUFFICES ASSUME NEW t \in Turns, turn'[t] = "processing", NEW m \in MessagesOf(t)
               PROVE  row'[m].status = "absent"
    BY DEF QueuedOnce
  <2>1. turn[t] = "processing"
    BY DEF TurnMoves
  <2> QED
    BY <2>1 DEF OutboxInv, QueuedOnce
<1>4. DeliveredTurnIsComplete'
  <2> SUFFICES ASSUME NEW t \in Turns, turn'[t] = "delivered", NEW m \in MessagesOf(t)
               PROVE  row'[m].status = "delivered"
    BY DEF DeliveredTurnIsComplete
  <2>1. CASE turn'[t] = turn[t]
    BY <2>1 DEF OutboxInv, DeliveredTurnIsComplete, RowsStay, MessagesOf
  <2>2. CASE turn'[t] # turn[t]
    BY <2>2 DEF TurnMoves
  <2> QED
    BY <2>1, <2>2
<1> QED
  BY <1>1, <1>2, <1>3, <1>4 DEF OutboxInv

(* One worker takes a step and the others' rows stay. *)
LEMMA TaskStep ==
  ASSUME OutboxInv, RowsStay, \A m \in Messages : shown'[m] >= shown[m],
         shown \in [Messages -> Nat], shown' \in [Messages -> Nat],
         NEW w \in Workers, NEW task \in Tasks, InOrder(task, row', shown'),
         sender' = [sender EXCEPT ![w] = task]
  PROVE  /\ sender' \in [Workers -> Tasks]
         /\ \A v \in Workers : InOrder(sender'[v], row', shown')
<1>1. sender \in [Workers -> Tasks] /\ \A v \in Workers : InOrder(sender[v], row, shown)
  BY DEF OutboxInv, Typed, SendersInOrder
<1>2. \A v \in Workers : InOrder(sender[v], row', shown')
  <2> SUFFICES ASSUME NEW v \in Workers, sender[v].pc # "idle"
               PROVE  /\ sender[v].msg \in Messages /\ row'[sender[v].msg].status # "absent"
                      /\ sender[v].pc = "sent" => shown'[sender[v].msg] > 0
    BY DEF InOrder
  <2>1. sender[v].msg \in Messages /\ row[sender[v].msg].status # "absent"
    BY <1>1 DEF InOrder
  <2>2. sender[v].pc = "sent" => shown[sender[v].msg] > 0
    BY <1>1 DEF InOrder
  <2> QED
    BY <2>1, <2>2 DEF RowsStay
<1> QED
  BY <1>1, <1>2

LEMMA IdleIsTask == Idle \in Tasks /\ Idle.pc = "idle"
BY DEF Idle, Tasks

LEMMA IdleInOrder == \A rows, seen : InOrder(Idle, rows, seen)
BY IdleIsTask DEF InOrder

(* Nobody moves, but rows or counts do. *)
LEMMA NoTaskStep ==
  ASSUME OutboxInv, RowsStay, UNCHANGED <<sender, shown>>
  PROVE  /\ sender' \in [Workers -> Tasks]
         /\ \A v \in Workers : InOrder(sender'[v], row', shown')
BY DEF OutboxInv, Typed, SendersInOrder, InOrder, RowsStay

-----------------------------------------------------------------------------
(* Every action keeps the invariant.                                         *)

LEMMA QueueKeeps ==
  ASSUME OutboxInv, OutboxAssumption, NEW t \in Turns, Queue(t)
  PROVE  OutboxInv'
<1>1. NewRow \in Rows /\ NewRow.status = "pending" /\ NewRow.to = chat
  BY DEF NewRow, Rows, Open, OutboxAssumption, OutboxInv, Typed
<1> HIDE DEF NewRow
<1>2. /\ row' = [m \in Messages |-> IF Owner[m] = t THEN NewRow ELSE row[m]]
      /\ turn' = [turn EXCEPT ![t] = "ready_to_send"] /\ turn[t] = "processing"
      /\ UNCHANGED <<notifies, chat, rebinds, sender, shown>>
  BY DEF Queue
<1>3. /\ row' \in [Messages -> Rows] /\ \A m \in Messages : row'[m].to = chat
      /\ turn' \in [Turns -> TurnStatuses]
  BY <1>1, <1>2 DEF OutboxInv, Typed, TurnStatuses
<1>4. RowsStay
  BY <1>1, <1>2 DEF RowsStay, OutboxInv, QueuedOnce, MessagesOf
<1>5. \A u \in Turns : TurnMoves(u)
  BY <1>2 DEF TurnMoves, OutboxInv, Typed
<1>6. \A u \in Turns : turn'[u] = "processing" => \A m \in MessagesOf(u) :
         row[m].status = "absent" => row'[m].status = "absent"
  BY <1>2 DEF MessagesOf, OutboxInv, Typed
<1> QED
  BY <1>2, <1>3, <1>4, <1>5, <1>6, NoTaskStep, StepKeeps DEF OutboxInv, Typed

(* A step that only moves one sender, perhaps after Telegram rendered its    *)
(* message.                                                                  *)
LEMMA SenderKeeps ==
  ASSUME OutboxInv, NEW w \in Workers, NEW task \in Tasks,
         UNCHANGED <<row, turn, chat, rebinds>>,
         notifies' \in [Decisions -> Nat],
         sender' = [sender EXCEPT ![w] = task],
         \/ UNCHANGED shown
         \/ sender[w].pc # "idle" /\ Render(sender[w].msg),
         InOrder(task, row, shown')
  PROVE  OutboxInv'
<1>1. shown' \in [Messages -> Nat] /\ \A m \in Messages : shown'[m] >= shown[m]
  BY DEF Render, OutboxInv, Typed
<1>2. \A m \in Messages : row'[m].status = "absent" => shown'[m] = shown[m]
  BY DEF Render, OutboxInv, Typed, SendersInOrder, InOrder
<1>3. RowsStay /\ \A t \in Turns : TurnMoves(t)
  BY DEF RowsStay, TurnMoves
<1>4. /\ sender' \in [Workers -> Tasks]
      /\ \A v \in Workers : InOrder(sender'[v], row', shown')
  BY <1>1, <1>3, TaskStep DEF OutboxInv, Typed
<1> QED
  BY <1>1, <1>2, <1>3, <1>4, StepKeeps DEF OutboxInv, Typed

LEMMA SavedRowTask ==
  ASSUME OutboxInv, OutboxAssumption, NEW task \in Tasks, NEW m \in Messages,
         row[m].status \in Open
  PROVE  /\ SavedRow(task, m) \in Tasks
         /\ InOrder(SavedRow(task, m), row, shown)
<1>1. row[m].to = chat /\ row[m].attempts \in Nat
  BY DEF OutboxInv, Typed, Rows, OutboxAssumption
<1>2. SavedRow(task, m)
        = [task EXCEPT !.pc = "claim", !.msg = m, !.status = row[m].status,
                       !.attempts = row[m].attempts]
  BY <1>1 DEF SavedRow
<1> QED
  BY <1>1, <1>2 DEF Tasks, InOrder, Open

LEMMA DispatchKeeps ==
  ASSUME OutboxInv, OutboxAssumption, NEW w \in Workers, NEW m \in Messages,
         Dispatch(w, m)
  PROVE  OutboxInv'
<1>1. SavedRow(Idle, m) \in Tasks /\ InOrder(SavedRow(Idle, m), row, shown)
  BY IdleIsTask, SavedRowTask DEF Dispatch
<1> QED
  BY <1>1, SenderKeeps DEF Dispatch, OutboxInv, Typed

LEMMA NotifyKeeps ==
  ASSUME OutboxInv, OutboxAssumption, NEW w \in Workers, NEW m \in Messages,
         Notify(w, m)
  PROVE  OutboxInv'
<1> DEFINE task == [Idle EXCEPT !.pc = "open", !.msg = m, !.notify = TRUE,
                                !.notifies = notifies[Owner[m]]]
<1>1. NewRow \in Rows /\ NewRow.status = "pending" /\ NewRow.to = chat
  BY DEF NewRow, Rows, Open, OutboxAssumption, OutboxInv, Typed
<1>2. /\ Owner[m] \in Decisions
      /\ row' = IF row[m].status = "absent" THEN [row EXCEPT ![m] = NewRow] ELSE row
      /\ sender' = [sender EXCEPT ![w] = task]
      /\ UNCHANGED <<turn, notifies, chat, rebinds, shown>>
  BY DEF Notify
<1> HIDE DEF NewRow
<1>3. task \in Tasks /\ task.pc = "open" /\ task.msg = m
  BY <1>2 DEF Idle, Tasks, OutboxInv, Typed
<1> HIDE DEF task
<1>4. /\ row' \in [Messages -> Rows]
      /\ \A n \in Messages : row'[n] = row[n] \/ (n = m /\ row'[n] = NewRow)
      /\ row'[m].status # "absent" /\ RowsStay
  BY <1>1, <1>2 DEF OutboxInv, Typed, RowsStay
<1>5. \A n \in Messages : row'[n].to = chat
  BY <1>1, <1>4 DEF OutboxInv, Typed
<1>a. \A n \in Messages : shown'[n] >= shown[n]
  BY <1>2 DEF OutboxInv, Typed
<1>b. InOrder(task, row', shown')
  BY <1>3, <1>4 DEF InOrder
<1>6. /\ sender' \in [Workers -> Tasks]
      /\ \A v \in Workers : InOrder(sender'[v], row', shown')
  BY <1>2, <1>3, <1>4, <1>a, <1>b, TaskStep DEF OutboxInv, Typed
<1>7. \A t \in Turns : \A n \in MessagesOf(t) : n # m
  BY <1>2 DEF MessagesOf, OutboxAssumption
<1>8. \A t \in Turns : turn'[t] = "processing" => \A n \in MessagesOf(t) :
         row[n].status = "absent" => row'[n].status = "absent"
  BY <1>4, <1>7 DEF MessagesOf
<1>9. \A t \in Turns : TurnMoves(t)
  BY <1>2 DEF TurnMoves
<1> QED
  BY <1>2, <1>4, <1>5, <1>6, <1>8, <1>9, StepKeeps DEF OutboxInv, Typed

LEMMA CountedFailures ==
  ASSUME OutboxInv, NEW w \in Workers, CountFailure(w)
  PROVE  notifies' \in [Decisions -> Nat]
<1> DEFINE d == Owner[sender[w].msg]
           n == sender[w].notifies + 1
<1>1. n \in Nat
  BY DEF OutboxInv, Typed, Tasks
<1>2. notifies' = notifies \/ notifies' = [notifies EXCEPT ![d] = n]
  BY DEF CountFailure
<1> HIDE DEF d, n
<1> QED
  BY <1>1, <1>2 DEF OutboxInv, Typed

LEMMA ReadPromptKeeps ==
  ASSUME OutboxInv, OutboxAssumption, NEW w \in Workers, ReadPrompt(w)
  PROVE  OutboxInv'
<1> DEFINE m == sender[w].msg
<1>1. sender[w] \in Tasks /\ m \in Messages
  BY DEF ReadPrompt, OutboxInv, Typed, SendersInOrder, InOrder
<1>2. UNCHANGED <<row, turn, chat, rebinds, shown>>
  BY DEF ReadPrompt
<1>3. CASE row[m].status \in Open
  <2>1. SavedRow(sender[w], m) \in Tasks /\ InOrder(SavedRow(sender[w], m), row, shown)
    BY <1>1, <1>3, SavedRowTask
  <2>2. sender' = [sender EXCEPT ![w] = SavedRow(sender[w], m)] /\ UNCHANGED notifies
    BY <1>3 DEF ReadPrompt
  <2> QED
    BY <1>2, <2>1, <2>2, SenderKeeps DEF OutboxInv, Typed
<1>4. CASE row[m].status \notin Open
  <2>1. sender' = [sender EXCEPT ![w] = Idle] /\ notifies' \in [Decisions -> Nat]
    BY <1>4, CountedFailures DEF ReadPrompt, OutboxInv, Typed
  <2> QED
    BY <1>2, <2>1, SenderKeeps, IdleIsTask, IdleInOrder
<1> QED
  BY <1>3, <1>4

LEMMA SendKeeps ==
  ASSUME OutboxInv, NEW w \in Workers,
         SendAccepted(w) \/ SendUnanswered(w) \/ SendRejected(w) \/ Cancelled(w)
  PROVE  OutboxInv'
<1> DEFINE m == sender[w].msg
           Task(pc, tries) == [sender[w] EXCEPT !.pc = pc, !.tries = tries]
<1>1. /\ sender[w].pc = "send"
      /\ UNCHANGED <<row, turn, notifies, chat, rebinds>>
      /\ UNCHANGED shown \/ Render(m)
  BY DEF SendAccepted, SendUnanswered, SendRejected, Cancelled
<1>2. sender[w] \in Tasks /\ m \in Messages /\ row[m].status # "absent"
  BY <1>1 DEF OutboxInv, Typed, SendersInOrder, InOrder
<1>3. SendAccepted(w) => shown'[m] > 0
  BY <1>2 DEF SendAccepted, Render, OutboxInv, Typed
<1>4. sender[w].tries \in Nat
  BY <1>2 DEF Tasks
<1>5. \/ sender' = [sender EXCEPT ![w] = Idle]
      \/ \E pc \in {"send", "sent", "raised"}, tries \in Nat :
           /\ sender' = [sender EXCEPT ![w] = Task(pc, tries)]
           /\ pc = "sent" => SendAccepted(w)
  <2>1. CASE SendAccepted(w)
    <3>1. sender' = [sender EXCEPT ![w] = Task("sent", sender[w].tries)]
      BY <2>1, <1>2 DEF SendAccepted, OutboxInv, Typed, Tasks
    <3> QED
      BY <2>1, <3>1, <1>4
  <2>2. CASE SendUnanswered(w)
    <3> DEFINE pc == IF sender[w].tries + 1 >= MaxTries THEN "raised" ELSE "send"
    <3>1. sender' = [sender EXCEPT ![w] = Task(pc, sender[w].tries + 1)]
      BY <2>2, <1>2 DEF SendUnanswered, OutboxInv, Typed, Tasks
    <3>2. pc \in {"send", "raised"} /\ sender[w].tries + 1 \in Nat
      BY <1>4
    <3> HIDE DEF pc, Task
    <3> QED
      BY <3>1, <3>2
  <2>3. CASE SendRejected(w)
    <3>1. sender' = [sender EXCEPT ![w] = Task("raised", sender[w].tries)]
      BY <2>3, <1>2 DEF SendRejected, OutboxInv, Typed, Tasks
    <3> HIDE DEF Task
    <3> QED
      BY <3>1, <1>4
  <2>4. CASE Cancelled(w)
    BY <2>4 DEF Cancelled
  <2> QED
    BY <2>1, <2>2, <2>3, <2>4
<1>6. CASE sender' = [sender EXCEPT ![w] = Idle]
  BY <1>1, <1>6, SenderKeeps, IdleIsTask, IdleInOrder DEF OutboxInv, Typed
<1>7. ASSUME NEW pc \in {"send", "sent", "raised"}, NEW tries \in Nat,
             sender' = [sender EXCEPT ![w] = Task(pc, tries)],
             pc = "sent" => SendAccepted(w)
      PROVE  OutboxInv'
  <2>1. Task(pc, tries) \in Tasks /\ Task(pc, tries).pc = pc /\ Task(pc, tries).msg = m
    BY <1>2 DEF Tasks
  <2> HIDE DEF Task
  <2>2. InOrder(Task(pc, tries), row, shown')
    BY <1>2, <1>3, <1>7, <2>1 DEF InOrder
  <2> QED
    BY <1>1, <1>7, <2>1, <2>2, SenderKeeps DEF OutboxInv, Typed
<1> QED
  BY <1>5, <1>6, <1>7

LEMMA ClaimWinsKeeps ==
  ASSUME OutboxInv, OutboxAssumption, NEW w \in Workers, ClaimWins(w)
  PROVE  OutboxInv'
<1> DEFINE m == sender[w].msg
           task == [sender[w] EXCEPT !.pc = "send"]
           claimed == ClaimDelivery(row[m], w)
<1>1. m \in Messages /\ row[m].status # "absent" /\ sender[w] \in Tasks
  BY DEF ClaimWins, OutboxInv, Typed, SendersInOrder, InOrder
<1>2. /\ row' = [row EXCEPT ![m] = claimed] /\ sender' = [sender EXCEPT ![w] = task]
      /\ UNCHANGED <<turn, notifies, chat, rebinds, shown>>
  BY DEF ClaimWins, OutboxInv, Typed
<1>3. row[m].attempts + 1 \in 0..MaxAttempts /\ row[m] \in Rows
      /\ row[m].status # "delivered" /\ row[m].to = chat
  BY <1>1 DEF ClaimWins, Claimable, OutboxInv, Typed, Rows, OutboxAssumption
<1>4. claimed \in Rows /\ claimed.status = "delivering" /\ claimed.to = chat
  BY <1>3 DEF ClaimDelivery, Rows, Open
<1>5. task \in Tasks /\ task.pc = "send" /\ task.msg = m
  BY <1>1 DEF Tasks
<1> HIDE DEF claimed, task
<1>6. /\ row' \in [Messages -> Rows] /\ RowsStay
      /\ \A n \in Messages : row'[n].to = chat
      /\ \A n \in Messages : row'[n].status = "absent" <=> row[n].status = "absent"
  BY <1>1, <1>2, <1>3, <1>4 DEF OutboxInv, Typed, RowsStay
<1>7. InOrder(task, row', shown')
  BY <1>1, <1>5, <1>6 DEF InOrder
<1>8. \A n \in Messages : shown'[n] >= shown[n]
  BY <1>2 DEF OutboxInv, Typed
<1>9. /\ sender' \in [Workers -> Tasks]
      /\ \A v \in Workers : InOrder(sender'[v], row', shown')
  BY <1>2, <1>5, <1>6, <1>7, <1>8, TaskStep DEF OutboxInv, Typed
<1>10. \A t \in Turns : TurnMoves(t)
  BY <1>2 DEF TurnMoves
<1>11. \A t \in Turns : turn'[t] = "processing" => \A n \in MessagesOf(t) :
          row[n].status = "absent" => row'[n].status = "absent"
  BY <1>6 DEF MessagesOf
<1> QED
  BY <1>2, <1>6, <1>9, <1>10, <1>11, StepKeeps DEF OutboxInv, Typed

(* Rows and turns are settled; a sender may be done. *)
LEMMA SettleKeeps ==
  ASSUME OutboxInv,
         row' \in [Messages -> Rows],
         \A m \in Messages :
           /\ row'[m].to = row[m].to
           /\ row'[m].status = "absent" <=> row[m].status = "absent"
           /\ row[m].status = "delivered" => row'[m].status = "delivered",
         turn' \in [Turns -> TurnStatuses], \A t \in Turns : TurnMoves(t),
         notifies' \in [Decisions -> Nat],
         UNCHANGED <<rebinds, chat, shown>>,
         UNCHANGED sender \/ \E w \in Workers : sender' = [sender EXCEPT ![w] = Idle]
  PROVE  OutboxInv'
<1>1. RowsStay /\ \A m \in Messages : row'[m].to = chat
  BY DEF RowsStay, OutboxInv, Typed
<1>2. \A m \in Messages : shown'[m] >= shown[m]
  BY DEF OutboxInv, Typed
<1>3. /\ sender' \in [Workers -> Tasks]
      /\ \A v \in Workers : InOrder(sender'[v], row', shown')
  <2>1. CASE UNCHANGED sender
    BY <1>1, <2>1, NoTaskStep
  <2>2. ASSUME NEW w \in Workers, sender' = [sender EXCEPT ![w] = Idle]
        PROVE  /\ sender' \in [Workers -> Tasks]
               /\ \A v \in Workers : InOrder(sender'[v], row', shown')
    BY <1>1, <1>2, <2>2, TaskStep, IdleIsTask, IdleInOrder DEF OutboxInv, Typed
  <2> QED
    BY <2>1, <2>2
<1>4. \A t \in Turns : turn'[t] = "processing" => \A n \in MessagesOf(t) :
         row[n].status = "absent" => row'[n].status = "absent"
  BY DEF MessagesOf
<1> QED
  BY <1>1, <1>3, <1>4, StepKeeps DEF OutboxInv, Typed

LEMMA MovesByRefresh ==
  ASSUME NEW turns \in [Turns -> TurnStatuses], turn \in [Turns -> TurnStatuses],
         \A t \in Turns : turns[t] \in {turn[t], "delivery_failed"},
         NEW o, NEW seen, turn' = Refresh(turns, o, seen),
         (\A m \in MessagesOf(o) : seen[m] = "delivered") =>
            \A m \in MessagesOf(o) : row'[m].status = "delivered"
  PROVE  turn' \in [Turns -> TurnStatuses] /\ \A t \in Turns : TurnMoves(t)
<1> SUFFICES ASSUME NEW t \in Turns
             PROVE  TurnMoves(t)
  BY RefreshedTurns
<1>1. \/ turn'[t] = turns[t]
      \/ /\ t = o /\ turn'[t] # "processing"
         /\ turn'[t] = "delivered" => \A m \in MessagesOf(t) : seen[m] = "delivered"
  BY RefreshedTurns
<1> QED
  BY <1>1 DEF TurnMoves

LEMMA ClaimLosesKeeps ==
  ASSUME OutboxInv, NEW w \in Workers, ClaimLoses(w)
  PROVE  OutboxInv'
<1> DEFINE m == sender[w].msg
           old == IF Exhausted(sender[w]) THEN "abandoned" ELSE sender[w].status
           seen == [Statuses(AbandonRows(row)) EXCEPT ![m] = old]
           turns == AbandonTurns(turn, row)
<1>1. m \in Messages /\ sender[w] \in Tasks
  BY DEF ClaimLoses, OutboxInv, Typed, SendersInOrder, InOrder
<1>2. /\ row' = AbandonRows(row)
      /\ turn' = Refresh(turns, Owner[m], seen)
      /\ CountFailure(w)
      /\ sender' = [sender EXCEPT ![w] = Idle]
      /\ UNCHANGED <<chat, rebinds, shown>>
  BY DEF ClaimLoses
<1>3. old # "delivered"
  BY <1>1 DEF Tasks, Open
<1>4. seen[m] = old
  BY <1>1 DEF Statuses
<1>5. m \in MessagesOf(Owner[m])
  BY <1>1 DEF MessagesOf
<1> HIDE DEF old, seen
<1>6. ~ \A n \in MessagesOf(Owner[m]) : seen[n] = "delivered"
  BY <1>3, <1>4, <1>5
<1>7. turns \in [Turns -> TurnStatuses]
      /\ \A t \in Turns : turns[t] \in {turn[t], "delivery_failed"}
  BY AbandonedTurns DEF OutboxInv, Typed
<1> HIDE DEF turns
<1>8. turn' \in [Turns -> TurnStatuses] /\ \A t \in Turns : TurnMoves(t)
  BY <1>2, <1>6, <1>7, MovesByRefresh DEF OutboxInv, Typed
<1> HIDE DEF m
<1>9. /\ row' \in [Messages -> Rows]
      /\ \A n \in Messages :
           /\ row'[n].to = row[n].to
           /\ row'[n].status = "absent" <=> row[n].status = "absent"
           /\ row[n].status = "delivered" => row'[n].status = "delivered"
  BY <1>2, AbandonedRows DEF Exhausted, OutboxInv, Typed
<1> QED
  BY <1>2, <1>8, <1>9, CountedFailures, SettleKeeps

LEMMA MarkUnknownKeeps ==
  ASSUME OutboxInv, NEW w \in Workers, MarkUnknown(w)
  PROVE  OutboxInv'
<1> DEFINE m == sender[w].msg
           rows == IF Owns(w, m) THEN SetStatus(row, {m}, "delivery_unknown") ELSE row
           seen == Statuses(AbandonRows(rows))
           turns == AbandonTurns(turn, rows)
<1>1. /\ row' = AbandonRows(rows)
      /\ turn' = Refresh(turns, Owner[m], seen)
      /\ CountFailure(w)
      /\ sender' = [sender EXCEPT ![w] = Idle]
      /\ UNCHANGED <<chat, rebinds, shown>>
  BY DEF MarkUnknown
<1>2. /\ rows \in [Messages -> Rows]
      /\ \A n \in Messages :
           /\ rows[n].to = row[n].to
           /\ rows[n].status = "absent" <=> row[n].status = "absent"
           /\ row[n].status = "delivered" => rows[n].status = "delivered"
  <2>1. CASE Owns(w, m)
    BY <2>1, SetStatusRows DEF Owns, Open, OutboxInv, Typed
  <2>2. CASE ~Owns(w, m)
    BY <2>2 DEF OutboxInv, Typed
  <2> QED
    BY <2>1, <2>2
<1> HIDE DEF rows
<1>3. /\ row' \in [Messages -> Rows]
      /\ \A n \in Messages :
           /\ row'[n].to = row[n].to
           /\ row'[n].status = "absent" <=> row[n].status = "absent"
           /\ row[n].status = "delivered" => row'[n].status = "delivered"
  BY <1>1, <1>2, AbandonedRows DEF Exhausted
<1>4. \A n \in Messages : seen[n] = row'[n].status
  BY <1>1 DEF Statuses
<1>5. turns \in [Turns -> TurnStatuses]
      /\ \A t \in Turns : turns[t] \in {turn[t], "delivery_failed"}
  BY AbandonedTurns DEF OutboxInv, Typed
<1> HIDE DEF turns, seen
<1>6. turn' \in [Turns -> TurnStatuses] /\ \A t \in Turns : TurnMoves(t)
  BY <1>1, <1>4, <1>5, MovesByRefresh DEF MessagesOf, OutboxInv, Typed
<1> QED
  BY <1>1, <1>3, <1>6, CountedFailures, SettleKeeps

LEMMA MarkDeliveredKeeps ==
  ASSUME OutboxInv, NEW w \in Workers, MarkDelivered(w)
  PROVE  OutboxInv'
<1> DEFINE m == sender[w].msg
           rows == SetStatus(row, {m}, "delivered")
<1>1. sender' = [sender EXCEPT ![w] = Idle] /\ UNCHANGED <<chat, rebinds, shown>>
  BY DEF MarkDelivered
<1>2. CASE Owns(w, m)
  <2>1. /\ row' = rows /\ turn' = Refresh(turn, Owner[m], Statuses(rows))
        /\ \/ notifies' = [notifies EXCEPT ![Owner[m]] = @ + 1]
           \/ UNCHANGED notifies
    BY <1>2 DEF MarkDelivered
  <2>2. /\ row' \in [Messages -> Rows]
        /\ \A n \in Messages :
             /\ row'[n].to = row[n].to
             /\ row'[n].status = "absent" <=> row[n].status = "absent"
             /\ row[n].status = "delivered" => row'[n].status = "delivered"
    BY <1>2, <2>1, SetStatusRows DEF Owns, Final, OutboxInv, Typed
  <2>3. \A n \in Messages : Statuses(rows)[n] = row'[n].status
    BY <2>1 DEF Statuses
  <2> HIDE DEF rows
  <2>4. turn' \in [Turns -> TurnStatuses] /\ \A t \in Turns : TurnMoves(t)
    BY <2>1, <2>3, MovesByRefresh DEF MessagesOf, OutboxInv, Typed
  <2> HIDE DEF m
  <2>5. notifies' \in [Decisions -> Nat]
    BY <2>1 DEF OutboxInv, Typed
  <2> QED
    BY <1>1, <2>2, <2>4, <2>5, SettleKeeps
<1>3. CASE ~Owns(w, m)
  <2>1. UNCHANGED <<row, turn>> /\ (CountFailure(w) \/ UNCHANGED notifies)
    BY <1>3 DEF MarkDelivered
  <2>2. \A t \in Turns : TurnMoves(t)
    BY <2>1 DEF TurnMoves
  <2> QED
    BY <1>1, <2>1, <2>2, CountedFailures, SettleKeeps DEF OutboxInv, Typed
<1> QED
  BY <1>2, <1>3

LEMMA RecoverKeeps ==
  ASSUME OutboxInv, Recover
  PROVE  OutboxInv'
<1> DEFINE stale == {m \in Messages : row[m].status = "delivering" /\ ~row[m].live}
           rows == SetStatus(row, stale, "delivery_unknown")
<1>1. /\ row' = AbandonRows(rows) /\ turn' = AbandonTurns(turn, rows)
      /\ UNCHANGED <<notifies, chat, rebinds, sender, shown>>
  BY DEF Recover
<1>2. /\ rows \in [Messages -> Rows]
      /\ \A n \in Messages :
           /\ rows[n].to = row[n].to
           /\ rows[n].status = "absent" <=> row[n].status = "absent"
           /\ row[n].status = "delivered" => rows[n].status = "delivered"
  <2>1. \A n \in stale : row[n].status = "delivering"
    OBVIOUS
  <2> HIDE DEF stale
  <2>2. /\ rows \in [Messages -> Rows]
        /\ \A n \in Messages :
             /\ rows[n].status = (IF n \in stale THEN "delivery_unknown" ELSE row[n].status)
             /\ rows[n].to = row[n].to
    BY SetStatusRows DEF Open, OutboxInv, Typed
  <2> QED
    BY <2>1, <2>2
<1> HIDE DEF rows
<1>3. /\ row' \in [Messages -> Rows]
      /\ \A n \in Messages :
           /\ row'[n].to = row[n].to
           /\ row'[n].status = "absent" <=> row[n].status = "absent"
           /\ row[n].status = "delivered" => row'[n].status = "delivered"
  BY <1>1, <1>2, AbandonedRows DEF Exhausted
<1>4. turn' \in [Turns -> TurnStatuses] /\ \A t \in Turns : TurnMoves(t)
  BY <1>1, AbandonedTurns DEF TurnMoves, OutboxInv, Typed
<1> QED
  BY <1>1, <1>3, <1>4, SettleKeeps DEF OutboxInv, Typed

LEMMA LeaseExpiresKeeps ==
  ASSUME OutboxInv, NEW m \in Messages, LeaseExpires(m)
  PROVE  OutboxInv'
<1>1. /\ row' = [row EXCEPT ![m].live = FALSE]
      /\ UNCHANGED <<turn, notifies, chat, rebinds, sender, shown>>
  BY DEF LeaseExpires
<1>2. /\ row' \in [Messages -> Rows]
      /\ \A n \in Messages : row'[n].to = row[n].to /\ row'[n].status = row[n].status
  BY <1>1 DEF OutboxInv, Typed, Rows
<1>3. \A t \in Turns : TurnMoves(t)
  BY <1>1 DEF TurnMoves
<1> QED
  BY <1>1, <1>2, <1>3, SettleKeeps DEF OutboxInv, Typed

(* A settled row exists already: the user answers what was shown. *)
LEMMA SettledRows ==
  ASSUME OutboxInv, NEW m \in Messages, shown[m] > 0, row' = Settled(m)
  PROVE  /\ row' \in [Messages -> Rows]
         /\ \A n \in Messages :
              /\ row'[n].to = row[n].to
              /\ row'[n].status = "absent" <=> row[n].status = "absent"
              /\ row[n].status = "delivered" => row'[n].status = "delivered"
<1>1. row[m].status # "absent"
  BY DEF OutboxInv, Typed, SendersInOrder
<1> QED
  BY <1>1, SetStatusRows DEF Settled, Final, OutboxInv, Typed

LEMMA ReplyKeeps ==
  ASSUME OutboxInv, NEW m \in Messages, Reply(m)
  PROVE  OutboxInv'
<1> DEFINE rows == Settled(m)
<1>1. /\ shown[m] > 0 /\ row' = rows
      /\ turn' = Refresh(turn, Owner[m], Statuses(rows))
      /\ UNCHANGED <<notifies, chat, rebinds, sender, shown>>
  BY DEF Reply
<1>2. \A n \in Messages : Statuses(rows)[n] = row'[n].status
  BY <1>1 DEF Statuses
<1> HIDE DEF rows
<1>3. turn' \in [Turns -> TurnStatuses] /\ \A t \in Turns : TurnMoves(t)
  BY <1>1, <1>2, MovesByRefresh DEF MessagesOf, OutboxInv, Typed
<1> QED
  BY <1>1, <1>3, SettledRows, SettleKeeps DEF OutboxInv, Typed, rows

LEMMA TapKeeps ==
  ASSUME OutboxInv, NEW m \in Messages, Tap(m)
  PROVE  OutboxInv'
<1>1. /\ shown[m] > 0 /\ row' = Settled(m)
      /\ UNCHANGED <<turn, notifies, chat, rebinds, sender, shown>>
  BY DEF Tap
<1>2. \A t \in Turns : TurnMoves(t)
  BY <1>1 DEF TurnMoves
<1> QED
  BY <1>1, <1>2, SettledRows, SettleKeeps DEF OutboxInv, Typed

LEMMA SupersedeKeeps ==
  ASSUME OutboxInv, NEW d \in Decisions, Supersede(d)
  PROVE  OutboxInv'
<1> DEFINE open == {m \in MessagesOf(d) : row[m].status \in Open}
<1>1. /\ row' = SetStatus(row, open, "cancelled")
      /\ UNCHANGED <<turn, notifies, chat, rebinds, sender, shown>>
  BY DEF Supersede
<1>2. /\ row' \in [Messages -> Rows]
      /\ \A n \in Messages :
           /\ row'[n].to = row[n].to
           /\ row'[n].status = "absent" <=> row[n].status = "absent"
           /\ row[n].status = "delivered" => row'[n].status = "delivered"
  <2>1. \A n \in open : row[n].status \in Open
    OBVIOUS
  <2> HIDE DEF open
  <2>2. /\ row' \in [Messages -> Rows]
        /\ \A n \in Messages :
             /\ row'[n].status = (IF n \in open THEN "cancelled" ELSE row[n].status)
             /\ row'[n].to = row[n].to
    BY <1>1, SetStatusRows DEF Final, OutboxInv, Typed
  <2> QED
    BY <2>1, <2>2 DEF Open
<1>3. \A t \in Turns : TurnMoves(t)
  BY <1>1 DEF TurnMoves
<1> QED
  BY <1>1, <1>2, <1>3, SettleKeeps DEF OutboxInv, Typed

LEMMA CrashKeeps ==
  ASSUME OutboxInv, Crash
  PROVE  OutboxInv'
<1>1. /\ sender' = [w \in Workers |-> Idle]
      /\ UNCHANGED <<row, turn, notifies, chat, rebinds>>
      /\ UNCHANGED shown \/ \E w \in Workers : sender[w].pc = "send" /\ Render(sender[w].msg)
  BY DEF Crash
<1>2. shown' \in [Messages -> Nat]
      /\ \A m \in Messages : row'[m].status = "absent" => shown'[m] = shown[m]
  BY <1>1 DEF Render, OutboxInv, Typed, SendersInOrder, InOrder
<1>3. /\ sender' \in [Workers -> Tasks]
      /\ \A w \in Workers : InOrder(sender'[w], row', shown')
  BY <1>1, IdleIsTask, IdleInOrder
<1>4. RowsStay /\ \A t \in Turns : TurnMoves(t)
  BY <1>1 DEF RowsStay, TurnMoves
<1> QED
  BY <1>1, <1>2, <1>3, <1>4, StepKeeps DEF OutboxInv, Typed

-----------------------------------------------------------------------------
LEMMA OutboxInit ==
  ASSUME Init
  PROVE  OutboxInv
<1>0. NewRow \in Rows /\ NewRow.to = chat
  BY OutboxAssumption DEF OutboxAssumption, Init, NewRow, Rows, Open
<1> HIDE DEF NewRow
<1> DEFINE noRow == [NewRow EXCEPT !.status = "absent"]
<1>1. noRow \in Rows /\ noRow.status = "absent" /\ noRow.to = chat
  BY <1>0 DEF Rows
<1> HIDE DEF noRow
<1>a. row = [m \in Messages |-> noRow]
  BY DEF Init, noRow
<1>2. row \in [Messages -> Rows]
      /\ \A m \in Messages : row[m].to = chat /\ row[m].status = "absent"
  BY <1>1, <1>a
<1>3. Typed
  BY <1>2, IdleIsTask DEF Init, Typed, TurnStatuses
<1>4. SendersInOrder
  BY <1>2, IdleInOrder DEF Init, SendersInOrder
<1>5. QueuedOnce /\ DeliveredTurnIsComplete
  BY <1>2 DEF Init, QueuedOnce, DeliveredTurnIsComplete, MessagesOf
<1> QED
  BY <1>3, <1>4, <1>5 DEF OutboxInv

LEMMA OutboxStep ==
  ASSUME MaxRebinds = 0, OutboxInv, [Next]_vars
  PROVE  OutboxInv'
<1>1. ASSUME NEW t \in Turns, Queue(t) PROVE OutboxInv'
  BY <1>1, QueueKeeps, OutboxAssumption
<1>2. ASSUME NEW w \in Workers, NEW m \in Messages, Dispatch(w, m) \/ Notify(w, m)
      PROVE  OutboxInv'
  BY <1>2, DispatchKeeps, NotifyKeeps, OutboxAssumption
<1>3. ASSUME NEW w \in Workers, SenderStep(w) \/ Cancelled(w)
      PROVE  OutboxInv'
  <2>1. ~CancelForAuthorization(w)
    BY DEF CancelForAuthorization, OutboxInv, Typed, Tasks
  <2> QED
    BY <1>3, <2>1, ReadPromptKeeps, ClaimWinsKeeps, ClaimLosesKeeps, SendKeeps,
       MarkDeliveredKeeps, MarkUnknownKeeps, OutboxAssumption DEF SenderStep
<1>4. ASSUME Recover PROVE OutboxInv'
  BY <1>4, RecoverKeeps
<1>5. ASSUME NEW m \in Messages, LeaseExpires(m) \/ Reply(m) \/ Tap(m)
      PROVE  OutboxInv'
  BY <1>5, LeaseExpiresKeeps, ReplyKeeps, TapKeeps
<1>6. ASSUME NEW d \in Decisions, Supersede(d) PROVE OutboxInv'
  BY <1>6, SupersedeKeeps
<1>7. ASSUME NEW c \in Chats, ChangeChat(c) PROVE OutboxInv'
  BY <1>7 DEF ChangeChat, OutboxInv, Typed
<1>8. ASSUME Crash PROVE OutboxInv'
  BY <1>8, CrashKeeps
<1>9. ASSUME UNCHANGED vars PROVE OutboxInv'
  <2>1. \A t \in Turns : TurnMoves(t)
    BY <1>9 DEF TurnMoves, vars
  <2> QED
    BY <1>9, <2>1, SettleKeeps DEF vars, OutboxInv, Typed
<1> QED
  BY <1>1, <1>2, <1>3, <1>4, <1>5, <1>6, <1>7, <1>8, <1>9 DEF Next

(* While the chat stays the same, a turn is recorded delivered only when     *)
(* every one of its messages is, whatever senders, recoveries, taps, lost    *)
(* leases and crashes do (refresh_interaction_delivery_status).              *)
THEOREM DeliveredTurnsComplete ==
  ASSUME MaxRebinds = 0
  PROVE  Spec => []DeliveredTurnIsComplete
<1>1. Init => OutboxInv
  BY OutboxInit
<1>2. OutboxInv /\ [Next]_vars => OutboxInv'
  BY OutboxStep
<1>3. OutboxInv => DeliveredTurnIsComplete
  BY DEF OutboxInv
<1> QED
  BY <1>1, <1>2, <1>3, PTL DEF Spec

-----------------------------------------------------------------------------
(* The outbox implements its promise: the fate of the messages of a table.   *)

FateIn(status) ==
  IF status = "delivered" THEN "delivered"
  ELSE IF status = "abandoned" THEN "dropped"
  ELSE IF status = "cancelled" THEN "withdrawn" ELSE "waiting"

LEMMA FateOf ==
  /\ Fate = [m \in Messages |-> FateIn(row[m].status)]
  /\ Fate' = [m \in Messages |-> FateIn(row'[m].status)]
<1>1. ASSUME NEW s
      PROVE  (CASE s = "delivered" -> "delivered"
                [] s = "abandoned" -> "dropped"
                [] s = "cancelled" -> "withdrawn"
                [] OTHER -> "waiting") = FateIn(s)
  <2>1. CASE s = "delivered"
    BY <2>1, Zenon DEF FateIn
  <2>2. CASE s = "abandoned"
    BY <2>2, Zenon DEF FateIn
  <2>3. CASE s = "cancelled"
    BY <2>3, Zenon DEF FateIn
  <2>4. CASE s # "delivered" /\ s # "abandoned" /\ s # "cancelled"
    BY <2>4, Zenon DEF FateIn
  <2> QED
    BY <2>1, <2>2, <2>3, <2>4
<1> QED
  BY <1>1, Zenon DEF Fate

LEMMA SameFate ==
  ASSUME \A m \in Messages : FateIn(row'[m].status) = FateIn(row[m].status)
  PROVE  Fate' = Fate
BY FateOf

(* Several messages are given up or withdrawn in one step. *)
LEMMA GivesUp ==
  ASSUME UNCHANGED shown,
         NEW S \in SUBSET Messages, NEW f \in {"dropped", "withdrawn"},
         \A m \in S : /\ FateIn(row[m].status) = "waiting"
                      /\ FateIn(row'[m].status) = f,
         \A m \in Messages \ S : FateIn(row'[m].status) = FateIn(row[m].status)
  PROVE  Promise!Next
<1>1. Fate' = [m \in Messages |-> IF m \in S THEN f ELSE Fate[m]]
  BY FateOf
<1>2. \A m \in S : Fate[m] = "waiting"
  BY FateOf
<1>3. Promise!GiveUp(S, f)
  BY <1>1, <1>2 DEF Promise!GiveUp
<1> QED
  BY <1>3 DEF Promise!Next

(* One shown message is recorded delivered. *)
LEMMA Delivers ==
  ASSUME OutboxInv, UNCHANGED shown, NEW m \in Messages, shown[m] > 0,
         row[m].status \in Open \cup {"abandoned"},
         row' = SetStatus(row, {m}, "delivered")
  PROVE  Promise!Next
<1>1. \A n \in Messages :
         row'[n].status = IF n = m THEN "delivered" ELSE row[n].status
  BY SetStatusRows DEF Final, OutboxInv, Typed
<1>2. Fate[m] \in {"waiting", "dropped"}
  BY FateOf DEF FateIn, Open
<1>3. Fate' = [Fate EXCEPT ![m] = "delivered"]
  BY <1>1, FateOf DEF FateIn
<1>4. Promise!Deliver(m)
  BY <1>2, <1>3 DEF Promise!Deliver
<1> QED
  BY <1>4 DEF Promise!Next

(* Exhausted rows are abandoned. *)
LEMMA Abandons ==
  ASSUME UNCHANGED shown, row \in [Messages -> Rows],
         NEW rows \in [Messages -> Rows], row' = AbandonRows(rows),
         \A m \in Messages : \/ rows[m].status = row[m].status
                             \/ {rows[m].status, row[m].status} \subseteq Open
  PROVE  Promise!Next
<1> DEFINE S == {m \in Messages : Exhausted(rows[m])}
<1>1. \A m \in S : row'[m].status = "abandoned" /\ rows[m].status \in Open
  BY AbandonedRows DEF Exhausted, Open
<1>2. \A m \in Messages \ S : row'[m].status = rows[m].status
  BY AbandonedRows
<1>3. \A m \in Messages : FateIn(rows[m].status) = FateIn(row[m].status)
  BY DEF FateIn, Open
<1>4. S \in SUBSET Messages
  OBVIOUS
<1> HIDE DEF S
<1>5. \A m \in S : /\ FateIn(row[m].status) = "waiting"
                   /\ FateIn(row'[m].status) = "dropped"
  BY <1>1, <1>3, <1>4 DEF FateIn, Open
<1>6. \A m \in Messages \ S : FateIn(row'[m].status) = FateIn(row[m].status)
  BY <1>2, <1>3
<1> QED
  BY <1>4, <1>5, <1>6, GivesUp

LEMMA ShownRows ==
  ASSUME OutboxInv, NEW m \in Messages, shown[m] > 0, row' = Settled(m),
         UNCHANGED shown
  PROVE  [Promise!Next]_<<Fate, shown>>
<1>1. CASE row[m].status \in Open \cup {"abandoned"}
  BY <1>1, Delivers DEF Settled
<1>2. CASE row[m].status \notin Open \cup {"abandoned"}
  BY <1>2, SameFate DEF Settled
<1> QED
  BY <1>1, <1>2

LEMMA SenderPromise ==
  ASSUME OutboxInv, NEW w \in Workers, SenderStep(w) \/ Cancelled(w)
  PROVE  [Promise!Next]_<<Fate, shown>>
<1> DEFINE m == sender[w].msg
<1>1. CASE ReadPrompt(w)
  BY <1>1, SameFate DEF ReadPrompt
<1>2. CASE CancelForAuthorization(w)
  BY <1>2 DEF CancelForAuthorization, OutboxInv, Typed, Tasks
<1>3. CASE ClaimWins(w)
  <2>1. /\ m \in Messages /\ row[m].status \in Open
        /\ \A n \in Messages : n # m => row'[n] = row[n]
        /\ row'[m].status = "delivering" /\ UNCHANGED shown
    BY <1>3 DEF ClaimWins, Claimable, ClaimDelivery, Open, OutboxInv, Typed, Rows,
                SendersInOrder, InOrder
  <2> HIDE DEF m
  <2> QED
    BY <2>1, SameFate DEF FateIn, Open
<1>4. CASE ClaimLoses(w)
  BY <1>4, Abandons DEF ClaimLoses, OutboxInv, Typed
<1>5. CASE SendAccepted(w) \/ SendUnanswered(w) \/ SendRejected(w) \/ Cancelled(w)
  <2>1. /\ m \in Messages /\ UNCHANGED row
        /\ UNCHANGED shown \/ shown' = [shown EXCEPT ![m] = @ + 1]
    BY <1>5 DEF SendAccepted, SendUnanswered, SendRejected, Cancelled, Render,
                OutboxInv, Typed, SendersInOrder, InOrder
  <2>2. Fate' = Fate
    BY <2>1, SameFate
  <2>3. CASE UNCHANGED shown
    BY <2>2, <2>3
  <2>4. CASE shown' = [shown EXCEPT ![m] = @ + 1]
    BY <2>1, <2>2, <2>4 DEF Promise!Next, Promise!Show
  <2> QED
    BY <2>1, <2>3, <2>4
<1>6. CASE MarkDelivered(w)
  <2>1. m \in Messages /\ shown[m] > 0 /\ UNCHANGED shown
    BY <1>6 DEF MarkDelivered, OutboxInv, SendersInOrder, InOrder
  <2>2. CASE Owns(w, m)
    BY <1>6, <2>1, <2>2, Delivers DEF MarkDelivered, Owns, Open
  <2>3. CASE ~Owns(w, m)
    BY <1>6, <2>3, SameFate DEF MarkDelivered
  <2> QED
    BY <2>2, <2>3
<1>7. CASE MarkUnknown(w)
  <2> DEFINE rows == IF Owns(w, m) THEN SetStatus(row, {m}, "delivery_unknown") ELSE row
  <2>1. row' = AbandonRows(rows) /\ UNCHANGED shown
    BY <1>7 DEF MarkUnknown
  <2>2. /\ rows \in [Messages -> Rows]
        /\ \A n \in Messages : \/ rows[n].status = row[n].status
                               \/ {rows[n].status, row[n].status} \subseteq Open
    BY SetStatusRows DEF Owns, Open, OutboxInv, Typed
  <2> HIDE DEF rows
  <2> QED
    BY <2>1, <2>2, Abandons DEF OutboxInv, Typed
<1> QED
  BY <1>1, <1>2, <1>3, <1>4, <1>5, <1>6, <1>7 DEF SenderStep

LEMMA PromiseStep ==
  ASSUME MaxRebinds = 0, OutboxInv, [Next]_vars
  PROVE  [Promise!Next]_<<Fate, shown>>
<1>1. ASSUME NEW t \in Turns, Queue(t) PROVE [Promise!Next]_<<Fate, shown>>
  <2>1. /\ \A m \in Messages : \/ row'[m] = row[m]
                               \/ row[m].status = "absent" /\ row'[m] = NewRow
        /\ UNCHANGED shown
    BY <1>1 DEF Queue, OutboxInv, QueuedOnce, MessagesOf
  <2>2. NewRow.status = "pending"
    BY DEF NewRow
  <2> QED
    BY <2>1, <2>2, SameFate DEF FateIn
<1>2. ASSUME NEW w \in Workers, NEW m \in Messages, Dispatch(w, m)
      PROVE  [Promise!Next]_<<Fate, shown>>
  BY <1>2, SameFate DEF Dispatch
<1>3. ASSUME NEW w \in Workers, NEW m \in Messages, Notify(w, m)
      PROVE  [Promise!Next]_<<Fate, shown>>
  <2>1. /\ \A n \in Messages : \/ row'[n] = row[n]
                               \/ row[n].status = "absent" /\ row'[n] = NewRow
        /\ UNCHANGED shown
    BY <1>3 DEF Notify, OutboxInv, Typed
  <2>2. NewRow.status = "pending"
    BY DEF NewRow
  <2> QED
    BY <2>1, <2>2, SameFate DEF FateIn
<1>4. ASSUME NEW w \in Workers, SenderStep(w) \/ Cancelled(w)
      PROVE  [Promise!Next]_<<Fate, shown>>
  BY <1>4, SenderPromise
<1>5. ASSUME Recover PROVE [Promise!Next]_<<Fate, shown>>
  <2> DEFINE stale == {m \in Messages : row[m].status = "delivering" /\ ~row[m].live}
             rows == SetStatus(row, stale, "delivery_unknown")
  <2>1. row' = AbandonRows(rows) /\ UNCHANGED shown
    BY <1>5 DEF Recover
  <2>2. \A n \in stale : row[n].status = "delivering"
    OBVIOUS
  <2> HIDE DEF stale
  <2>3. /\ rows \in [Messages -> Rows]
        /\ \A n \in Messages :
             rows[n].status = (IF n \in stale THEN "delivery_unknown" ELSE row[n].status)
    BY SetStatusRows DEF Open, OutboxInv, Typed
  <2> HIDE DEF rows
  <2>4. \A n \in Messages : \/ rows[n].status = row[n].status
                            \/ {rows[n].status, row[n].status} \subseteq Open
    BY <2>2, <2>3 DEF Open
  <2> QED
    BY <2>1, <2>3, <2>4, Abandons DEF OutboxInv, Typed
<1>6. ASSUME NEW m \in Messages, LeaseExpires(m)
      PROVE  [Promise!Next]_<<Fate, shown>>
  <2>1. /\ \A n \in Messages : row'[n].status = row[n].status
        /\ UNCHANGED shown
    BY <1>6 DEF LeaseExpires, OutboxInv, Typed, Rows
  <2> QED
    BY <2>1, SameFate
<1>7. ASSUME NEW m \in Messages, Reply(m) \/ Tap(m)
      PROVE  [Promise!Next]_<<Fate, shown>>
  BY <1>7, ShownRows DEF Reply, Tap
<1>8. ASSUME NEW d \in Decisions, Supersede(d)
      PROVE  [Promise!Next]_<<Fate, shown>>
  <2> DEFINE S == {m \in MessagesOf(d) : row[m].status \in Open}
  <2>1. row' = SetStatus(row, S, "cancelled") /\ UNCHANGED shown
    BY <1>8 DEF Supersede
  <2>2. S \in SUBSET Messages /\ \A m \in S : row[m].status \in Open
    BY DEF MessagesOf
  <2> HIDE DEF S
  <2>3. \A m \in Messages :
          row'[m].status = IF m \in S THEN "cancelled" ELSE row[m].status
    BY <2>1, SetStatusRows DEF Final, OutboxInv, Typed
  <2>4. \A m \in S : /\ FateIn(row[m].status) = "waiting"
                     /\ FateIn(row'[m].status) = "withdrawn"
    BY <2>2, <2>3 DEF FateIn, Open
  <2>5. \A m \in Messages \ S : FateIn(row'[m].status) = FateIn(row[m].status)
    BY <2>3
  <2> QED
    BY <2>1, <2>2, <2>4, <2>5, GivesUp
<1>9. ASSUME NEW c \in Chats, ChangeChat(c) PROVE [Promise!Next]_<<Fate, shown>>
  BY <1>9 DEF ChangeChat, OutboxInv, Typed
<1>10. ASSUME Crash PROVE [Promise!Next]_<<Fate, shown>>
  <2>1. UNCHANGED row
    BY <1>10 DEF Crash
  <2>2. Fate' = Fate
    BY <2>1, SameFate
  <2>3. \/ UNCHANGED shown
        \/ \E m \in Messages : shown' = [shown EXCEPT ![m] = @ + 1]
    BY <1>10 DEF Crash, Render, OutboxInv, SendersInOrder, InOrder
  <2> QED
    BY <2>2, <2>3 DEF Promise!Next, Promise!Show
<1>11. ASSUME UNCHANGED vars PROVE [Promise!Next]_<<Fate, shown>>
  BY <1>11, SameFate DEF vars
<1> QED
  BY <1>1, <1>2, <1>3, <1>4, <1>5, <1>6, <1>7, <1>8, <1>9, <1>10, <1>11 DEF Next

(* While the chat stays the same, the outbox implements its promise: a       *)
(* message is recorded delivered only if Telegram showed it, and neither a   *)
(* delivered nor a withdrawn one changes again (claims, fences, recovery,    *)
(* taps and replies of delivery.py and dispatch_saved_delivery).             *)
THEOREM OutboxKeepsPromise ==
  ASSUME MaxRebinds = 0
  PROVE  Spec => KeepsPromise
<1>1. Init => OutboxInv
  BY OutboxInit
<1>2. OutboxInv /\ [Next]_vars => OutboxInv'
  BY OutboxStep
<1>3. Init => Promise!Init
  <2> SUFFICES ASSUME Init PROVE Promise!Init
    OBVIOUS
  <2>1. \A m \in Messages : row[m].status = "absent"
    BY DEF Init, NewRow
  <2> QED
    BY <2>1, FateOf DEF FateIn, Init, Promise!Init
<1>4. OutboxInv /\ [Next]_vars => [Promise!Next]_<<Fate, shown>>
  BY PromiseStep
<1> QED
  BY <1>1, <1>2, <1>3, <1>4, PTL DEF Spec, KeepsPromise, Promise!Spec

-----------------------------------------------------------------------------
(* The rows and turns under any change of the chat: the types, that a sender *)
(* works on a row that exists, and that a turn's rows are made once.         *)

Jobs == [pc : {"idle", "open", "cancel", "claim", "send", "sent", "raised"},
         msg : Messages \cup {NoMessage}, status : Open \cup {"absent"},
         attempts : Nat, tries : Nat, notify : BOOLEAN, notifies : Nat]
Reviews == {"pending", "notified", "done"}

HasMessage(task, rows) ==
  task.pc # "idle" => task.msg \in Messages /\ rows[task.msg].status # "absent"

TableInv ==
  /\ row \in [Messages -> Rows] /\ turn \in [Turns -> TurnStatuses]
  /\ sender \in [Workers -> Jobs] /\ shown \in [Messages -> Nat]
  /\ notifies \in [Decisions -> Nat] /\ review \in [Decisions -> Reviews]
  /\ chat \in Chats
  /\ \A w \in Workers : HasMessage(sender[w], row)
  /\ QueuedOnce

(* What became of the row of one message in one step. *)
RowMoves(m) ==
  \/ row'[m] = row[m]
  \/ row'[m].status \in Final /\ row'[m].attempts = row[m].attempts
  \/ row[m].status \in Open /\ row'[m].status \in Open
  \/ /\ row[m].status = "absent" /\ row'[m].status = "pending"
     /\ Owner[m] \in Decisions => review[Owner[m]] = "pending"

LEMMA TableMoves ==
  ASSUME TableInv,
         row' \in [Messages -> Rows],
         sender' \in [Workers -> Jobs], \A w \in Workers : HasMessage(sender'[w], row'),
         shown' \in [Messages -> Nat], notifies' \in [Decisions -> Nat],
         review' \in [Decisions -> Reviews], chat' \in Chats,
         turn' \in [Turns -> TurnStatuses], \A m \in Messages : RowMoves(m),
         \A t \in Turns : turn'[t] = "processing" =>
           /\ turn[t] = "processing"
           /\ \A m \in MessagesOf(t) : row[m].status = "absent" => row'[m].status = "absent"
  PROVE  TableInv'
<1>1. QueuedOnce'
  BY DEF TableInv, QueuedOnce
<1> QED
  BY <1>1 DEF TableInv

LEMMA JobStep ==
  ASSUME TableInv, NEW w \in Workers, NEW task \in Jobs, HasMessage(task, row'),
         sender' = [sender EXCEPT ![w] = task], \A m \in Messages : RowMoves(m)
  PROVE  /\ sender' \in [Workers -> Jobs] /\ \A v \in Workers : HasMessage(sender'[v], row')
         /\ sender'[w] = task /\ \A v \in Workers : v # w => sender'[v] = sender[v]
BY DEF TableInv, HasMessage, RowMoves, Open, Final

LEMMA IdleIsJob == Idle \in Jobs /\ (\A rows : HasMessage(Idle, rows)) /\ Idle.pc = "idle"
BY DEF Idle, Jobs, HasMessage

LEMMA NoJobStep ==
  ASSUME TableInv, UNCHANGED sender, \A m \in Messages : RowMoves(m)
  PROVE  \A v \in Workers : HasMessage(sender'[v], row')
BY DEF TableInv, HasMessage, RowMoves, Open, Final

LEMMA RefreshedOnly ==
  ASSUME NEW turns \in [Turns -> TurnStatuses], NEW o, NEW seen
  PROVE  /\ Refresh(turns, o, seen) \in [Turns -> TurnStatuses]
         /\ \A t \in Turns : Refresh(turns, o, seen)[t] = "processing" => turns[t] = "processing"
BY RefreshedTurns

LEMMA FreshRow ==
  ASSUME TableInv, OutboxAssumption
  PROVE  NewRow \in Rows /\ NewRow.status = "pending" /\ NewRow.attempts = 0
BY DEF NewRow, Rows, Open, OutboxAssumption, TableInv

\* Rows change by SetStatus and AbandonRows alone.
LEMMA SetStatusMoves ==
  ASSUME NEW rows \in [Messages -> Rows], NEW S, NEW s \in Open \cup Final
  PROVE  \A m \in Messages : /\ m \notin S => SetStatus(rows, S, s)[m] = rows[m]
                             /\ SetStatus(rows, S, s)[m].attempts = rows[m].attempts
BY DEF SetStatus, Rows

LEMMA AbandonMoves ==
  ASSUME NEW rows \in [Messages -> Rows]
  PROVE  \A m \in Messages : /\ AbandonRows(rows)[m].attempts = rows[m].attempts
                             /\ \/ AbandonRows(rows)[m] = rows[m]
                                \/ /\ AbandonRows(rows)[m].status = "abandoned"
                                   /\ rows[m].status \in {"pending", "delivery_unknown"}
BY DEF AbandonRows, Rows, Exhausted

LEMMA TableInit ==
  ASSUME OutboxAssumption, Init
  PROVE  TableInv
<1> DEFINE noRow == [NewRow EXCEPT !.status = "absent"]
<1>0. NewRow \in Rows
  BY DEF OutboxAssumption, Init, NewRow, Rows, Open
<1> HIDE DEF NewRow
<1>1. noRow \in Rows /\ noRow.status = "absent"
  BY <1>0 DEF Rows
<1> HIDE DEF noRow
<1>a. row = [m \in Messages |-> noRow]
  BY DEF Init, noRow
<1>2. row \in [Messages -> Rows] /\ \A m \in Messages : row[m].status = "absent"
  BY <1>1, <1>a
<1>3. QueuedOnce
  BY <1>2 DEF QueuedOnce, MessagesOf
<1>4. sender \in [Workers -> Jobs] /\ \A w \in Workers : HasMessage(sender[w], row)
  BY IdleIsJob DEF Init
<1> QED
  BY <1>2, <1>3, <1>4 DEF Init, TableInv, TurnStatuses, Reviews

\* A step that writes no row.
LEMMA NoRowMoves ==
  ASSUME UNCHANGED row
  PROVE  \A m \in Messages : RowMoves(m)
BY DEF RowMoves

LEMMA QueueTable ==
  ASSUME OutboxAssumption, TableInv, NEW t \in Turns, Queue(t)
  PROVE  TableInv' /\ \A m \in Messages : RowMoves(m)
<1>1. NewRow \in Rows /\ NewRow.status = "pending" /\ NewRow.attempts = 0
  BY FreshRow
<1> HIDE DEF NewRow
<1>2. /\ row' = [m \in Messages |-> IF Owner[m] = t THEN NewRow ELSE row[m]]
      /\ turn' = [turn EXCEPT ![t] = "ready_to_send"] /\ turn[t] = "processing"
      /\ UNCHANGED <<review, notifies, chat, sender, shown>>
  BY DEF Queue
<1>3. row' \in [Messages -> Rows] /\ turn' \in [Turns -> TurnStatuses]
  BY <1>1, <1>2 DEF TableInv, TurnStatuses
<1>4. \A m \in Messages : Owner[m] = t => row[m].status = "absent" /\ Owner[m] \notin Decisions
  BY <1>2 DEF TableInv, QueuedOnce, MessagesOf, OutboxAssumption
<1>5. \A m \in Messages : RowMoves(m)
  BY <1>1, <1>2, <1>4 DEF RowMoves
<1>6. \A u \in Turns : turn'[u] = "processing" =>
           /\ turn[u] = "processing"
           /\ \A m \in MessagesOf(u) : row[m].status = "absent" => row'[m].status = "absent"
  BY <1>2 DEF TableInv, MessagesOf
<1>7. \A w \in Workers : HasMessage(sender'[w], row')
  BY <1>2, <1>5, NoJobStep
<1> QED
  BY <1>2, <1>3, <1>5, <1>6, <1>7, TableMoves DEF TableInv

\* A worker moves, and no row.
LEMMA WorkerTable ==
  ASSUME TableInv, NEW w \in Workers, NEW task \in Jobs, HasMessage(task, row),
         sender' = [sender EXCEPT ![w] = task],
         UNCHANGED <<row, turn, review, chat>>,
         notifies' \in [Decisions -> Nat], shown' \in [Messages -> Nat]
  PROVE  TableInv' /\ \A m \in Messages : RowMoves(m)
<1>1. sender' \in [Workers -> Jobs] /\ \A v \in Workers : HasMessage(sender'[v], row')
  BY JobStep, NoRowMoves
<1> QED
  BY <1>1, NoRowMoves, TableMoves DEF TableInv

LEMMA SavedRowJob ==
  ASSUME TableInv, OutboxAssumption, NEW task \in Jobs, NEW m \in Messages, row[m].status \in Open
  PROVE  /\ SavedRow(task, m) \in Jobs /\ HasMessage(SavedRow(task, m), row)
         /\ SavedRow(task, m).pc \in {"claim", "cancel"} /\ SavedRow(task, m).msg = m
<1>1. row[m].attempts \in Nat
  BY DEF TableInv, Rows, OutboxAssumption
<1> QED
  BY <1>1 DEF SavedRow, Jobs, HasMessage, Open

LEMMA DispatchTable ==
  ASSUME OutboxAssumption, TableInv, NEW w \in Workers, NEW m \in Messages, Dispatch(w, m)
  PROVE  TableInv' /\ \A n \in Messages : RowMoves(n)
<1>1. SavedRow(Idle, m) \in Jobs /\ HasMessage(SavedRow(Idle, m), row)
  BY IdleIsJob, SavedRowJob DEF Dispatch
<1> QED
  BY <1>1, WorkerTable DEF Dispatch, TableInv

LEMMA NotifyTable ==
  ASSUME OutboxAssumption, TableInv, NEW w \in Workers, NEW m \in Messages, Notify(w, m)
  PROVE  TableInv' /\ \A n \in Messages : RowMoves(n)
<1> DEFINE task == [Idle EXCEPT !.pc = "open", !.msg = m, !.notify = TRUE,
                                !.notifies = notifies[Owner[m]]]
<1>1. NewRow \in Rows /\ NewRow.status = "pending" /\ NewRow.attempts = 0
  BY FreshRow
<1> HIDE DEF NewRow
<1>2. /\ Owner[m] \in Decisions /\ review[Owner[m]] = "pending"
      /\ row' = IF row[m].status = "absent" THEN [row EXCEPT ![m] = NewRow] ELSE row
      /\ sender' = [sender EXCEPT ![w] = task]
      /\ UNCHANGED <<turn, review, notifies, chat, shown>>
  BY DEF Notify
<1>3. task \in Jobs /\ task.msg = m
  BY <1>2 DEF Idle, Jobs, TableInv
<1> HIDE DEF task
<1>5. /\ row' \in [Messages -> Rows] /\ row'[m].status # "absent"
      /\ \A n \in Messages : RowMoves(n)
  BY <1>1, <1>2 DEF RowMoves, TableInv
<1>4. sender' \in [Workers -> Jobs] /\ \A v \in Workers : HasMessage(sender'[v], row')
  BY <1>2, <1>3, <1>5, JobStep DEF HasMessage
<1>6. \A t \in Turns : \A n \in MessagesOf(t) : row'[n] = row[n]
  BY <1>2 DEF MessagesOf, OutboxAssumption, TableInv
<1> QED
  BY <1>2, <1>4, <1>5, <1>6, TableMoves DEF TableInv

LEMMA CountedTable ==
  ASSUME TableInv, NEW w \in Workers, CountFailure(w)
  PROVE  notifies' \in [Decisions -> Nat]
<1> DEFINE d == Owner[sender[w].msg]
           n == sender[w].notifies + 1
<1>1. n \in Nat
  BY DEF TableInv, Jobs
<1>2. notifies' = notifies \/ notifies' = [notifies EXCEPT ![d] = n]
  BY DEF CountFailure
<1> HIDE DEF d, n
<1> QED
  BY <1>1, <1>2 DEF TableInv

LEMMA ReadPromptTable ==
  ASSUME OutboxAssumption, TableInv, NEW w \in Workers, ReadPrompt(w)
  PROVE  TableInv' /\ \A n \in Messages : RowMoves(n)
<1> DEFINE m == sender[w].msg
<1>1. sender[w] \in Jobs /\ m \in Messages
  BY DEF ReadPrompt, TableInv, HasMessage
<1>2. UNCHANGED <<row, turn, review, chat, shown>>
  BY DEF ReadPrompt
<1>3. CASE row[m].status \in Open
  <2>1. SavedRow(sender[w], m) \in Jobs /\ HasMessage(SavedRow(sender[w], m), row)
    BY <1>1, <1>3, SavedRowJob
  <2>2. sender' = [sender EXCEPT ![w] = SavedRow(sender[w], m)] /\ UNCHANGED notifies
    BY <1>3 DEF ReadPrompt
  <2> QED
    BY <1>2, <2>1, <2>2, WorkerTable DEF TableInv
<1>4. CASE row[m].status \notin Open
  <2>1. sender' = [sender EXCEPT ![w] = Idle] /\ notifies' \in [Decisions -> Nat]
    BY <1>4, CountedTable DEF ReadPrompt, TableInv
  <2> QED
    BY <1>2, <2>1, WorkerTable, IdleIsJob DEF TableInv
<1> QED
  BY <1>3, <1>4

\* Inside the call of the Bot API.
LEMMA SendTable ==
  ASSUME TableInv, NEW w \in Workers,
         SendAccepted(w) \/ SendUnanswered(w) \/ SendRejected(w) \/ Cancelled(w)
  PROVE  TableInv' /\ \A n \in Messages : RowMoves(n)
<1> DEFINE m == sender[w].msg
           Task(pc, tries) == [sender[w] EXCEPT !.pc = pc, !.tries = tries]
<1>1. /\ sender[w].pc = "send"
      /\ UNCHANGED <<row, turn, review, notifies, chat>>
      /\ UNCHANGED shown \/ Render(m)
  BY DEF SendAccepted, SendUnanswered, SendRejected, Cancelled
<1>2. /\ sender[w] \in Jobs /\ m \in Messages /\ sender[w].tries \in Nat
      /\ row[m].status # "absent"
  BY <1>1 DEF TableInv, HasMessage, Jobs
<1>3. shown' \in [Messages -> Nat]
  BY <1>1 DEF Render, TableInv
<1>4. \/ sender' = [sender EXCEPT ![w] = Idle]
      \/ \E pc \in {"send", "sent", "raised"}, tries \in Nat :
           sender' = [sender EXCEPT ![w] = Task(pc, tries)]
  <2>1. CASE SendAccepted(w)
    <3>1. sender' = [sender EXCEPT ![w] = Task("sent", sender[w].tries)]
      BY <2>1, <1>2 DEF SendAccepted, TableInv, Jobs
    <3> HIDE DEF Task
    <3> QED
      BY <3>1, <1>2
  <2>2. CASE SendUnanswered(w)
    <3> DEFINE pc == IF sender[w].tries + 1 >= MaxTries THEN "raised" ELSE "send"
    <3>1. sender' = [sender EXCEPT ![w] = Task(pc, sender[w].tries + 1)]
      BY <2>2, <1>2 DEF SendUnanswered, TableInv, Jobs
    <3>2. pc \in {"send", "raised"} /\ sender[w].tries + 1 \in Nat
      BY <1>2
    <3> HIDE DEF pc, Task
    <3> QED
      BY <3>1, <3>2
  <2>3. CASE SendRejected(w)
    <3>1. sender' = [sender EXCEPT ![w] = Task("raised", sender[w].tries)]
      BY <2>3, <1>2 DEF SendRejected, TableInv, Jobs
    <3> HIDE DEF Task
    <3> QED
      BY <3>1, <1>2
  <2>4. CASE Cancelled(w)
    BY <2>4 DEF Cancelled
  <2> QED
    BY <2>1, <2>2, <2>3, <2>4
<1>5. CASE sender' = [sender EXCEPT ![w] = Idle]
  BY <1>1, <1>3, <1>5, WorkerTable, IdleIsJob DEF TableInv
<1>6. ASSUME NEW pc \in {"send", "sent", "raised"}, NEW tries \in Nat,
             sender' = [sender EXCEPT ![w] = Task(pc, tries)]
      PROVE  TableInv' /\ \A n \in Messages : RowMoves(n)
  <2>1. Task(pc, tries) \in Jobs /\ HasMessage(Task(pc, tries), row)
    BY <1>2 DEF Jobs, HasMessage
  <2> HIDE DEF Task
  <2> QED
    BY <1>1, <1>3, <1>6, <2>1, WorkerTable DEF TableInv
<1> QED
  BY <1>4, <1>5, <1>6

LEMMA ClaimWinsTable ==
  ASSUME OutboxAssumption, TableInv, NEW w \in Workers, ClaimWins(w)
  PROVE  TableInv' /\ \A n \in Messages : RowMoves(n)
<1> DEFINE m == sender[w].msg
           claimed == ClaimDelivery(row[m], w)
           task == [sender[w] EXCEPT !.pc = "send"]
<1>1. sender[w] \in Jobs /\ m \in Messages /\ row[m] \in Rows
  BY DEF ClaimWins, TableInv, HasMessage
<1>2. /\ row' = [row EXCEPT ![m] = claimed]
      /\ sender' = [sender EXCEPT ![w] = task]
      /\ row[m].attempts < MaxAttempts /\ row[m].status \in Open
      /\ UNCHANGED <<turn, review, notifies, chat, shown>>
  BY <1>1 DEF ClaimWins, Claimable, Open, TableInv
<1>a. row[m].attempts + 1 \in 0..MaxAttempts
  BY <1>1, <1>2 DEF Rows, OutboxAssumption
<1>3. claimed \in Rows /\ claimed.status = "delivering"
  BY <1>1, <1>a DEF ClaimDelivery, Rows, Open
<1>4. task \in Jobs /\ task.msg = m
  BY <1>1 DEF Jobs
<1> HIDE DEF claimed, task
<1>5. /\ row' \in [Messages -> Rows]
      /\ \A n \in Messages : n # m => row'[n] = row[n]
      /\ row'[m].status = "delivering"
  BY <1>1, <1>2, <1>3 DEF TableInv
<1>b. /\ \A n \in Messages : row[n].status = "absent" => row'[n].status = "absent"
      /\ \A n \in Messages : RowMoves(n)
  BY <1>1, <1>2, <1>5 DEF RowMoves, Open
<1>6. sender' \in [Workers -> Jobs] /\ \A v \in Workers : HasMessage(sender'[v], row')
  BY <1>1, <1>2, <1>4, <1>5, <1>b, JobStep DEF HasMessage
<1> QED
  BY <1>2, <1>5, <1>6, <1>b, TableMoves DEF TableInv, MessagesOf

\* Rows of a table are written, and the turn is recorded by them.
LEMMA SettleTable ==
  ASSUME TableInv, row' \in [Messages -> Rows], \A n \in Messages : RowMoves(n),
         \A n \in Messages : row[n].status = "absent" => row'[n].status = "absent",
         turn' \in [Turns -> TurnStatuses],
         \A t \in Turns : turn'[t] = "processing" => turn[t] = "processing",
         \/ UNCHANGED sender
         \/ \E w \in Workers : sender' = [sender EXCEPT ![w] = Idle],
         UNCHANGED <<chat, shown>>, notifies' \in [Decisions -> Nat],
         review' \in [Decisions -> Reviews]
  PROVE  TableInv' /\ \A n \in Messages : RowMoves(n)
<1>1. sender' \in [Workers -> Jobs] /\ \A v \in Workers : HasMessage(sender'[v], row')
  BY JobStep, NoJobStep, IdleIsJob DEF TableInv
<1> QED
  BY <1>1, TableMoves DEF TableInv, MessagesOf

LEMMA StatusMoves ==
  ASSUME TableInv, NEW S, NEW s \in Open \cup Final,
         row' = SetStatus(row, S, s),
         \A m \in Messages : m \in S =>
           row[m].status # "absent" /\ (s \in Open => row[m].status \in Open)
  PROVE  /\ row' \in [Messages -> Rows] /\ \A n \in Messages : RowMoves(n)
         /\ \A n \in Messages : row[n].status = "absent" => row'[n].status = "absent"
<1>1. row \in [Messages -> Rows]
  BY DEF TableInv
<1>2. /\ row' \in [Messages -> Rows]
      /\ \A m \in Messages : /\ m \in S => row'[m].status = s
                             /\ m \notin S => row'[m] = row[m]
                             /\ row'[m].attempts = row[m].attempts
  BY <1>1, SetStatusRows, SetStatusMoves
<1>3. ASSUME NEW n \in Messages
      PROVE  RowMoves(n) /\ (row[n].status = "absent" => row'[n].status = "absent")
  <2>1. CASE n \in S
    BY <1>2, <2>1 DEF RowMoves
  <2>2. CASE n \notin S
    BY <1>2, <2>2 DEF RowMoves
  <2> QED
    BY <2>1, <2>2
<1> QED
  BY <1>2, <1>3

LEMMA CancelTable ==
  ASSUME OutboxAssumption, TableInv, NEW w \in Workers, CancelForAuthorization(w)
  PROVE  TableInv' /\ \A n \in Messages : RowMoves(n)
<1> DEFINE m == sender[w].msg
           t == Owner[m]
           fails == t \in Turns /\ turn[t] \in {"ready_to_send", "delivery_partial"}
           mine == [row EXCEPT ![m].status = "cancelled"]
           others == {n \in MessagesOf(t) : mine[n].status \in Open}
<1>1. /\ row' = (IF fails THEN SetStatus(mine, others, "cancelled") ELSE mine)
      /\ turn' = (IF fails THEN [turn EXCEPT ![t] = "delivery_failed"] ELSE turn)
      /\ sender' = [sender EXCEPT ![w] = Idle]
      /\ UNCHANGED <<review, chat, shown>>
      /\ notifies' \in [Decisions -> Nat]
  BY CountedTable DEF CancelForAuthorization
<1>2. /\ m \in Messages /\ row \in [Messages -> Rows] /\ turn \in [Turns -> TurnStatuses]
      /\ row[m].status # "absent"
  BY DEF CancelForAuthorization, TableInv, HasMessage
<1>3. /\ mine \in [Messages -> Rows]
      /\ mine[m].status = "cancelled" /\ mine[m].attempts = row[m].attempts
      /\ \A n \in Messages : n # m => mine[n] = row[n]
  BY <1>2 DEF Rows, Final
<1>4. turn' \in [Turns -> TurnStatuses]
      /\ \A u \in Turns : turn'[u] = "processing" => turn[u] = "processing"
  BY <1>1, <1>2 DEF TurnStatuses
<1>5. \A n \in others : mine[n].status \in Open
  OBVIOUS
<1> HIDE DEF mine, others, fails
<1>6. /\ row' \in [Messages -> Rows]
      /\ \A n \in Messages : /\ row'[n].attempts = row[n].attempts
                             /\ row'[n] = row[n] \/ row'[n].status = "cancelled"
                             /\ row[n].status = "absent" => row'[n] = row[n]
  <2>1. CASE fails
    <3>1. \A n \in Messages : /\ row'[n].attempts = mine[n].attempts
                              /\ n \in others => row'[n].status = "cancelled"
                              /\ n \notin others => row'[n] = mine[n]
      BY <1>1, <1>3, <2>1, SetStatusMoves, SetStatusRows DEF Final
    <3>2. row' \in [Messages -> Rows]
      BY <1>1, <1>3, <2>1, SetStatusRows DEF Final
    <3> QED
      BY <1>2, <1>3, <1>5, <3>1, <3>2 DEF Open
  <2>2. CASE ~fails
    BY <1>1, <1>2, <1>3, <2>2
  <2> QED
    BY <2>1, <2>2
<1>7. \A n \in Messages : RowMoves(n)
  BY <1>6 DEF RowMoves, Final
<1>8. \A n \in Messages : row[n].status = "absent" => row'[n].status = "absent"
  BY <1>6
<1>9. sender' \in [Workers -> Jobs] /\ \A v \in Workers : HasMessage(sender'[v], row')
  BY <1>1, <1>7, JobStep, IdleIsJob DEF TableInv
<1> QED
  BY <1>1, <1>4, <1>6, <1>7, <1>8, <1>9, TableMoves DEF TableInv, MessagesOf

LEMMA AbandonTable ==
  ASSUME TableInv, NEW rows \in [Messages -> Rows],
         \A n \in Messages : \/ rows[n] = row[n]
                             \/ /\ row[n].status = "delivering" /\ rows[n].status \in Open
                                /\ rows[n].attempts = row[n].attempts,
         row' = AbandonRows(rows)
  PROVE  /\ row' \in [Messages -> Rows] /\ \A n \in Messages : RowMoves(n)
         /\ \A n \in Messages : row[n].status = "absent" => row'[n].status = "absent"
<1>1. row' \in [Messages -> Rows]
  BY AbandonedRows
<1>2. \A n \in Messages : /\ row'[n].attempts = rows[n].attempts
                          /\ \/ row'[n] = rows[n]
                             \/ /\ row'[n].status = "abandoned"
                                /\ rows[n].status \in {"pending", "delivery_unknown"}
  BY AbandonMoves
<1>3. ASSUME NEW n \in Messages
      PROVE  RowMoves(n) /\ (row[n].status = "absent" => row'[n].status = "absent")
  <2>1. CASE rows[n] = row[n]
    BY <1>2, <2>1 DEF RowMoves, Final
  <2>2. CASE rows[n] # row[n]
    BY <1>2, <2>2 DEF RowMoves, Final, Open
  <2> QED
    BY <2>1, <2>2
<1> QED
  BY <1>1, <1>3

\* What the turns become after rows were abandoned and one was refreshed.
LEMMA TurnsTable ==
  ASSUME TableInv, NEW rows, NEW o, NEW seen,
         \/ turn' = AbandonTurns(turn, rows)
         \/ turn' = Refresh(turn, o, seen)
         \/ turn' = Refresh(AbandonTurns(turn, rows), o, seen)
  PROVE  /\ turn' \in [Turns -> TurnStatuses]
         /\ \A t \in Turns : turn'[t] = "processing" => turn[t] = "processing"
<1> DEFINE turns == AbandonTurns(turn, rows)
<1>1. turn \in [Turns -> TurnStatuses]
  BY DEF TableInv
<1>2. /\ turns \in [Turns -> TurnStatuses]
      /\ \A t \in Turns : turns[t] = "processing" => turn[t] = "processing"
  BY <1>1, AbandonedTurns
<1> HIDE DEF turns
<1>3. CASE turn' = turns
  BY <1>2, <1>3
<1>4. CASE turn' = Refresh(turn, o, seen)
  BY <1>1, <1>4, RefreshedOnly
<1>5. CASE turn' = Refresh(turns, o, seen)
  BY <1>2, <1>5, RefreshedOnly
<1> QED
  BY <1>3, <1>4, <1>5 DEF turns

LEMMA ClaimLosesTable ==
  ASSUME OutboxAssumption, TableInv, NEW w \in Workers, ClaimLoses(w)
  PROVE  TableInv' /\ \A n \in Messages : RowMoves(n)
<1> DEFINE m == sender[w].msg
           seen == [Statuses(AbandonRows(row)) EXCEPT ![m] =
                      IF Exhausted(sender[w]) THEN "abandoned" ELSE sender[w].status]
<1>1. /\ row' = AbandonRows(row)
      /\ turn' = Refresh(AbandonTurns(turn, row), Owner[m], seen)
      /\ sender' = [sender EXCEPT ![w] = Idle]
      /\ UNCHANGED <<review, chat, shown>>
      /\ notifies' \in [Decisions -> Nat]
  BY CountedTable DEF ClaimLoses
<1> HIDE DEF m, seen
<1>2. /\ row' \in [Messages -> Rows] /\ \A n \in Messages : RowMoves(n)
      /\ \A n \in Messages : row[n].status = "absent" => row'[n].status = "absent"
  BY <1>1, AbandonTable DEF TableInv
<1>3. /\ turn' \in [Turns -> TurnStatuses]
      /\ \A t \in Turns : turn'[t] = "processing" => turn[t] = "processing"
  BY <1>1, TurnsTable
<1> QED
  BY <1>1, <1>2, <1>3, SettleTable DEF TableInv

LEMMA MarkUnknownTable ==
  ASSUME OutboxAssumption, TableInv, NEW w \in Workers, MarkUnknown(w)
  PROVE  TableInv' /\ \A n \in Messages : RowMoves(n)
<1> DEFINE m == sender[w].msg
           rows == IF Owns(w, m) THEN SetStatus(row, {m}, "delivery_unknown") ELSE row
           seen == Statuses(AbandonRows(rows))
<1>1. /\ row' = AbandonRows(rows)
      /\ turn' = Refresh(AbandonTurns(turn, rows), Owner[m], seen)
      /\ sender' = [sender EXCEPT ![w] = Idle]
      /\ UNCHANGED <<review, chat, shown>>
      /\ notifies' \in [Decisions -> Nat]
  BY CountedTable DEF MarkUnknown
<1>2. row \in [Messages -> Rows] /\ rows \in [Messages -> Rows]
  BY SetStatusRows DEF TableInv, Open
<1>3. \A n \in Messages : \/ rows[n] = row[n]
                          \/ /\ row[n].status = "delivering" /\ rows[n].status \in Open
                             /\ rows[n].attempts = row[n].attempts
  BY <1>2, SetStatusMoves, SetStatusRows DEF Owns, Open
<1> HIDE DEF m, rows, seen
<1>4. /\ row' \in [Messages -> Rows] /\ \A n \in Messages : RowMoves(n)
      /\ \A n \in Messages : row[n].status = "absent" => row'[n].status = "absent"
  BY <1>1, <1>2, <1>3, AbandonTable
<1>5. /\ turn' \in [Turns -> TurnStatuses]
      /\ \A t \in Turns : turn'[t] = "processing" => turn[t] = "processing"
  BY <1>1, TurnsTable
<1> QED
  BY <1>1, <1>4, <1>5, SettleTable DEF TableInv

LEMMA MarkDeliveredTable ==
  ASSUME OutboxAssumption, TableInv, NEW w \in Workers, MarkDelivered(w)
  PROVE  TableInv' /\ \A n \in Messages : RowMoves(n)
<1> DEFINE m == sender[w].msg
           o == Owner[m]
           rows == SetStatus(row, {m}, "delivered")
           seen == Statuses(rows)
<1>1. /\ sender' = [sender EXCEPT ![w] = Idle] /\ UNCHANGED <<chat, shown>>
      /\ \/ row' = rows /\ turn' = Refresh(turn, o, seen) /\ Owns(w, m)
         \/ UNCHANGED <<row, turn>>
      /\ \/ o \in Decisions /\ review' = [review EXCEPT ![o] = "notified"]
         \/ UNCHANGED review
      /\ \/ o \in Decisions /\ notifies' = [notifies EXCEPT ![o] = @ + 1]
         \/ UNCHANGED notifies
         \/ CountFailure(w)
  BY DEF MarkDelivered
<1>2. review' \in [Decisions -> Reviews] /\ notifies' \in [Decisions -> Nat]
  BY <1>1, CountedTable DEF TableInv, Reviews
<1>3. CASE UNCHANGED <<row, turn>>
  BY <1>1, <1>2, <1>3, NoRowMoves, SettleTable DEF TableInv
<1>4. CASE row' = rows /\ turn' = Refresh(turn, o, seen) /\ Owns(w, m)
  <2>0. "delivered" \in Final /\ "delivered" \notin Open
    BY DEF Final, Open
  <2>a. \A n \in Messages : n \in {m} => row[n].status # "absent"
    BY <1>4 DEF Owns
  <2>1. /\ row' \in [Messages -> Rows] /\ \A n \in Messages : RowMoves(n)
        /\ \A n \in Messages : row[n].status = "absent" => row'[n].status = "absent"
    <3>1. PICK S : S = {m}
      OBVIOUS
    <3>2. row' = SetStatus(row, S, "delivered")
      BY <1>4, <3>1
    <3>3. \A n \in Messages : n \in S => row[n].status # "absent"
      BY <2>a, <3>1
    <3> QED
      BY <2>0, <3>2, <3>3, StatusMoves
  <2> HIDE DEF m, o, rows, seen
  <2>2. /\ turn' \in [Turns -> TurnStatuses]
        /\ \A t \in Turns : turn'[t] = "processing" => turn[t] = "processing"
    BY <1>4, TurnsTable
  <2> QED
    BY <1>1, <1>2, <2>1, <2>2, SettleTable
<1> QED
  BY <1>1, <1>3, <1>4

LEMMA RecoverTable ==
  ASSUME TableInv, Recover
  PROVE  TableInv' /\ \A n \in Messages : RowMoves(n)
<1> DEFINE stale == {m \in Messages : row[m].status = "delivering" /\ ~row[m].live}
           rows == SetStatus(row, stale, "delivery_unknown")
<1>1. /\ row' = AbandonRows(rows) /\ turn' = AbandonTurns(turn, rows)
      /\ UNCHANGED <<review, notifies, chat, sender, shown>>
  BY DEF Recover
<1>2. row \in [Messages -> Rows] /\ rows \in [Messages -> Rows]
  BY SetStatusRows DEF TableInv, Open
<1>a. \A n \in stale : row[n].status = "delivering"
  OBVIOUS
<1> HIDE DEF stale
<1>3. \A n \in Messages : \/ rows[n] = row[n]
                          \/ /\ row[n].status = "delivering" /\ rows[n].status \in Open
                             /\ rows[n].attempts = row[n].attempts
  BY <1>2, <1>a, SetStatusMoves, SetStatusRows DEF Open
<1> HIDE DEF rows
<1>4. /\ row' \in [Messages -> Rows] /\ \A n \in Messages : RowMoves(n)
      /\ \A n \in Messages : row[n].status = "absent" => row'[n].status = "absent"
  BY <1>1, <1>2, <1>3, AbandonTable
<1>5. /\ turn' \in [Turns -> TurnStatuses]
      /\ \A t \in Turns : turn'[t] = "processing" => turn[t] = "processing"
  BY <1>1, TurnsTable
<1> QED
  BY <1>1, <1>4, <1>5, SettleTable DEF TableInv

LEMMA LeaseExpiresTable ==
  ASSUME TableInv, NEW m \in Messages, LeaseExpires(m)
  PROVE  TableInv' /\ \A n \in Messages : RowMoves(n)
<1>1. /\ row' = [row EXCEPT ![m].live = FALSE] /\ row[m].status = "delivering"
      /\ UNCHANGED <<turn, review, notifies, chat, sender, shown>>
  BY DEF LeaseExpires
<1>2. /\ row' \in [Messages -> Rows] /\ row'[m].status = row[m].status
      /\ \A n \in Messages : n # m => row'[n] = row[n]
  BY <1>1 DEF TableInv, Rows
<1>3. \A n \in Messages : RowMoves(n) /\ (row[n].status = "absent" => row'[n].status = "absent")
  BY <1>1, <1>2 DEF RowMoves, Open
<1> QED
  BY <1>1, <1>2, <1>3, SettleTable DEF TableInv

LEMMA SettledMoves ==
  ASSUME TableInv, NEW m \in Messages, row' = Settled(m)
  PROVE  /\ row' \in [Messages -> Rows] /\ \A n \in Messages : RowMoves(n)
         /\ \A n \in Messages : row[n].status = "absent" => row'[n].status = "absent"
         /\ row'[m].status \in Final \cup {"absent"}
<1>1. CASE row[m].status \in Open \cup {"abandoned"}
  <2>1. row' = SetStatus(row, {m}, "delivered")
    BY <1>1 DEF Settled
  <2>2. row'[m].status = "delivered"
    BY <2>1, SetStatusRows DEF TableInv, Final
  <2>3. "delivered" \in Final /\ "delivered" \notin Open /\ "absent" \notin Open
    BY DEF Final, Open
  <2>4. \A n \in Messages : n \in {m} => row[n].status # "absent"
    BY <1>1, <2>3
  <2>5. /\ row' \in [Messages -> Rows] /\ \A n \in Messages : RowMoves(n)
        /\ \A n \in Messages : row[n].status = "absent" => row'[n].status = "absent"
    BY <2>1, <2>3, <2>4, StatusMoves
  <2> QED
    BY <2>2, <2>3, <2>5
<1>2. CASE row[m].status \notin Open \cup {"abandoned"}
  BY <1>2, NoRowMoves DEF Settled, TableInv, Rows
<1> QED
  BY <1>1, <1>2

LEMMA ReplyTable ==
  ASSUME TableInv, NEW m \in Messages, Reply(m)
  PROVE  TableInv' /\ \A n \in Messages : RowMoves(n)
<1> DEFINE rows == Settled(m)
           seen == Statuses(rows)
<1>1. /\ row' = rows /\ turn' = Refresh(turn, Owner[m], seen)
      /\ UNCHANGED <<review, notifies, chat, sender, shown>>
  BY DEF Reply
<1>2. /\ row' \in [Messages -> Rows] /\ \A n \in Messages : RowMoves(n)
      /\ \A n \in Messages : row[n].status = "absent" => row'[n].status = "absent"
  BY <1>1, SettledMoves
<1> HIDE DEF seen, rows
<1>3. /\ turn' \in [Turns -> TurnStatuses]
      /\ \A t \in Turns : turn'[t] = "processing" => turn[t] = "processing"
  BY <1>1, TurnsTable
<1> QED
  BY <1>1, <1>2, <1>3, SettleTable DEF TableInv

LEMMA TapTable ==
  ASSUME TableInv, NEW m \in Messages, Tap(m)
  PROVE  TableInv' /\ \A n \in Messages : RowMoves(n)
<1>1. /\ row' = Settled(m)
      /\ UNCHANGED review \/ review' = [review EXCEPT ![Owner[m]] = "done"]
      /\ UNCHANGED <<turn, notifies, chat, sender, shown>>
  BY DEF Tap
<1>2. review' \in [Decisions -> Reviews]
  BY <1>1 DEF TableInv, Reviews
<1> QED
  BY <1>1, <1>2, SettledMoves, SettleTable DEF TableInv

LEMMA SupersedeTable ==
  ASSUME TableInv, NEW d \in Decisions, Supersede(d)
  PROVE  TableInv' /\ \A n \in Messages : RowMoves(n)
<1> DEFINE open == {m \in MessagesOf(d) : row[m].status \in Open}
<1>1. /\ row' = SetStatus(row, open, "cancelled") /\ review' = [review EXCEPT ![d] = "done"]
      /\ UNCHANGED <<turn, notifies, chat, sender, shown>>
  BY DEF Supersede
<1>2. \A m \in Messages : m \in open => row[m].status \in Open /\ row[m].status # "absent"
  BY DEF Open
<1>3. review' \in [Decisions -> Reviews]
  BY <1>1 DEF TableInv, Reviews
<1> HIDE DEF open
<1>4. /\ row' \in [Messages -> Rows] /\ \A n \in Messages : RowMoves(n)
      /\ \A n \in Messages : row[n].status = "absent" => row'[n].status = "absent"
  BY <1>1, <1>2, StatusMoves DEF Final
<1> QED
  BY <1>1, <1>3, <1>4, SettleTable DEF TableInv

LEMMA CrashTable ==
  ASSUME TableInv, Crash
  PROVE  TableInv' /\ \A n \in Messages : RowMoves(n)
<1>1. /\ sender' = [w \in Workers |-> Idle]
      /\ UNCHANGED <<row, turn, review, notifies, chat>>
      /\ UNCHANGED shown \/ \E w \in Workers : Render(sender[w].msg)
  BY DEF Crash
<1>2. shown' \in [Messages -> Nat]
  BY <1>1 DEF Render, TableInv
<1>3. sender' \in [Workers -> Jobs] /\ \A w \in Workers : HasMessage(sender'[w], row')
  BY <1>1, IdleIsJob
<1> QED
  BY <1>1, <1>2, <1>3, NoRowMoves, TableMoves DEF TableInv

LEMMA TableStep ==
  ASSUME OutboxAssumption, TableInv, [Next]_vars
  PROVE  TableInv' /\ \A n \in Messages : RowMoves(n)
<1>1. CASE UNCHANGED vars
  BY <1>1, NoRowMoves, NoJobStep, TableMoves DEF vars, TableInv
<1>2. ASSUME NEW t \in Turns, Queue(t)
      PROVE  TableInv' /\ \A n \in Messages : RowMoves(n)
  BY <1>2, QueueTable
<1>3. ASSUME NEW w \in Workers, NEW m \in Messages, Dispatch(w, m) \/ Notify(w, m)
      PROVE  TableInv' /\ \A n \in Messages : RowMoves(n)
  BY <1>3, DispatchTable, NotifyTable
<1>4. ASSUME NEW w \in Workers, SenderStep(w) \/ Cancelled(w)
      PROVE  TableInv' /\ \A n \in Messages : RowMoves(n)
  BY <1>4, ReadPromptTable, CancelTable, ClaimWinsTable, ClaimLosesTable, SendTable,
     MarkDeliveredTable, MarkUnknownTable DEF SenderStep
<1>5. CASE Recover
  BY <1>5, RecoverTable
<1>6. ASSUME NEW m \in Messages, LeaseExpires(m) \/ Reply(m) \/ Tap(m)
      PROVE  TableInv' /\ \A n \in Messages : RowMoves(n)
  BY <1>6, LeaseExpiresTable, ReplyTable, TapTable
<1>7. ASSUME NEW d \in Decisions, Supersede(d)
      PROVE  TableInv' /\ \A n \in Messages : RowMoves(n)
  BY <1>7, SupersedeTable
<1>8. ASSUME NEW c \in Chats, ChangeChat(c)
      PROVE  TableInv' /\ \A n \in Messages : RowMoves(n)
  <2>1. chat' \in Chats /\ UNCHANGED <<row, turn, review, notifies, sender, shown>>
    BY <1>8 DEF ChangeChat
  <2> QED
    BY <2>1, NoRowMoves, NoJobStep, TableMoves DEF TableInv
<1>9. CASE Crash
  BY <1>9, CrashTable
<1> QED
  BY <1>1, <1>2, <1>3, <1>4, <1>5, <1>6, <1>7, <1>8, <1>9 DEF Next

-----------------------------------------------------------------------------
(* The prompt of an answered decision.                                       *)

(* A transaction that has its category has no prompt that could be claimed. *)
DoneIsClosed ==
  \A m \in Messages : Owner[m] \in Decisions /\ review[Owner[m]] = "done" =>
    row[m].status \in Final \cup {"absent"}

\* Only a tap on its prompt, or another path, closes the review.
LEMMA ClosedBy ==
  ASSUME OutboxAssumption, TableInv, Next, NEW d \in Decisions,
         review[d] # "done", review'[d] = "done"
  PROVE  Supersede(d) \/ \E m \in Messages : Owner[m] = d /\ Tap(m)
<1>1. ASSUME NEW w \in Workers, MarkDelivered(w)  PROVE  FALSE
  <2> DEFINE o == Owner[sender[w].msg]
  <2>1. UNCHANGED review \/ review' = [review EXCEPT ![o] = "notified"]
    BY <1>1 DEF MarkDelivered
  <2> HIDE DEF o
  <2> QED
    BY <2>1 DEF TableInv
<1>2. ASSUME NEW m \in Messages, Tap(m)  PROVE  Owner[m] = d
  <2>1. UNCHANGED review \/ review' = [review EXCEPT ![Owner[m]] = "done"]
    BY <1>2 DEF Tap
  <2> QED
    BY <2>1 DEF TableInv
<1>3. ASSUME NEW e \in Decisions, Supersede(e)  PROVE  e = d
  BY <1>3 DEF Supersede, TableInv
<1>4. ASSUME NEW w \in Workers, NEW m \in Messages, Dispatch(w, m) \/ Notify(w, m)  PROVE  FALSE
  BY <1>4 DEF Dispatch, Notify
<1>5. ASSUME NEW w \in Workers, SenderStep(w) \/ Cancelled(w)  PROVE  FALSE
  BY <1>1, <1>5 DEF SenderStep, Cancelled, ReadPrompt, CancelForAuthorization, ClaimWins,
     ClaimLoses, SendAccepted, SendUnanswered, SendRejected, MarkUnknown
<1>6. ASSUME NEW m \in Messages, LeaseExpires(m) \/ Reply(m)  PROVE  FALSE
  BY <1>6 DEF LeaseExpires, Reply
<1>7. ASSUME NEW t \in Turns, Queue(t)  PROVE  FALSE
  BY <1>7 DEF Queue
<1>8. ~Recover /\ ~Crash /\ \A c \in Chats : ~ChangeChat(c)
  BY DEF Recover, Crash, ChangeChat
<1> QED
  BY <1>2, <1>3, <1>4, <1>5, <1>6, <1>7, <1>8 DEF Next

LEMMA ClosedStep ==
  ASSUME OutboxAssumption, TableInv, DoneIsClosed, [Next]_vars
  PROVE  /\ DoneIsClosed'
         /\ \A m \in Messages : Owner[m] \in Decisions /\ review[Owner[m]] = "done" =>
              row'[m].attempts = row[m].attempts
<1>1. \A n \in Messages : RowMoves(n)
  BY TableStep
<1>2. ASSUME NEW m \in Messages, Owner[m] \in Decisions, review[Owner[m]] = "done"
      PROVE  row'[m].status \in Final \cup {"absent"} /\ row'[m].attempts = row[m].attempts
  <2>1. row[m].status \in Final \cup {"absent"} /\ RowMoves(m)
    BY <1>1, <1>2 DEF DoneIsClosed
  <2> QED
    BY <1>2, <2>1 DEF RowMoves, Open, Final
<1>3. ASSUME NEW m \in Messages, Owner[m] \in Decisions,
             review'[Owner[m]] = "done", review[Owner[m]] # "done"
      PROVE  row'[m].status \in Final \cup {"absent"}
  <2>1. PICK d \in Decisions : d = Owner[m]
    BY <1>3
  <2>2. Next
    BY <1>3 DEF vars
  <2>3. Supersede(d) \/ \E n \in Messages : Owner[n] = d /\ Tap(n)
    BY <1>3, <2>1, <2>2, ClosedBy
  <2>4. CASE Supersede(d)
    <3> DEFINE open == {n \in MessagesOf(d) : row[n].status \in Open}
    <3>1. row' = SetStatus(row, open, "cancelled")
      BY <2>4 DEF Supersede
    <3>2. m \in open <=> row[m].status \in Open
      BY <2>1 DEF MessagesOf
    <3> HIDE DEF open
    <3>3. row'[m].status = (IF m \in open THEN "cancelled" ELSE row[m].status)
      BY <3>1, SetStatusRows DEF TableInv, Final
    <3> QED
      BY <3>2, <3>3 DEF TableInv, Rows, Final
  <2>5. ASSUME NEW n \in Messages, Owner[n] = d, Tap(n)
        PROVE  row'[m].status \in Final \cup {"absent"}
    <3>1. n = m
      BY <2>1, <2>5 DEF OutboxAssumption
    <3>2. row' = Settled(n)
      BY <2>5 DEF Tap
    <3> QED
      BY <3>1, <3>2, SettledMoves
  <2> QED
    BY <2>3, <2>4, <2>5
<1> QED
  BY <1>2, <1>3 DEF DoneIsClosed

(* Once a transaction has its category, by a tap, by a rule or by hand, the  *)
(* row of its prompt is never claimed again: under every fault of the        *)
(* environment, and however often the chat changes.                          *)
THEOREM AnsweredPromptsRest == Spec => AnsweredIsNotAsked
<1>1. Init => TableInv /\ DoneIsClosed
  <2> SUFFICES ASSUME Init  PROVE  TableInv /\ DoneIsClosed
    OBVIOUS
  <2>1. \A d \in Decisions : review[d] = "pending"
    BY DEF Init
  <2> QED
    BY <2>1, OutboxAssumption, TableInit DEF DoneIsClosed
<1>2. /\ TableInv /\ DoneIsClosed /\ [Next]_vars => (TableInv /\ DoneIsClosed)'
  BY OutboxAssumption, TableStep, ClosedStep
<1>3. TableInv /\ DoneIsClosed /\ [Next]_vars =>
        [\A m \in Messages : Owner[m] \in Decisions /\ review[Owner[m]] = "done" =>
           row'[m].attempts = row[m].attempts]_vars
  BY OutboxAssumption, ClosedStep
<1> QED
  BY <1>1, <1>2, <1>3, PTL DEF Spec, AnsweredIsNotAsked

-----------------------------------------------------------------------------
(* Every send is answered, no sender is stopped, and a lease outlives the    *)
(* call: what is shown, and who may be showing it.                           *)

SendsAreAnswered == Faults \cap {"network", "crash", "cancel", "slow_send"} = {}

Sends(w, m) == sender[w].pc \in {"send", "sent", "raised"} /\ sender[w].msg = m
Held(m) == row[m].status = "delivering" /\ row[m].live

\* Whoever sends a message holds its lease, unless the row was closed meanwhile.
SendersHold ==
  \A w \in Workers, m \in Messages : Sends(w, m) =>
    row[m].status \in Final \/ (Held(m) /\ row[m].token = w)

\* Before the answer nothing is shown.
NotYetShown ==
  \A w \in Workers, m \in Messages : Sends(w, m) /\ sender[w].pc # "sent" => shown[m] = 0

\* What was shown will not be claimed again.
ShownIsSpent ==
  \A m \in Messages : shown[m] > 0 =>
    row[m].status \in Final \/ \E w \in Workers : Sends(w, m) /\ sender[w].pc = "sent"

OneSender ==
  \A v, w \in Workers, m \in Messages : Sends(v, m) /\ Sends(w, m) => v = w

OnceInv == TableInv /\ SendersHold /\ NotYetShown /\ ShownIsSpent /\ OneSender /\ ShownOnce

\* A row that is neither final nor held is not being sent, and was not shown.
LEMMA FreeRow ==
  ASSUME OnceInv, NEW m \in Messages, ~Held(m), row[m].status \notin Final
  PROVE  (\A w \in Workers : ~Sends(w, m)) /\ shown[m] = 0
<1>1. \A w \in Workers : ~Sends(w, m)
  BY DEF OnceInv, SendersHold
<1>2. shown[m] \in Nat /\ ~(shown[m] > 0)
  BY <1>1 DEF OnceInv, ShownIsSpent, TableInv
<1> QED
  BY <1>1, <1>2

\* A worker that goes on sending keeps its row; one that stops after the
\* answer leaves a final row.
Calm(w) ==
  \/ /\ sender'[w] = sender[w]
     /\ \A m \in Messages : Sends(w, m) => row'[m] = row[m] \/ row'[m].status \in Final
  \/ /\ sender'[w].pc \notin {"send", "sent", "raised"}
     /\ \A m \in Messages : Sends(w, m) /\ sender[w].pc = "sent" => row'[m].status \in Final

LEMMA CalmStep ==
  ASSUME OnceInv, TableInv', \A m \in Messages : RowMoves(m), UNCHANGED shown,
         \A w \in Workers : Calm(w)
  PROVE  OnceInv'
<1>1. \A m \in Messages : row[m].status \in Final => row'[m].status \in Final
  BY DEF RowMoves, Open, Final
<1>2. \A w \in Workers, m \in Messages : Sends(w, m)' => Sends(w, m) /\ sender'[w] = sender[w]
  BY DEF Calm, Sends
<1>3. SendersHold'
  <2> SUFFICES ASSUME NEW w \in Workers, NEW m \in Messages, Sends(w, m)'
               PROVE  row'[m].status \in Final \/ (Held(m)' /\ row'[m].token = w)
    BY DEF SendersHold
  <2>1. Sends(w, m) /\ sender'[w] = sender[w]
    BY <1>2
  <2>2. sender'[w].pc \in {"send", "sent", "raised"}
    BY <2>1 DEF Sends
  <2>3. row'[m] = row[m] \/ row'[m].status \in Final
    BY <2>1, <2>2 DEF Calm
  <2>4. row[m].status \in Final \/ (Held(m) /\ row[m].token = w)
    BY <2>1 DEF OnceInv, SendersHold
  <2> QED
    BY <2>3, <2>4, <1>1 DEF Held
<1>4. NotYetShown'
  BY <1>2 DEF OnceInv, NotYetShown
<1>5. ShownIsSpent'
  <2> SUFFICES ASSUME NEW m \in Messages, shown[m] > 0, row'[m].status \notin Final
               PROVE  \E w \in Workers : Sends(w, m)' /\ sender'[w].pc = "sent"
    BY DEF ShownIsSpent
  <2>1. PICK w \in Workers : Sends(w, m) /\ sender[w].pc = "sent"
    BY <1>1 DEF OnceInv, ShownIsSpent
  <2> QED
    BY <2>1 DEF Calm, Sends
<1>6. OneSender'
  BY <1>2 DEF OnceInv, OneSender
<1>7. ShownOnce'
  BY DEF OnceInv, ShownOnce
<1> QED
  BY <1>3, <1>4, <1>5, <1>6, <1>7 DEF OnceInv

\* A step in which at most one worker stops, that was not sending, and held
\* rows are kept or closed.
LEMMA StillStep ==
  ASSUME OnceInv, TableInv', \A m \in Messages : RowMoves(m), UNCHANGED shown,
         \A m \in Messages : Held(m) => row'[m] = row[m] \/ row'[m].status \in Final,
         \A w \in Workers :
           \/ sender'[w] = sender[w]
           \/ /\ sender'[w].pc \notin {"send", "sent", "raised"}
              /\ sender[w].pc \notin {"send", "sent", "raised"}
  PROVE  OnceInv'
<1>1. ASSUME NEW w \in Workers  PROVE  Calm(w)
  <2>1. ASSUME NEW m \in Messages, Sends(w, m)
        PROVE  row'[m] = row[m] \/ row'[m].status \in Final
    <3>1. row[m].status \in Final \/ Held(m)
      BY <2>1 DEF OnceInv, SendersHold
    <3>2. RowMoves(m)
      OBVIOUS
    <3> QED
      BY <3>1, <3>2 DEF RowMoves, Open, Final
  <2> QED
    BY <2>1 DEF Calm, Sends
<1> QED
  BY <1>1, CalmStep

LEMMA SenderOnly ==
  ASSUME TableInv, NEW w \in Workers, NEW task, sender' = [sender EXCEPT ![w] = task]
  PROVE  sender'[w] = task /\ \A v \in Workers : v # w => sender'[v] = sender[v]
BY DEF TableInv

LEMMA QueueOnce ==
  ASSUME OutboxAssumption, OnceInv, NEW t \in Turns, Queue(t)
  PROVE  OnceInv'
<1>1. TableInv /\ TableInv' /\ \A m \in Messages : RowMoves(m)
  BY QueueTable DEF OnceInv
<1>2. UNCHANGED <<sender, shown>> /\ turn[t] = "processing"
      /\ row' = [m \in Messages |-> IF Owner[m] = t THEN NewRow ELSE row[m]]
  BY DEF Queue
<1>3. \A m \in Messages : Held(m) => row'[m] = row[m]
  BY <1>1, <1>2 DEF Held, TableInv, QueuedOnce, MessagesOf
<1> QED
  BY <1>1, <1>2, <1>3, StillStep

\* The steps of a worker before the call of the Bot API.
LEMMA BeforeCallOnce ==
  ASSUME OutboxAssumption, OnceInv, NEW w \in Workers, NEW m \in Messages,
         Dispatch(w, m) \/ Notify(w, m) \/ ReadPrompt(w)
  PROVE  OnceInv'
<1>1. TableInv /\ TableInv' /\ \A n \in Messages : RowMoves(n)
  BY DispatchTable, NotifyTable, ReadPromptTable DEF OnceInv
<1>2. UNCHANGED shown /\ \A n \in Messages : Held(n) => row'[n] = row[n]
  <2>1. CASE Notify(w, m)
    <3>1. row' = (IF row[m].status = "absent" THEN [row EXCEPT ![m] = NewRow] ELSE row)
          /\ UNCHANGED shown
      BY <2>1 DEF Notify
    <3> HIDE DEF NewRow
    <3> QED
      BY <1>1, <3>1 DEF Held, TableInv
  <2>2. CASE Dispatch(w, m) \/ ReadPrompt(w)
    BY <2>2 DEF Dispatch, ReadPrompt
  <2> QED
    BY <2>1, <2>2
<1>3. PICK task : /\ task.pc \notin {"send", "sent", "raised"}
                  /\ sender[w].pc \notin {"send", "sent", "raised"}
                  /\ sender' = [sender EXCEPT ![w] = task]
  <2>1. CASE Dispatch(w, m)
    <3> DEFINE task == SavedRow(Idle, m)
    <3>1. sender[w] = Idle /\ sender' = [sender EXCEPT ![w] = task]
      BY <2>1 DEF Dispatch
    <3>2. task.pc \in {"claim", "cancel"}
      BY IdleIsJob DEF SavedRow, Jobs
    <3> HIDE DEF task
    <3> QED
      BY <3>1, <3>2, IdleIsJob
  <2>2. CASE Notify(w, m)
    <3> DEFINE task == [Idle EXCEPT !.pc = "open", !.msg = m, !.notify = TRUE,
                                !.notifies = notifies[Owner[m]]]
    <3>1. sender[w] = Idle /\ sender' = [sender EXCEPT ![w] = task]
      BY <2>2 DEF Notify
    <3>2. task.pc = "open"
      BY DEF Idle
    <3> HIDE DEF task
    <3> QED
      BY <3>1, <3>2, IdleIsJob
  <2>3. CASE ReadPrompt(w)
    <3>1. sender[w] \in Jobs
      BY <1>1 DEF TableInv
    <3>2. SavedRow(sender[w], sender[w].msg).pc \in {"claim", "cancel"}
      BY <3>1 DEF SavedRow, Jobs
    <3>3. sender[w].pc = "open" /\ \/ sender' = [sender EXCEPT ![w] = Idle]
                                   \/ sender' = [sender EXCEPT ![w] = SavedRow(sender[w], sender[w].msg)]
      BY <2>3 DEF ReadPrompt
    <3> QED
      BY <3>2, <3>3, IdleIsJob
  <2> QED
    BY <2>1, <2>2, <2>3
<1>4. \A v \in Workers : \/ sender'[v] = sender[v]
                         \/ /\ sender'[v].pc \notin {"send", "sent", "raised"}
                            /\ sender[v].pc \notin {"send", "sent", "raised"}
  BY <1>1, <1>3, SenderOnly
<1> QED
  BY <1>1, <1>2, <1>4, StillStep

\* Rows that are abandoned were not held.
LEMMA AbandonKeepsHeld ==
  ASSUME NEW rows \in [Messages -> Rows]
  PROVE  \A n \in Messages : rows[n].status = "delivering" => AbandonRows(rows)[n] = rows[n]
BY DEF AbandonRows, Exhausted

LEMMA LostOnce ==
  ASSUME OutboxAssumption, OnceInv, NEW w \in Workers,
         ClaimLoses(w) \/ CancelForAuthorization(w)
  PROVE  OnceInv'
<1>1. TableInv /\ TableInv' /\ \A n \in Messages : RowMoves(n)
  BY ClaimLosesTable, CancelTable DEF OnceInv
<1>2. /\ sender[w].pc \in {"claim", "cancel"} /\ sender' = [sender EXCEPT ![w] = Idle]
      /\ UNCHANGED shown
  BY DEF ClaimLoses, CancelForAuthorization
<1>3. \A n \in Messages : Held(n) => row'[n] = row[n] \/ row'[n].status \in Final
  <2>1. CASE ClaimLoses(w)
    BY <1>1, <2>1, AbandonKeepsHeld DEF ClaimLoses, Held, TableInv
  <2>2. CASE CancelForAuthorization(w)
    <3> DEFINE m == sender[w].msg
               mine == [row EXCEPT ![m].status = "cancelled"]
               others == {n \in MessagesOf(Owner[m]) : mine[n].status \in Open}
    <3>1. row' = SetStatus(mine, others, "cancelled") \/ row' = mine
      BY <2>2 DEF CancelForAuthorization
    <3>2. m \in Messages /\ row \in [Messages -> Rows]
      BY <1>1, <1>2 DEF TableInv, HasMessage
    <3>3. mine \in [Messages -> Rows] /\ \A n \in Messages : mine[n] = row[n] \/ mine[n].status \in Final
      BY <3>2 DEF Rows, Final
    <3> HIDE DEF mine, others
    <3>4. CASE row' = mine
      BY <3>3, <3>4
    <3>5. CASE row' = SetStatus(mine, others, "cancelled")
      <4>1. \A n \in Messages : /\ n \notin others => row'[n] = mine[n]
                                /\ row'[n].status = (IF n \in others THEN "cancelled" ELSE mine[n].status)
        BY <3>3, <3>5, SetStatusMoves, SetStatusRows DEF Final
      <4> QED
        BY <3>3, <4>1 DEF Final
    <3> QED
      BY <3>1, <3>4, <3>5
  <2> QED
    BY <2>1, <2>2
<1>4. \A v \in Workers : \/ sender'[v] = sender[v]
                         \/ /\ sender'[v].pc \notin {"send", "sent", "raised"}
                            /\ sender[v].pc \notin {"send", "sent", "raised"}
  BY <1>1, <1>2, SenderOnly, IdleIsJob
<1> QED
  BY <1>1, <1>2, <1>3, <1>4, StillStep

LEMMA ClaimWinsOnce ==
  ASSUME OutboxAssumption, OnceInv, NEW w \in Workers, ClaimWins(w)
  PROVE  OnceInv'
<1>1. TableInv /\ TableInv' /\ \A n \in Messages : RowMoves(n)
  BY ClaimWinsTable DEF OnceInv
<1>2. PICK m \in Messages : m = sender[w].msg
  BY <1>1 DEF ClaimWins, TableInv, HasMessage
<1>3. /\ sender[w].pc = "claim" /\ Claimable(row[m]) /\ UNCHANGED shown
      /\ row' = [row EXCEPT ![m] = ClaimDelivery(row[m], w)]
      /\ sender' = [sender EXCEPT ![w].pc = "send"]
  BY <1>2 DEF ClaimWins
<1>4. (\A v \in Workers : ~Sends(v, m)) /\ shown[m] = 0
  BY <1>3, FreeRow DEF Claimable, Held, Final
<1>5. /\ row'[m].status = "delivering" /\ row'[m].live /\ row'[m].token = w
      /\ \A n \in Messages : n # m => row'[n] = row[n]
  BY <1>1, <1>3 DEF ClaimDelivery, TableInv, Rows
<1>6. /\ sender'[w].pc = "send" /\ sender'[w].msg = m
      /\ \A v \in Workers : v # w => sender'[v] = sender[v]
  BY <1>1, <1>2, <1>3 DEF TableInv, Jobs
<1>7. \A v \in Workers, n \in Messages : Sends(v, n)' =>
        (v = w /\ n = m) \/ (v # w /\ n # m /\ Sends(v, n) /\ sender'[v] = sender[v])
  BY <1>4, <1>6 DEF Sends
<1>8. \A v \in Workers, n \in Messages : Sends(v, n) => n # m /\ v # w /\ sender'[v] = sender[v]
  BY <1>3, <1>4, <1>6 DEF Sends
<1>9. SendersHold'
  BY <1>5, <1>7 DEF OnceInv, SendersHold, Held
<1>10. NotYetShown'
  BY <1>3, <1>4, <1>7 DEF OnceInv, NotYetShown
<1>11. ShownIsSpent'
  <2> SUFFICES ASSUME NEW n \in Messages, shown[n] > 0, row'[n].status \notin Final
               PROVE  \E v \in Workers : Sends(v, n)' /\ sender'[v].pc = "sent"
    BY <1>3 DEF ShownIsSpent
  <2>1. n # m
    BY <1>4
  <2>2. PICK v \in Workers : Sends(v, n) /\ sender[v].pc = "sent"
    BY <1>5, <2>1 DEF OnceInv, ShownIsSpent
  <2> QED
    BY <1>8, <2>2 DEF Sends
<1>12. OneSender'
  BY <1>7 DEF OnceInv, OneSender
<1> QED
  BY <1>1, <1>3, <1>9, <1>10, <1>11, <1>12 DEF OnceInv, ShownOnce

\* The answer arrives: accepted, or refused.
LEMMA AnswerOnce ==
  ASSUME OutboxAssumption, OnceInv, NEW w \in Workers, SendAccepted(w) \/ SendRejected(w)
  PROVE  OnceInv'
<1>1. TableInv /\ TableInv'
  BY SendTable DEF OnceInv
<1>2. PICK m \in Messages : m = sender[w].msg
  BY <1>1 DEF SendAccepted, SendRejected, TableInv, HasMessage
<1>3. Sends(w, m) /\ sender[w].pc = "send" /\ UNCHANGED row
  BY <1>2 DEF SendAccepted, SendRejected, Sends
<1>4. shown[m] = 0 /\ \A v \in Workers : v # w => ~Sends(v, m)
  BY <1>3 DEF OnceInv, NotYetShown, OneSender
<1>5. PICK pc \in {"sent", "raised"} : sender' = [sender EXCEPT ![w].pc = pc]
  BY DEF SendAccepted, SendRejected
<1>6. /\ sender'[w].pc = pc /\ sender'[w].msg = m
      /\ \A v \in Workers : v # w => sender'[v] = sender[v]
  BY <1>1, <1>2, <1>5 DEF TableInv, Jobs
<1>7. /\ \A n \in Messages : n # m => shown'[n] = shown[n]
      /\ shown'[m] = (IF pc = "sent" THEN 1 ELSE 0)
  <2>1. CASE SendAccepted(w)
    <3>1. sender'[w].pc = "sent"
      BY <1>1, <2>1 DEF SendAccepted, TableInv, Jobs
    <3>2. shown' = [shown EXCEPT ![m] = @ + 1]
      BY <1>2, <2>1 DEF SendAccepted, Render
    <3> QED
      BY <1>1, <1>4, <1>6, <3>1, <3>2 DEF TableInv
  <2>2. CASE SendRejected(w)
    <3>1. sender'[w].pc = "raised" /\ UNCHANGED shown
      BY <1>1, <2>2 DEF SendRejected, TableInv, Jobs
    <3> QED
      BY <1>4, <1>6, <3>1
  <2> QED
    BY <2>1, <2>2
<1>8. \A v \in Workers, n \in Messages : Sends(v, n)' <=> Sends(v, n)
  BY <1>3, <1>2, <1>6 DEF Sends
<1>9. SendersHold' /\ OneSender'
  BY <1>3, <1>8 DEF OnceInv, SendersHold, OneSender, Held
<1>10. NotYetShown'
  <2> SUFFICES ASSUME NEW v \in Workers, NEW n \in Messages, Sends(v, n)', sender'[v].pc # "sent"
               PROVE  shown'[n] = 0
    BY DEF NotYetShown
  <2>1. Sends(v, n)
    BY <1>8
  <2>2. CASE n = m
    BY <1>4, <1>6, <1>7, <2>1, <2>2
  <2>3. CASE n # m
    <3>1. v # w
      BY <1>2, <2>1, <2>3 DEF Sends
    <3> QED
      BY <1>6, <1>7, <2>1, <2>3, <3>1 DEF OnceInv, NotYetShown
  <2> QED
    BY <2>2, <2>3
<1>11. ShownIsSpent'
  <2> SUFFICES ASSUME NEW n \in Messages, shown'[n] > 0, row[n].status \notin Final
               PROVE  \E v \in Workers : Sends(v, n)' /\ sender'[v].pc = "sent"
    BY <1>3 DEF ShownIsSpent
  <2>1. CASE n = m
    BY <1>3, <1>6, <1>7, <1>8, <2>1
  <2>2. CASE n # m
    <3>1. PICK v \in Workers : Sends(v, n) /\ sender[v].pc = "sent"
      BY <1>7, <2>2 DEF OnceInv, ShownIsSpent
    <3>2. v # w
      BY <1>3, <3>1
    <3> QED
      BY <1>6, <1>8, <3>1, <3>2
  <2> QED
    BY <2>1, <2>2
<1>12. ShownOnce'
  BY <1>7 DEF OnceInv, ShownOnce
<1> QED
  BY <1>1, <1>9, <1>10, <1>11, <1>12 DEF OnceInv

LEMMA MarkDeliveredOnce ==
  ASSUME OutboxAssumption, OnceInv, NEW w \in Workers, MarkDelivered(w)
  PROVE  OnceInv'
<1>1. TableInv /\ TableInv' /\ \A n \in Messages : RowMoves(n)
  BY MarkDeliveredTable DEF OnceInv
<1>2. PICK m \in Messages : m = sender[w].msg
  BY <1>1 DEF MarkDelivered, TableInv, HasMessage
<1>3. /\ sender[w].pc = "sent" /\ sender' = [sender EXCEPT ![w] = Idle] /\ UNCHANGED shown
      /\ row' = SetStatus(row, {m}, "delivered") \/ (UNCHANGED row /\ ~Owns(w, m))
  BY <1>2 DEF MarkDelivered
<1>4. /\ \A n \in Messages : row'[n] = row[n] \/ row'[n].status \in Final
      /\ row'[m].status \in Final
  <2>1. CASE row' = SetStatus(row, {m}, "delivered")
    <3>1. \A n \in Messages : /\ n # m => row'[n] = row[n]
                              /\ row'[n].status = (IF n \in {m} THEN "delivered" ELSE row[n].status)
      BY <1>1, <2>1, SetStatusMoves, SetStatusRows DEF TableInv, Final
    <3> QED
      BY <3>1 DEF Final
  <2>2. CASE UNCHANGED row /\ ~Owns(w, m)
    <3>1. Sends(w, m)
      BY <1>2, <1>3 DEF Sends
    <3> QED
      BY <2>2, <3>1 DEF Owns, OnceInv, SendersHold, Held
  <2> QED
    BY <1>3, <2>1, <2>2
<1>5. sender'[w] = Idle /\ \A v \in Workers : v # w => sender'[v] = sender[v]
  BY <1>1, <1>3, SenderOnly
<1>6. Calm(w)
  BY <1>2, <1>4, <1>5, IdleIsJob DEF Calm, Sends
<1>7. \A v \in Workers : v # w => Calm(v)
  BY <1>4, <1>5 DEF Calm
<1> QED
  BY <1>1, <1>3, <1>6, <1>7, CalmStep

LEMMA MarkUnknownOnce ==
  ASSUME OutboxAssumption, OnceInv, NEW w \in Workers, MarkUnknown(w)
  PROVE  OnceInv'
<1>1. TableInv /\ TableInv' /\ \A n \in Messages : RowMoves(n)
  BY MarkUnknownTable DEF OnceInv
<1>2. PICK m \in Messages : m = sender[w].msg
  BY <1>1 DEF MarkUnknown, TableInv, HasMessage
<1> DEFINE rows == IF Owns(w, m) THEN SetStatus(row, {m}, "delivery_unknown") ELSE row
<1>3. /\ sender[w].pc = "raised" /\ sender' = [sender EXCEPT ![w] = Idle] /\ UNCHANGED shown
      /\ row' = AbandonRows(rows)
  BY <1>2 DEF MarkUnknown
<1>4. rows \in [Messages -> Rows] /\ \A n \in Messages : n # m => rows[n] = row[n]
  <2>1. CASE rows = row
    BY <1>1, <2>1 DEF TableInv
  <2>2. CASE rows = SetStatus(row, {m}, "delivery_unknown")
    BY <1>1, <2>2, SetStatusMoves, SetStatusRows DEF TableInv, Open
  <2> QED
    BY <2>1, <2>2
<1> HIDE DEF rows
<1>5. sender'[w] = Idle /\ \A v \in Workers : v # w => sender'[v] = sender[v]
  BY <1>1, <1>3, SenderOnly
<1>6. Calm(w)
  BY <1>3, <1>5, IdleIsJob DEF Calm
<1>7. ASSUME NEW v \in Workers, v # w
      PROVE  Calm(v)
  <2>1. ASSUME NEW n \in Messages, Sends(v, n)
        PROVE  row'[n] = row[n] \/ row'[n].status \in Final
    <3>1. Sends(w, m)
      BY <1>2, <1>3 DEF Sends
    <3>2. n # m
      BY <1>7, <2>1, <3>1 DEF OnceInv, OneSender
    <3>3. CASE Held(n)
      BY <1>3, <1>4, <3>2, <3>3, AbandonKeepsHeld DEF Held
    <3>4. CASE row[n].status \in Final
      BY <1>1, <3>4 DEF RowMoves, Open, Final
    <3> QED
      BY <2>1, <3>3, <3>4 DEF OnceInv, SendersHold
  <2> QED
    BY <1>5, <1>7, <2>1 DEF Calm
<1> QED
  BY <1>1, <1>3, <1>6, <1>7, CalmStep

LEMMA RecoverOnce ==
  ASSUME OnceInv, Recover
  PROVE  OnceInv'
<1>1. TableInv /\ TableInv' /\ \A n \in Messages : RowMoves(n)
  BY RecoverTable DEF OnceInv
<1> DEFINE stale == {m \in Messages : row[m].status = "delivering" /\ ~row[m].live}
           rows == SetStatus(row, stale, "delivery_unknown")
<1>2. row' = AbandonRows(rows) /\ UNCHANGED <<sender, shown>>
  BY DEF Recover
<1>3. rows \in [Messages -> Rows] /\ \A n \in Messages : n \notin stale => rows[n] = row[n]
  BY <1>1, SetStatusMoves, SetStatusRows DEF TableInv, Open
<1>4. \A n \in Messages : Held(n) => n \notin stale
  BY DEF Held
<1> HIDE DEF stale, rows
<1>5. \A n \in Messages : Held(n) => row'[n] = row[n]
  BY <1>2, <1>3, <1>4, AbandonKeepsHeld DEF Held
<1> QED
  BY <1>1, <1>2, <1>5, StillStep

LEMMA LeaseExpiresOnce ==
  ASSUME OnceInv, SendsAreAnswered, NEW m \in Messages, LeaseExpires(m)
  PROVE  OnceInv'
<1>1. TableInv /\ TableInv' /\ \A n \in Messages : RowMoves(n)
  BY LeaseExpiresTable DEF OnceInv
<1>2. /\ row[m].status = "delivering" /\ row' = [row EXCEPT ![m].live = FALSE]
      /\ UNCHANGED <<sender, shown>> /\ \A w \in Workers : ~Sending(w, m)
  BY DEF LeaseExpires, SendsAreAnswered
<1>3. \A w \in Workers : ~Sends(w, m)
  BY <1>2 DEF OnceInv, SendersHold, Sends, Sending, Owns, Held, Final
<1>4. \A n \in Messages : n # m => row'[n] = row[n]
  BY <1>1, <1>2 DEF TableInv
<1>5. \A w \in Workers : Calm(w)
  BY <1>2, <1>3, <1>4 DEF Calm
<1> QED
  BY <1>1, <1>2, <1>5, CalmStep

\* Another path closes the review.
LEMMA SupersedeOnce ==
  ASSUME OnceInv, NEW d \in Decisions, Supersede(d)
  PROVE  OnceInv'
<1>1. TableInv /\ TableInv' /\ \A n \in Messages : RowMoves(n)
  BY SupersedeTable DEF OnceInv
<1> DEFINE open == {n \in MessagesOf(d) : row[n].status \in Open}
<1>2. UNCHANGED <<sender, shown>> /\ row' = SetStatus(row, open, "cancelled")
  BY DEF Supersede
<1> HIDE DEF open
<1>3. \A n \in Messages : row'[n] = row[n] \/ row'[n].status \in Final
  BY <1>1, <1>2, SetStatusMoves, SetStatusRows DEF Final, TableInv
<1> QED
  BY <1>1, <1>2, <1>3, StillStep

LEMMA OnceStep ==
  ASSUME OutboxAssumption, SendsAreAnswered, OnceInv, [Next]_vars
  PROVE  OnceInv'
<1>0. TableInv /\ TableInv' /\ \A n \in Messages : RowMoves(n)
  BY TableStep DEF OnceInv
<1>1. CASE UNCHANGED <<row, sender, shown>>
  BY <1>0, <1>1, StillStep
<1>2. ASSUME NEW t \in Turns, Queue(t)  PROVE  OnceInv'
  BY <1>2, QueueOnce
<1>3. ASSUME NEW w \in Workers, NEW m \in Messages, Dispatch(w, m) \/ Notify(w, m)  PROVE  OnceInv'
  BY <1>3, BeforeCallOnce
<1>4. ASSUME NEW w \in Workers, SenderStep(w) \/ Cancelled(w)  PROVE  OnceInv'
  <2>1. CASE ReadPrompt(w)
    <3>1. sender[w].msg \in Messages
      BY <1>0, <2>1 DEF ReadPrompt, TableInv, HasMessage
    <3> QED
      BY <2>1, <3>1, BeforeCallOnce
  <2>2. ~SendUnanswered(w) /\ ~Cancelled(w)
    BY DEF SendsAreAnswered, SendUnanswered, Cancelled
  <2> QED
    BY <1>4, <2>1, <2>2, LostOnce, ClaimWinsOnce, AnswerOnce, MarkDeliveredOnce, MarkUnknownOnce
    DEF SenderStep
<1>5. CASE Recover
  BY <1>5, RecoverOnce
<1>6. ASSUME NEW m \in Messages, LeaseExpires(m)  PROVE  OnceInv'
  BY <1>6, LeaseExpiresOnce
<1>7. ASSUME NEW m \in Messages, Reply(m) \/ Tap(m)  PROVE  OnceInv'
  <2>1. UNCHANGED <<sender, shown>> /\ row' = Settled(m)
    BY <1>7 DEF Reply, Tap
  <2>2. \A n \in Messages : row'[n] = row[n] \/ row'[n].status \in Final
    <3>1. CASE row' = SetStatus(row, {m}, "delivered")
      BY <1>0, <3>1, SetStatusMoves, SetStatusRows DEF Final, TableInv
    <3> QED
      BY <2>1, <3>1 DEF Settled
  <2> QED
    BY <1>0, <2>1, <2>2, StillStep
<1>8. ASSUME NEW d \in Decisions, Supersede(d)  PROVE  OnceInv'
  BY <1>8, SupersedeOnce
<1>9. ASSUME NEW c \in Chats, ChangeChat(c)  PROVE  OnceInv'
  BY <1>1, <1>9 DEF ChangeChat
<1>10. ~Crash
  BY DEF Crash, SendsAreAnswered
<1> QED
  BY <1>1, <1>2, <1>3, <1>4, <1>5, <1>6, <1>7, <1>8, <1>9, <1>10 DEF Next, vars

(* A message that one task sends is never sent by another: where Telegram    *)
(* answers each call before the lease ends and no task is stopped inside it, *)
(* every message is shown at most once, for any dispatchers, fetch cycles,   *)
(* answers, superseded decisions and changes of the chat that race.          *)
THEOREM MessagesShownOnce == ASSUME SendsAreAnswered  PROVE  Spec => []ShownOnce
<1>1. Init => OnceInv
  <2> SUFFICES ASSUME Init  PROVE  OnceInv
    OBVIOUS
  <2>1. /\ \A w \in Workers : sender[w] = Idle
        /\ \A m \in Messages : shown[m] = 0
    BY DEF Init
  <2>2. \A w \in Workers, m \in Messages : ~Sends(w, m)
    BY <2>1, IdleIsJob DEF Sends
  <2> QED
    BY <2>1, <2>2, OutboxAssumption, TableInit
    DEF OnceInv, SendersHold, NotYetShown, ShownIsSpent, OneSender, ShownOnce
<1>2. OnceInv /\ [Next]_vars => OnceInv'
  BY OutboxAssumption, SendsAreAnswered, OnceStep
<1>3. OnceInv => ShownOnce
  BY DEF OnceInv
<1> QED
  BY <1>1, <1>2, <1>3, PTL DEF Spec
=============================================================================
