------------------------------ MODULE Receipts ------------------------------
(* Receipts: files on disk that rows of transactions name. A receipt sent to *)
(* a transaction is downloaded and attached. A screenshot sent alone is read *)
(* by a vision model, and its file waits with a question until a Yes saves a *)
(* row with it, or attaches it to the row that holds the payment, or a No    *)
(* removes it. A file changes at once, a row with its commit, and between    *)
(* them turns fail, are cut off, retried or overtaken, rows are folded away  *)
(* and their ids used again.                                                 *)
(*                                                                           *)
(* The leases of turns and the order of locks are in AssistantTurns; here a  *)
(* lease may lapse at any time. A read of a screenshot is a record of what   *)
(* the checks tell apart. Left out: wording, the notes of a row, the other   *)
(* questions a conversation may hold, and their expiry (a Yes may be late    *)
(* and do nothing).                                                          *)
EXTENDS Integers

CONSTANTS
  Messages,
  Sort,          \* message -> "receipt", "screenshot" or "reply" to a question
  Screen,        \* message -> the screenshot its conversation began with
  Hands,         \* workers that process turns
  Nil,
  Ids,           \* ids of rows
  MaxFiles, MaxBirths,
  Sights,        \* what the vision model may read off a screenshot
  Fixes,         \* what a reply may correct
  Fits,          \* channel -> hint -> the accounts or cards that it fits
  BankRows       \* what rows of the bank say

ASSUME ReceiptsAssumption ==
  /\ Sort \in [Messages -> {"receipt", "screenshot", "reply"}]
  /\ Screen \in [Messages -> Messages]
  /\ \A m \in Messages : Screen[Screen[m]] = Screen[m]
  /\ \A m \in Messages : Sort[m] = "reply" => Sort[Screen[m]] = "screenshot"
  /\ \A m \in Messages : Sort[m] = "screenshot" => Screen[m] = m
  /\ Ids \subseteq Nat
  /\ MaxFiles \in Nat /\ MaxBirths \in Nat
  /\ Nil \notin Nat \cup Messages

Screens == {m \in Messages : Sort[m] = "screenshot"}

VARIABLES
  disk,        \* published files; a file's number is its token
  files,       \* how many were ever published
  taken,       \* transactions: the ids in use
  says,        \* id -> what the row records
  isVoid,      \* id -> its flag
  receipt,     \* id -> attachment_path
  msg,         \* message -> its turn [status, by, row, births, answers]
  draft,       \* screenshot -> its pending question [file, action, source, kind]
  task,        \* worker -> its locals [pc, msg, row, file, plan]
  births,      \* history: how many rows were ever inserted
  carries,     \* history: id -> the births of the rows that it stands for
  sentFor,     \* history: file -> the births its receipt was sent to
  torn         \* history: files removed although a row or a question held them

disks == <<disk, files, sentFor>>
rows == <<taken, says, isVoid, receipt, births, carries>>
receiptVars == <<disks, rows, msg, draft, task, torn>>

At(pc, m, row, file, plan) == [pc |-> pc, msg |-> m, row |-> row, file |-> file, plan |-> plan]
Free == At("idle", Nil, Nil, Nil, Nil)

NoQuestion == [file |-> Nil, action |-> Nil, source |-> Nil, kind |-> FALSE]
Asked(s) == draft[s].file # Nil
Open(s) == Asked(s) /\ draft[s].kind

ReceiptsInit ==
  /\ disk = {} /\ files = 0
  /\ taken = {} /\ says = [i \in Ids |-> Nil] /\ isVoid = [i \in Ids |-> FALSE]
  /\ receipt = [i \in Ids |-> Nil]
  /\ msg = [m \in Messages |-> [status |-> "absent", by |-> Nil, row |-> Nil, births |-> {}, answers |-> Nil]]
  /\ draft = [s \in Screens |-> NoQuestion]
  /\ task = [w \in Hands |-> Free]
  /\ births = 0 /\ carries = [i \in Ids |-> {}]
  /\ sentFor = [f \in 1..MaxFiles |-> {}]
  /\ torn = {}

-----------------------------------------------------------------------------
(* A read: [status, channel, dir, sum, day, utr, hint, named, block]. Nil is *)
(* a field that is not shown or not valid. block is what the From and To     *)
(* blocks say when exactly one of them is the owner: [dir, bank, ownDigits]. *)

\* A reversal is a credit, and a card read has no reference.
Valid(r) == [r EXCEPT !.dir = IF r.status = "reversed" THEN "credit" ELSE @,
                      !.utr = IF r.channel = "card" THEN Nil ELSE @]

\* orient_read
Oriented(r) ==
  IF r.block = Nil THEN r
  ELSE Valid([r EXCEPT !.dir = r.block.dir, !.hint = IF r.block.ownDigits THEN @ ELSE r.block.bank])

\* _resolve_target: the one account or card that the hint fits
Target(r) ==
  LET fits == Fits[r.channel][r.hint]
  IN  IF \E place \in fits : fits = {place} THEN CHOOSE place \in fits : TRUE ELSE Nil

\* _owner_filter: a card also finds the rows of its account that record no card.
AtTarget(place, target) == place = target \/ place = [target EXCEPT !.card = Nil]

SameReference(r) == {i \in taken : r.utr # Nil /\ says[i].utr = r.utr /\ says[i].dir = r.dir}

LooksLike(r, others) ==
  {i \in taken \ others :
     /\ Target(r) # Nil /\ r.sum # Nil /\ r.day # Nil
     /\ ~isVoid[i] /\ AtTarget(says[i].place, Target(r))
     /\ says[i].dir = r.dir /\ says[i].sum = r.sum /\ says[i].day - r.day \in -1..1
     /\ r.channel = "upi" => says[i].utr = Nil}

Lowest(S) == IF S = {} THEN Nil ELSE CHOOSE i \in S : \A j \in S : i <= j

\* _find_duplicate
Duplicate(r, others) ==
  Lowest(IF SameReference(r) # {} THEN SameReference(r) ELSE LooksLike(r, others))

\* _check, the mandatory fields that fail
Missing(r) ==
  {field \in {"amount", "name or VPA", "date and time", "UTR", "account"} :
     \/ field = "amount" /\ r.sum = Nil
     \/ field = "name or VPA" /\ ~r.named
     \/ field = "date and time" /\ r.day = Nil
     \/ field = "UTR" /\ r.channel = "upi" /\ r.utr = Nil
     \/ field = "account" /\ Target(r) = Nil}

SavedStatus(r) == r.status = "reversed" \/ (r.status = "success" /\ r.channel = "upi")

\* review_screenshot: the action that a Yes applies, or Nil for a refusal
Review(r, others) ==
  LET found == Duplicate(r, others)
  IN  IF ~SavedStatus(r) THEN Nil
      ELSE [read |-> r, duplicateOf |-> found,
            duplicateVoided |-> found # Nil /\ isVoid[found], notDuplicates |-> others]

\* _screenshot_reply_result on a new read: orienting may turn its direction,
\* but the account stays the one that the reply may have named.
Reread(r) == IF Oriented(r).dir = r.dir THEN r ELSE [Oriented(r) EXCEPT !.hint = r.hint]

\* apply_corrections: keyed values replace fields; a loose reference fills a gap.
Corrected(r, fix) ==
  Valid([field \in DOMAIN r |->
           IF field \in DOMAIN fix.keyed THEN fix.keyed[field]
           ELSE IF field = "utr" /\ r.utr = Nil THEN fix.loose ELSE r[field]])

\* _row_fields
RowOf(r) == [place |-> Target(r), dir |-> r.dir, sum |-> r.sum, day |-> r.day, utr |-> r.utr]

-----------------------------------------------------------------------------
(* Turns. The answer of a turn is committed by the worker that owns it.      *)
Mine(w) == msg[task[w].msg].status = "processing" /\ msg[task[w].msg].by = w
TurnAnswered(w) == [msg EXCEPT ![task[w].msg].status = IF Mine(w) THEN "answered" ELSE @]
Doing(w, at, sort) == task[w].pc = at /\ Sort[task[w].msg] = sort
Rests(w) == task' = [task EXCEPT ![w] = Free]

(* handle_telegram_update: a receipt replies to the message of a row, a text *)
(* to a question of its conversation.                                        *)
Receive(m) ==
  /\ msg[m].status = "absent"
  /\ \/ /\ Sort[m] = "receipt"
        /\ \E i \in taken :
             msg' = [msg EXCEPT ![m] = [status |-> "claimed", by |-> Nil, row |-> i, births |-> carries[i], answers |-> Nil]]
     \/ /\ Sort[m] = "screenshot"
        /\ msg' = [msg EXCEPT ![m].status = "claimed"]
     \/ /\ Sort[m] = "reply"
        /\ \E q \in {x \in Messages : Screen[x] = Screen[m] /\ msg[x].status = "answered"} :
             msg' = [msg EXCEPT ![m].status = "claimed", ![m].answers = q]
  /\ UNCHANGED <<disks, rows, draft, task, torn>>

\* claim_processing: a new turn, or one whose lease has lapsed
Claim(w, m) ==
  /\ task[w] = Free /\ msg[m].status \in {"claimed", "processing"}
  /\ msg' = [msg EXCEPT ![m].status = "processing", ![m].by = w]
  /\ task' = [task EXCEPT ![w] = At("begin", m, msg[m].row, Nil, Nil)]
  /\ UNCHANGED <<disks, rows, draft, torn>>

(* download_attachment publishes a whole file or none. A screenshot is then  *)
(* read; what is read of it is oriented by the owner's names.                *)
Fetch(w) ==
  /\ task[w].pc = "begin" /\ files < MaxFiles
  /\ files' = files + 1 /\ disk' = disk \cup {files'}
  /\ \/ /\ Sort[task[w].msg] = "receipt" /\ task[w].row # Nil
        /\ task' = [task EXCEPT ![w] = At("fetched", @.msg, @.row, files', Nil)]
        /\ sentFor' = [sentFor EXCEPT ![files'] = msg[task[w].msg].births]
     \/ /\ Sort[task[w].msg] = "screenshot"
        /\ \E r \in Sights :
             task' = [task EXCEPT ![w] = At("fetched", @.msg, Nil, files', Oriented(Valid(r)))]
        /\ UNCHANGED sentFor
  /\ UNCHANGED <<rows, msg, draft, torn>>

\* No file: the conversation expired, the row is gone, the download failed.
Decline(w) ==
  /\ task[w].pc = "begin"
  /\ msg' = TurnAnswered(w) /\ Rests(w)
  /\ UNCHANGED <<disks, rows, draft, torn>>

\* Every failure that is caught removes the file, and may still be answered.
Discard(w) ==
  /\ task[w].pc = "fetched"
  /\ disk' = disk \ {task[w].file}
  /\ msg' \in {msg, TurnAnswered(w)} /\ Rests(w)
  /\ UNCHANGED <<files, sentFor, rows, draft, torn>>

\* A crash, or a timeout outside a download: nothing is cleaned up.
Abandon(w) ==
  /\ task[w] # Free /\ Rests(w)
  /\ UNCHANGED <<disks, rows, msg, draft, torn>>

-----------------------------------------------------------------------------
(* Receipts: _process_attachment_interaction.                                *)

\* Mutant: a turn that a fold moved still attaches to the id it had
AimsAtId(w) == Mine(w)
\* attach_downloaded_attachment: the turn is still the worker's and the row's.
StillAims(w) == Mine(w) /\ msg[task[w].msg].row = task[w].row

Attached(w) ==
  /\ Doing(w, "fetched", "receipt")
  /\ StillAims(w) /\ task[w].row \in taken
  /\ receipt' = [receipt EXCEPT ![task[w].row] = task[w].file]
  /\ msg' = TurnAnswered(w)
  /\ UNCHANGED <<files, sentFor, taken, says, isVoid, births, carries, draft>>

\* The file that was there is removed after the commit.
Attach(w) ==
  /\ Attached(w)
  /\ task' = [task EXCEPT ![w] = IF receipt[@.row] = Nil THEN Free
                                 ELSE At("clean", Nil, Nil, receipt[@.row], Nil)]
  /\ UNCHANGED <<disk, torn>>

\* The turn's timeout cuts off the wait for a commit that takes effect.
CutOff(w) ==
  /\ Attached(w)
  /\ disk' = disk \ {task[w].file} /\ torn' = torn \cup {task[w].file}
  /\ Rests(w)

\* cleanup_replaced_attachment, or the file of a screenshot that was refused
Clean(w) ==
  /\ task[w].pc = "clean"
  /\ disk' = disk \ {task[w].file}
  /\ Rests(w)
  /\ UNCHANGED <<files, sentFor, rows, msg, draft, torn>>

-----------------------------------------------------------------------------
(* Screenshots: _process_screenshot_interaction under the lock.              *)
Propose(w) ==
  LET action == Review(task[w].plan, {})
  IN  /\ Doing(w, "fetched", "screenshot") /\ Mine(w)
      /\ action # Nil
      /\ draft' = [draft EXCEPT ![task[w].msg] =
                     [file |-> task[w].file, action |-> action, source |-> task[w].msg, kind |-> TRUE]]
      /\ msg' = TurnAnswered(w) /\ Rests(w)
      /\ UNCHANGED <<disks, rows, torn>>

Refuse(w) ==
  /\ Doing(w, "fetched", "screenshot") /\ Mine(w)
  /\ Review(task[w].plan, {}) = Nil
  /\ msg' = TurnAnswered(w)
  /\ task' = [task EXCEPT ![w] = At("clean", Nil, Nil, @.file, Nil)]
  /\ UNCHANGED <<disks, rows, draft, torn>>

(* A text in the conversation of a screenshot. To its question it is a       *)
(* correction; any other drops the question.                                 *)
Hear(w) ==
  LET m == task[w].msg
      asked == draft[Screen[m]]
      corrects == Open(Screen[m]) /\ asked.source = msg[m].answers
  IN  /\ Doing(w, "begin", "reply")
      /\ \/ /\ corrects
            /\ task' = [task EXCEPT ![w] = At("heard", m, Nil, asked.file, asked.action)]
            /\ UNCHANGED <<msg, draft>>
         \/ /\ ~corrects
            /\ draft' = [draft EXCEPT ![Screen[m]] = NoQuestion]
            /\ msg' = TurnAnswered(w) /\ Rests(w)
      /\ UNCHANGED <<disks, rows, torn>>

\* The vision model reads the file again, or fails; the rows are read unlocked.
Reconsider(w) ==
  LET action == task[w].plan
      fresh == {action.read} \cup {Reread(Valid(r)) : r \in Sights}
  IN  /\ task[w].pc = "heard"
      /\ \E plan \in {Review(Corrected(r, fix), action.notDuplicates) : r \in fresh, fix \in Fixes}
                     \cup {Review(action.read, action.notDuplicates \cup {d}) : d \in {action.duplicateOf} \ {Nil}} :
           task' = [task EXCEPT ![w] = At("reviewed", @.msg, Nil, @.file, plan)]
      /\ UNCHANGED <<disks, rows, msg, draft, torn>>

(* set_pending_confirmation writes the columns that differ from the row the  *)
(* turn read: a kind that a Yes or a No cleared meanwhile stays cleared.     *)
AskAgain(w) ==
  LET m == task[w].msg
      s == Screen[m]
  IN  /\ task[w].pc = "reviewed" /\ Mine(w)
      /\ draft' = [draft EXCEPT ![s] =
                     IF task[w].plan = Nil THEN NoQuestion
                     ELSE [file |-> task[w].file, action |-> task[w].plan, source |-> m, kind |-> @.kind]]
      /\ msg' = TurnAnswered(w) /\ Rests(w)
      /\ UNCHANGED <<disks, rows, torn>>

-----------------------------------------------------------------------------
(* The answer to the question, one commit under the lock. SQLite gives a new *)
(* row the id after the greatest.                                            *)
Insert(what, file) ==
  /\ births < MaxBirths /\ births' = births + 1
  /\ \E i \in Ids :
       /\ \A j \in taken : j < i
       /\ \A j \in Ids : j < i => \E k \in taken : j <= k
       /\ taken' = taken \cup {i} /\ says' = [says EXCEPT ![i] = what]
       /\ isVoid' = [isVoid EXCEPT ![i] = FALSE]
       /\ receipt' = [receipt EXCEPT ![i] = file]
       /\ carries' = [carries EXCEPT ![i] = {births'}]

(* save_screenshot_transaction checks again. A question whose kind is not    *)
(* set cannot be claimed.                                                    *)
YesAttaches(s) ==
  LET action == draft[s].action
      found == action.duplicateOf
  IN  /\ Open(s)
      /\ found \in taken /\ found = Duplicate(action.read, action.notDuplicates)
      /\ isVoid[found] = action.duplicateVoided /\ receipt[found] = Nil
      /\ receipt' = [receipt EXCEPT ![found] = draft[s].file]
      /\ isVoid' = [isVoid EXCEPT ![found] = FALSE]
      /\ draft' = [draft EXCEPT ![s] = NoQuestion]
      /\ UNCHANGED <<disks, taken, says, births, carries, msg, task, torn>>

YesSaves(s) ==
  LET action == draft[s].action
      read == action.read
  IN  /\ Open(s)
      /\ action.duplicateOf = Nil /\ Duplicate(read, action.notDuplicates) = Nil
      /\ SavedStatus(read) /\ Missing(read) = {}
      /\ Insert(RowOf(read), draft[s].file)
      /\ draft' = [draft EXCEPT ![s] = NoQuestion]
      /\ UNCHANGED <<disks, msg, task, torn>>

\* The No button removes the file before its commit, which may fail.
No(s) ==
  LET file == draft[s].file
  IN  /\ Asked(s)
      /\ disk' = disk \ {file}
      /\ \/ /\ draft' = [draft EXCEPT ![s] = NoQuestion]
            /\ torn' = IF draft[s].kind THEN torn ELSE torn \cup {file}
         \/ draft' = draft /\ torn' = torn \cup {file}
      /\ UNCHANGED <<files, sentFor, rows, msg, task>>

-----------------------------------------------------------------------------
(* What else happens to rows.                                                *)
Record == \E b \in BankRows : Insert(b, Nil) /\ UNCHANGED <<disks, msg, draft, task, torn>>

Void(i) ==
  /\ i \in taken
  /\ isVoid' = [isVoid EXCEPT ![i] = ~@]
  /\ UNCHANGED <<disks, taken, says, receipt, births, carries, msg, draft, task, torn>>

Names(question) == {question.action.duplicateOf} \cup question.action.notDuplicates

(* move_transaction_references: turns that run follow the row, a question    *)
(* that names it is dropped.                                                 *)
MoveReferences(gone, keep) ==
  /\ msg' = [m \in Messages |-> IF msg[m].row = gone THEN [msg[m] EXCEPT !.row = keep] ELSE msg[m]]
  /\ draft' = [s \in Screens |->
                 IF Asked(s) /\ gone \in Names(draft[s]) THEN NoQuestion ELSE draft[s]]

(* A merge or a settlement folds one row into another, which takes its file  *)
(* if it has none.                                                           *)
Fold(keep, gone) ==
  /\ keep # gone /\ {keep, gone} \subseteq taken
  /\ taken' = taken \ {gone}
  /\ receipt' = [receipt EXCEPT ![gone] = Nil, ![keep] = IF @ = Nil THEN receipt[gone] ELSE @]
  /\ carries' = [carries EXCEPT ![gone] = {}, ![keep] = @ \cup carries[gone]]
  /\ MoveReferences(gone, keep)
  /\ UNCHANGED <<disks, says, isVoid, births, task, torn>>

\* delete_phantoms refuses a row with an attachment.
Delete(i) ==
  /\ i \in taken /\ receipt[i] = Nil
  /\ taken' = taken \ {i}
  /\ carries' = [carries EXCEPT ![i] = {}]
  /\ MoveReferences(i, Nil)
  /\ UNCHANGED <<disks, says, isVoid, receipt, births, task, torn>>

Process(w) ==
  \/ Fetch(w) \/ Decline(w) \/ Discard(w) \/ Abandon(w)
  \/ Attach(w) \/ CutOff(w) \/ Clean(w)
  \/ Propose(w) \/ Refuse(w) \/ Hear(w) \/ Reconsider(w) \/ AskAgain(w)

ReceiptsNext ==
  \/ \E m \in Messages : Receive(m)
  \/ \E w \in Hands, m \in Messages : Claim(w, m)
  \/ \E w \in Hands : Process(w)
  \/ \E s \in Screens : YesAttaches(s) \/ YesSaves(s) \/ No(s)
  \/ Record
  \/ \E i \in Ids : Void(i) \/ Delete(i)
  \/ \E keep, gone \in Ids : Fold(keep, gone)

ReceiptsSpec == ReceiptsInit /\ [][ReceiptsNext]_receiptVars

-----------------------------------------------------------------------------
\* Every row's file is on disk, except what a cut off commit, a No whose commit
\* failed, or a No to a question that was answered already has removed.
ReceiptsAreThere == \A i \in taken : receipt[i] \in disk \cup torn \cup {Nil}

\* No two rows share a file, and none has the file of a question that a Yes
\* would save or a No remove.
OneHolder ==
  /\ \A i, j \in taken : receipt[i] = receipt[j] /\ i # j => receipt[i] = Nil
  /\ \A s \in Screens, i \in taken :
       Open(s) => receipt[i] # draft[s].file

\* A receipt is on the row it was sent for, or on the one that row went into.
ReceiptFollowsRow ==
  \A i \in taken : receipt[i] # Nil => sentFor[receipt[i]] \subseteq carries[i]

(* Whatever turns, taps, timeouts and crashes do in between, and however     *)
(* rows are folded and ids used again, a receipt that a row shows is there,  *)
(* belongs to that row, and no other row or open question may remove it.     *)
ReceiptsHold == ReceiptsAreThere /\ OneHolder /\ ReceiptFollowsRow
=============================================================================
