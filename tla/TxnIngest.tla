------------------------------ MODULE TxnIngest ------------------------------
(* Ingestion: alerts of a few payments arrive by SMS and by email in any     *)
(* order; each opens a ledger row, enriches one, or waits for the operator,  *)
(* who may parse it again, force a row, merge it or settle it.               *)
(*                                                                           *)
(* One action is one committed request or poll step. SQLite serialises them: *)
(* each takes the write lock with its first statement. Statements, edits of  *)
(* rows by hand and screenshots are not part of this module.                 *)
EXTENDS TxnMatch

CONSTANTS
  Alerts,        \* messages: sms_messages and emails rows
  Contents,      \* what a message may say
  MaxRows,       \* bound on ledger rows
  Replays        \* replays of a message that a row already holds

AllReplays == {"linked_sms", "linked_parse", "unowned_email"}

ASSUME IngestAssumption ==
  /\ MaxRows \in Nat
  /\ Replays \subseteq AllReplays
  /\ None \notin Alerts \cup Int
  /\ \A m \in Contents : /\ m.channel \in {"sms", "email"}
                          /\ m.role \in {"primary", "provisional", "completion"}
                          /\ m.at \in Int \cup {None}

VARIABLES
  message,   \* what each alert says; fixed when the behaviour starts
  rows,      \* transactions, in the order of their creation
  state,     \* status of each alert
  link       \* sms_messages.transaction_id

vars == <<message, rows, state, link>>

Init ==
  /\ message \in [Alerts -> Contents]
  /\ rows = << >>
  /\ state = [a \in Alerts |-> "unseen"]
  /\ link = [a \in Alerts |-> None]

IsSms(a) == message[a].channel = "sms"
Owned(a) == {i \in DOMAIN rows : SlotOwner(rows[i], message[a].channel) = a}
RefFree(ref, i) == \A j \in DOMAIN rows \ {i} : ref = None \/ rows[j].ref # ref

-----------------------------------------------------------------------------
\* The ends of a request. A write that breaks the unique index of references
\* rolls the request back, so it changes nothing.

Leave(a, status, row) ==
  /\ state' = [state EXCEPT ![a] = status]
  /\ link' = [link EXCEPT ![a] = IF IsSms(a) THEN row ELSE None]
  /\ UNCHANGED <<message, rows>>

OpenRow(a, source) ==
  /\ Len(rows) < MaxRows
  /\ RefFree(message[a].ref, 0)
  /\ rows' = Append(rows, NewRow(message[a], a, source))
  /\ state' = [state EXCEPT ![a] = "parsed"]
  /\ link' = [link EXCEPT ![a] = IF IsSms(a) THEN Len(rows) + 1 ELSE None]
  /\ UNCHANGED message

\* A mutant of EnrichRow: the link of the SMS is not written.
EnrichRowUnlinked(a, i, owner, kind) ==
  LET row == Enrich(rows[i], message[a], owner, kind) IN
  /\ rows' = [rows EXCEPT ![i] = [row EXCEPT !.absorbed = @ \cup {a}]]
  /\ state' = [state EXCEPT ![a] = IF IsSms(a) THEN "enriched" ELSE "parsed"]
  /\ UNCHANGED <<message, link>>

EnrichRow(a, i, owner, kind) ==
  LET row == Enrich(rows[i], message[a], owner, kind) IN
  /\ RefFree(row.ref, i)
  /\ rows' = [rows EXCEPT ![i] = [row EXCEPT !.absorbed = @ \cup {a}]]
  /\ state' = [state EXCEPT ![a] = IF IsSms(a) THEN "enriched" ELSE "parsed"]
  /\ link' = [link EXCEPT ![a] = IF IsSms(a) THEN i ELSE None]
  /\ UNCHANGED message

MergeTransaction(a) ==
  LET verdict == FindMatch(rows, message[a], a) IN
  \/ verdict.act = "match" /\ EnrichRow(a, verdict.row, a, verdict.kind)
  \/ verdict.act = "insert" /\ OpenRow(a, message[a].channel)
  \/ verdict.act = "defer" /\ Leave(a, "deferred", None)

-----------------------------------------------------------------------------
\* A completion leg opens no row: it gives its reference to the one row of the
\* payment, and skips when there is none or more than one.

CompletionPrimaries(msg) ==
  {i \in DOMAIN rows :
     /\ msg.ref # None
     /\ rows[i].amount = msg.amount /\ rows[i].acct # None
     /\ rows[i].ref = None \/ SameOrShortRef(rows[i].ref, msg.ref)}

StampReference(a, i) ==
  LET msg == message[a]
      named == msg.name # None /\ (rows[i].name = None \/ BankReplacesLabel(rows[i], msg))
  IN /\ RefFree(msg.ref, i)
     /\ rows' = [rows EXCEPT
          ![i].ref = msg.ref,
          ![i].name = IF named THEN msg.name ELSE @,
          ![i].label = IF named THEN msg.label ELSE @,
          ![i].email = IF IsSms(a) THEN @ ELSE Fill(@, a)]
     /\ state' = [state EXCEPT ![a] = "parsed"]
     /\ link' = [link EXCEPT ![a] = IF IsSms(a) THEN i ELSE None]
     /\ UNCHANGED message

AlreadyStamped(a) == link[a] # None /\ rows[link[a]].ref = message[a].ref

Complete(a) ==
  LET primaries == CompletionPrimaries(message[a]) IN
  \/ AlreadyStamped(a) /\ Leave(a, "parsed", link[a])
  \/ /\ ~AlreadyStamped(a) /\ Cardinality(primaries) # 1
     /\ Leave(a, "unpaired", None)
  \/ /\ ~AlreadyStamped(a)
     /\ \E i \in primaries : primaries = {i} /\ StampReference(a, i)

\* A provisional SMS announces a payment that another message will carry.
Ingest(a) ==
  \/ message[a].role = "primary" /\ MergeTransaction(a)
  \/ message[a].role = "provisional" /\ Leave(a, "parsed", link[a])
  \/ message[a].role = "completion" /\ Complete(a)

ReceiveSms(a) == IsSms(a) /\ state[a] = "unseen" /\ Ingest(a)

PollEmail(a) == ~IsSms(a) /\ state[a] = "unseen" /\ Ingest(a)

-----------------------------------------------------------------------------
\* Replays.

ReparseSms(a) ==
  /\ IsSms(a) /\ state[a] # "unseen"
  /\ link[a] # None => "linked_sms" \in Replays
  /\ Ingest(a)

\* The Parse button: a row of its own, unless the alert owns one.
ParseSms(a) ==
  /\ IsSms(a)
  /\ state[a] = "deferred" \/ (link[a] # None /\ "linked_parse" \in Replays)
  /\ \/ /\ message[a].role = "primary" /\ Owned(a) = {}
        /\ OpenRow(a, "sms")
     \/ /\ message[a].role = "primary"
        /\ \E i \in Owned(a) : Leave(a, "enriched", i)
     \/ message[a].role # "primary" /\ Ingest(a)

\* An email that owns a row refreshes it in place.
Refreshed(row, msg) ==
  LET name == IF row.name # None /\ LabelMustNotReplace(row, msg)
                THEN row.name ELSE Overwrite(row.name, msg.name)
  IN [SyncProvenance(row, msg, name, Overwrite(row.at, msg.at)) EXCEPT
       !.type = msg.type, !.amount = msg.amount,
       !.ref = Overwrite(@, msg.ref), !.balance = Overwrite(@, msg.balance),
       !.acct = Overwrite(@, msg.acct), !.card = Overwrite(@, msg.card)]

RefreshRow(a, i) ==
  LET row == Refreshed(rows[i], message[a]) IN
  \/ /\ RefFree(row.ref, i)
     /\ rows' = [rows EXCEPT ![i] = row]
     /\ state' = [state EXCEPT ![a] = "parsed"]
     /\ UNCHANGED <<message, link>>
  \/ ~RefFree(row.ref, i) /\ Leave(a, "duplicate", None)

\* The matcher is asked without the email's id; a match that another email
\* owns, and an ambiguous one, give this email a row of its own.
AdoptOrOpen(a, force) ==
  LET verdict == FindMatch(rows, message[a], None)
      adopts == verdict.act = "match" /\ rows[verdict.row].email = None
      contradicted == verdict.act = "defer" /\ verdict.why = "reference"
  IN \/ adopts /\ EnrichRow(a, verdict.row, a, verdict.kind)
     \/ contradicted /\ ~force /\ Leave(a, "deferred", None)
     \/ /\ ~adopts /\ (contradicted => force)
        /\ OpenRow(a, None) \/ (~RefFree(message[a].ref, 0) /\ Leave(a, "duplicate", None))

InLedger(a) == \E i \in DOMAIN rows : a \in rows[i].absorbed

ReparseEmail(a, force) ==
  /\ ~IsSms(a) /\ state[a] # "unseen"
  /\ \/ message[a].role = "completion" /\ Complete(a)
     \/ /\ message[a].role # "completion"
        /\ \E i \in Owned(a) : Owned(a) = {i} /\ RefreshRow(a, i)
     \/ /\ message[a].role # "completion" /\ Owned(a) = {}
        /\ InLedger(a) => "unowned_email" \in Replays
        /\ state[a] = "deferred" => force
        /\ AdoptOrOpen(a, force)

-----------------------------------------------------------------------------
\* Decisions of the operator.

Undecided(a) == state[a] = "deferred" /\ link[a] = None /\ Owned(a) = {}

MergeSms(a, i) ==
  LET verdict == FindMatch(rows, message[a], None) IN
  /\ IsSms(a) /\ Undecided(a)
  /\ \/ verdict.act = "match" /\ verdict.row = i
     \/ verdict.act = "defer" /\ i \in verdict.choices
  /\ QualifiesExplicitly(rows, message[a], i)
  /\ EnrichRow(a, i, None, "standard")

CreateFromSms(a) ==
  LET verdict == FindMatch(rows, message[a], None) IN
  /\ IsSms(a) /\ Undecided(a)
  /\ verdict.act = "defer" /\ verdict.why # "reference"
  /\ OpenRow(a, "sms")

MergeEmail(a, i) ==
  /\ ~IsSms(a) /\ Undecided(a)
  /\ rows[i].email = None
  /\ QualifiesExplicitly(rows, message[a], i)
  /\ EnrichRow(a, i, a, "standard")

SettleSms(a) ==
  /\ IsSms(a) /\ message[a].role = "provisional"
  /\ state[a] # "unseen" /\ link[a] = None
  /\ MergeTransaction(a)

Next ==
  \E a \in Alerts :
    \/ ReceiveSms(a)
    \/ PollEmail(a)
    \/ ReparseSms(a)
    \/ ParseSms(a)
    \/ \E force \in BOOLEAN : ReparseEmail(a, force)
    \/ CreateFromSms(a)
    \/ SettleSms(a)
    \/ \E i \in DOMAIN rows : MergeSms(a, i) \/ MergeEmail(a, i)

Spec == Init /\ [][Next]_vars

-----------------------------------------------------------------------------
\* Properties.

\* What a row can hold: fields as some message states them, and owners.
Stated(field) == {m[field] : m \in Contents}
OrNone(S) == S \cup {None}

Row ==
  [type : Stated("type"), amount : Stated("amount"), ref : OrNone(Stated("ref")),
   balance : OrNone(Stated("balance")), at : OrNone(Stated("at")),
   received : Stated("received"), name : OrNone(Stated("name")), label : Stated("label"),
   acct : OrNone(Stated("acct")), card : OrNone(Stated("card")), by : Stated("by"),
   source : {"sms", "email", "sms+email", None},
   sms : OrNone(Alerts), email : OrNone(Alerts), absorbed : SUBSET Alerts]

\* A row's slots hold alerts of their own channel, a linked SMS points at a row,
\* and every state is one that the code stores.
TypeOK ==
  /\ message \in [Alerts -> Contents]
  /\ rows \in Seq(Row)
  /\ \A i \in DOMAIN rows : \A a \in Alerts :
       (rows[i].sms = a => IsSms(a)) /\ (rows[i].email = a => ~IsSms(a))
  /\ state \in [Alerts -> {"unseen", "parsed", "enriched", "deferred", "unpaired", "duplicate"}]
  /\ link \in [Alerts -> DOMAIN rows \cup {None}]

\* A differing balance can never be the same event (_decide): all the alerts
\* that a row has absorbed and that state a balance state the row's balance.
BalancesAgree ==
  \A i \in DOMAIN rows : \A a \in rows[i].absorbed :
    message[a].balance \in {None, rows[i].balance}

\* An alert is counted once and never lost or counted behind the operator's
\* back: no alert is absorbed by two rows, one that waits for a decision is in
\* no row and one that counts as parsed is in a row, whatever order of arrivals,
\* replays and decisions brought it there.
AbsorbedOnce ==
  /\ \A i, j \in DOMAIN rows : i # j => rows[i].absorbed \cap rows[j].absorbed = {}
  /\ \A a \in Alerts : message[a].role = "primary" =>
       /\ state[a] = "deferred" => ~InLedger(a)
       /\ state[a] \in {"parsed", "enriched"} => InLedger(a)

\* A row that has an alert of a channel takes another one of that channel only
\* on proof: an equal balance, a common reference, a time 12 hours off that the
\* alert corrects, or the operator's word. Otherwise a payment would vanish.
DuplicateNeedsProof ==
  [][\A i \in DOMAIN rows : \A a \in rows'[i].absorbed \ rows[i].absorbed :
       \/ SlotOwner(rows[i], message[a].channel) \in {None, a}
       \/ message[a].balance # None /\ rows[i].balance = message[a].balance
       \/ SameOrShortRef(rows[i].ref, message[a].ref)
       \/ rows[i].at # None /\ message[a].at # None /\ ~Within(rows[i].at, message[a].at, Window)
            /\ rows[i].type \in Ambiguous12h
       \/ MergeSms(a, i)]_vars
=============================================================================
