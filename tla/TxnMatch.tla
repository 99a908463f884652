------------------------------ MODULE TxnMatch ------------------------------
(* The transaction matcher: which ledger row, if any, reports the event of   *)
(* an incoming alert, and what the alert changes in that row.                *)
(*                                                                           *)
(* All alerts are of one bank, direction, currency and day, the fields the   *)
(* matcher compares first. Amounts, balances, references, names and masks    *)
(* are values of small sets; at is the minute of the day.                    *)
EXTENDS Integers, Sequences, FiniteSets

CONSTANTS
  None,             \* SQL NULL
  NameWithin,       \* pairs of names, the first contained in the second
  ShortRef,         \* pairs of references, the first a shortening of the second
  Ambiguous12h      \* email types whose stored time may be 12 hours off

Window == 10
ReceivedWindow == 1
HalfDay == 720

-----------------------------------------------------------------------------
\* Comparisons of one row and one message.

SlotOwner(row, channel) == IF channel = "sms" THEN row.sms ELSE row.email

BalancesDiffer(row, msg) ==
  row.balance # None /\ msg.balance # None /\ row.balance # msg.balance

SameName(a, b) ==
  a # None /\ b # None /\ (a = b \/ <<a, b>> \in NameWithin \/ <<b, a>> \in NameWithin)

SameOrShortRef(a, b) ==
  a # None /\ b # None /\ (a = b \/ <<a, b>> \in ShortRef \/ <<b, a>> \in ShortRef)

Within(a, b, minutes) == a - b <= minutes /\ b - a <= minutes

\* A row or a message without a time is in every window.
InWindow(row, msg) ==
  row.at # None /\ msg.at # None =>
    /\ Within(row.at, msg.at, IF msg.received THEN ReceivedWindow ELSE Window)
    /\ row.received => Within(row.at, msg.at, ReceivedWindow)

SameCard(row, msg) ==
  row.by = "card" /\ msg.by = "card" /\ msg.card # None /\ row.card = msg.card

NothingIdentifies(row, msg) == row.by = "none" /\ msg.by = "none"

\* Two references of one template on one channel: two transactions.
ReferencesDistinct(row, msg) ==
  /\ row.ref # None /\ msg.ref # None
  /\ row.type = msg.type /\ row.source = msg.channel
  /\ ~SameOrShortRef(row.ref, msg.ref)

-----------------------------------------------------------------------------
\* The candidates. Where a time is missing, only a name, a card or the mutual
\* absence of both tells two events of one day apart.

Gather(rows, msg) ==
  LET near == {i \in DOMAIN rows :
                 /\ rows[i].amount = msg.amount
                 /\ InWindow(rows[i], msg)
                 /\ rows[i].acct = None \/ msg.acct = None \/ rows[i].acct = msg.acct}
      named == {i \in near : SameName(rows[i].name, msg.name)}
      carded == {i \in near : SameCard(rows[i], msg)}
      dateOnly == msg.at = None \/ \E i \in near : rows[i].at = None
  IN CASE named # {} /\ (dateOnly \/ Cardinality(near) > 1) -> named
       [] dateOnly /\ named = {} /\ carded # {} -> carded
       [] dateOnly /\ named = {} /\ carded = {} ->
            {i \in near : NothingIdentifies(rows[i], msg)}
       [] OTHER -> near

Match(i, kind) == [act |-> "match", row |-> i, kind |-> kind]
Insert == [act |-> "insert"]
Defer(why, choices) == [act |-> "defer", why |-> why, choices |-> choices]

\* A known balance is authoritative: a different one splits, an equal one
\* confirms, and an absent one proves nothing.
DecideByBalance(rows, msg, candidates) ==
  LET left == {i \in candidates : ~BalancesDiffer(rows[i], msg)}
      equal == {i \in left : rows[i].balance = msg.balance}
  IN CASE left = {} -> Insert
       [] Cardinality(equal) = 1 -> Match(CHOOSE i \in equal : TRUE, "standard")
       [] OTHER -> Defer("ambiguous", left)

\* A mutant of DecideBySlot: the slot is not looked at.
DecideAnySlot(rows, msg, owner, candidates) ==
  LET clean == {i \in candidates : rows[i].balance = None} IN
  IF Cardinality(candidates) = 1 /\ clean = candidates
    THEN Match(CHOOSE i \in candidates : TRUE, "standard")
    ELSE Defer("ambiguous", candidates)

\* Without a balance only one balance-less row with an open slot is taken.
\* The reference split spares the row the message owns (owner, on a replay).
DecideBySlot(rows, msg, owner, candidates) ==
  LET own(i) == owner # None /\ SlotOwner(rows[i], msg.channel) = owner
      left == {i \in candidates : own(i) \/ ~ReferencesDistinct(rows[i], msg)}
      clean == {i \in left : rows[i].balance = None /\ SlotOwner(rows[i], msg.channel) = None}
  IN CASE left = {} -> Insert
       [] Cardinality(left) = 1 /\ clean = left -> Match(CHOOSE i \in left : TRUE, "standard")
       [] OTHER -> Defer("ambiguous", left)

Decide(rows, msg, owner, candidates) ==
  IF msg.balance # None
    THEN DecideByBalance(rows, msg, candidates)
    ELSE DecideBySlot(rows, msg, owner, candidates)

\* Rows stored with a time 12 hours off: an evening stored as the morning, or
\* midnight stored as noon.
AliasCandidates(rows, msg) ==
  {i \in DOMAIN rows :
     /\ rows[i].amount = msg.amount /\ rows[i].type \in Ambiguous12h
     /\ rows[i].at # None /\ msg.at # None
     /\ SameName(rows[i].name, msg.name)
     /\ \/ /\ msg.at >= HalfDay /\ rows[i].at \in 60..HalfDay - 1
           /\ Within(rows[i].at, msg.at - HalfDay, Window)
        \/ /\ msg.at < HalfDay /\ rows[i].at \in HalfDay..HalfDay + 59
           /\ Within(rows[i].at, msg.at + HalfDay, Window)}

MatchAlias(rows, msg) ==
  LET alias == {i \in AliasCandidates(rows, msg) : ~BalancesDiffer(rows[i], msg)}
  IN IF Cardinality(AliasCandidates(rows, msg)) = 1 /\ alias # {}
       THEN Match(CHOOSE i \in alias : TRUE, "am_pm_alias")
       ELSE Insert

\* A mutant of MatchReference: the reference alone decides.
MatchReferenceOnly(rows, msg, i) ==
  IF rows[i].amount # msg.amount THEN Defer("reference", {}) ELSE Match(i, "standard")

MatchReference(rows, msg, i) ==
  IF rows[i].amount # msg.amount \/ BalancesDiffer(rows[i], msg)
    THEN Defer("reference", {})
    ELSE Match(i, "standard")

FindMatch(rows, msg, owner) ==
  LET byRef == {i \in DOMAIN rows : msg.ref # None /\ rows[i].ref = msg.ref}
      candidates == Gather(rows, msg)
  IN CASE byRef # {} -> MatchReference(rows, msg, CHOOSE i \in byRef : TRUE)
       [] byRef = {} /\ candidates # {} -> Decide(rows, msg, owner, candidates)
       [] OTHER -> MatchAlias(rows, msg)

\* An operator may merge into a row that the matcher could have taken for the
\* event, or whose reference is a form of the message's.
QualifiesExplicitly(rows, msg, i) ==
  /\ rows[i].amount = msg.amount
  /\ rows[i].at # None /\ msg.at # None => Within(rows[i].at, msg.at, Window)
  /\ ~BalancesDiffer(rows[i], msg)
  /\ i \in Gather(rows, msg) \/ SameOrShortRef(rows[i].ref, msg.ref)

-----------------------------------------------------------------------------
\* Rows.

NewRow(msg, owner, source) ==
  [type |-> msg.type, amount |-> msg.amount, ref |-> msg.ref, balance |-> msg.balance,
   at |-> msg.at, received |-> msg.received, name |-> msg.name, label |-> msg.label,
   acct |-> msg.acct, card |-> msg.card, by |-> msg.by, source |-> source,
   sms |-> IF msg.channel = "sms" THEN owner ELSE None,
   email |-> IF msg.channel = "email" THEN owner ELSE None,
   absorbed |-> {owner}]

Fill(old, new) == IF old = None THEN new ELSE old
Overwrite(old, new) == IF new = None THEN old ELSE new
Merged(old, msg, new) == IF msg.channel = "email" THEN Overwrite(old, new) ELSE Fill(old, new)

\* A label is a name the user gave the payee; a bank's name replaces it and is
\* never replaced by it.
BankReplacesLabel(row, msg) == row.label /\ ~msg.label
LabelMustNotReplace(row, msg) == msg.label /\ ~row.label

MergedName(row, msg) ==
  LET overwrites == /\ msg.channel = "email"
                    /\ <<msg.name, row.name>> \notin NameWithin
                    /\ ~LabelMustNotReplace(row, msg)
  IN IF msg.name # None /\ (row.name = None \/ BankReplacesLabel(row, msg) \/ overwrites)
       THEN msg.name ELSE row.name

MergedTime(row, msg, kind) ==
  LET earlier == msg.channel = "email" /\ msg.at < row.at
  IN IF msg.at # None /\ (row.at = None \/ kind = "am_pm_alias" \/ earlier)
       THEN msg.at ELSE row.at

\* What the stored name and the stored time say of where they come from.
SyncProvenance(row, msg, name, at) ==
  [row EXCEPT !.name = name,
              !.label = IF msg.name # None /\ msg.name = name THEN msg.label ELSE @,
              !.at = at,
              !.received = IF at # row.at THEN msg.received ELSE @]

ClaimSlot(row, channel, owner) ==
  [row EXCEPT !.sms = IF channel = "sms" THEN Fill(@, owner) ELSE @,
              !.email = IF channel = "email" THEN Fill(@, owner) ELSE @]

Enrich(row, msg, owner, kind) ==
  LET synced == SyncProvenance(row, msg, MergedName(row, msg), MergedTime(row, msg, kind))
  IN ClaimSlot([synced EXCEPT
       !.ref = Merged(@, msg, msg.ref),
       !.balance = Merged(@, msg, msg.balance),
       !.acct = Merged(@, msg, msg.acct),
       !.card = Merged(@, msg, msg.card),
       !.source = IF @ \in {None, msg.channel} THEN @ ELSE "sms+email"],
     msg.channel, owner)
=============================================================================
