---------------------------- MODULE LedgerProofs ----------------------------
(* The rows of the ledger, for any alerts, statements and bounds. Ingestion:  *)
(* type correctness, that no row mixes two balances, that an alert is counted *)
(* once while no message that a row holds is replayed, and that no row takes  *)
(* a second alert of a channel without proof. Repairs: that no reference to a *)
(* row dangles. Statements of a bank account: that lines and rows stand for   *)
(* each other one to one; of a bank account and of a card: that the order of  *)
(* the lines changes nothing.                                                *)
EXTENDS TxnIngest, LedgerRepair, TLAPS, FiniteSetTheorems, WellFoundedInduction

Statuses == {"unseen", "parsed", "enriched", "deferred", "unpaired", "duplicate"}

(* Who owns a slot has been absorbed, unless it is the email of a completion *)
(* leg, which takes the slot of the row it completes. Without it a reparse   *)
(* could write the balance of an alert that the row knows nothing of.        *)
OwnersAbsorbed ==
  \A i \in DOMAIN rows : \A a \in Alerts :
    /\ rows[i].sms = a => a \in rows[i].absorbed
    /\ rows[i].email = a => a \in rows[i].absorbed \/ message[a].role = "completion"

IInv == TypeOK /\ OwnersAbsorbed /\ BalancesAgree

-----------------------------------------------------------------------------
(* The matcher.                                                              *)

(* A set with one element has the element that CHOOSE picks. *)
LEMMA ChooseOne ==
  ASSUME NEW S, Cardinality(S) = 1
  PROVE  (CHOOSE x \in S : TRUE) \in S
<1>1. S # {}
  BY FS_EmptySet
<1> QED
  BY <1>1

(* Candidates are rows. *)
LEMMA GatherRows ==
  ASSUME NEW rs, NEW msg
  PROVE  Gather(rs, msg) \subseteq DOMAIN rs
BY DEF Gather

(* What a verdict says. *)
LEMMA Verdicts ==
  /\ Insert.act = "insert"
  /\ \A why, choices : Defer(why, choices).act = "defer"
  /\ \A i, kind : Match(i, kind).act = "match" /\ Match(i, kind).row = i
BY DEF Insert, Defer, Match

(* A match fits when it is a row that the message does not contradict. *)
Fits(rs, msg, v) ==
  v.act = "match" => v.row \in DOMAIN rs /\ ~BalancesDiffer(rs[v.row], msg)

LEMMA OthersFit ==
  ASSUME NEW rs, NEW msg
  PROVE  /\ Fits(rs, msg, Insert)
         /\ \A why, choices : Fits(rs, msg, Defer(why, choices))
         /\ \A i \in DOMAIN rs : \A kind :
              ~BalancesDiffer(rs[i], msg) => Fits(rs, msg, Match(i, kind))
BY Verdicts DEF Fits

LEMMA BalanceFits ==
  ASSUME NEW rs, NEW msg, NEW C \in SUBSET DOMAIN rs
  PROVE  Fits(rs, msg, DecideByBalance(rs, msg, C))
<1> DEFINE left == {i \in C : ~BalancesDiffer(rs[i], msg)}
           equal == {i \in left : rs[i].balance = msg.balance}
           one == CHOOSE i \in equal : TRUE
           verdict == CASE left = {} -> Insert
                        [] Cardinality(equal) = 1 -> Match(one, "standard")
                        [] OTHER -> Defer("ambiguous", left)
<1>1. DecideByBalance(rs, msg, C) = verdict
  BY DEF DecideByBalance
<1>2. Cardinality(equal) = 1 => one \in equal
  BY ChooseOne
<1>3. \/ verdict = Insert
      \/ verdict = Defer("ambiguous", left)
      \/ Cardinality(equal) = 1 /\ verdict = Match(one, "standard")
  <2> HIDE DEF left, equal, one
  <2> QED
    OBVIOUS
<1>4. one \in equal => Fits(rs, msg, Match(one, "standard"))
  BY OthersFit
<1> QED
  <2> HIDE DEF left, equal, one, verdict
  <2> QED
    BY <1>1, <1>2, <1>3, <1>4, OthersFit

LEMMA SlotFits ==
  ASSUME NEW rs, NEW msg, NEW claimant, NEW C \in SUBSET DOMAIN rs, msg.balance = None
  PROVE  Fits(rs, msg, DecideBySlot(rs, msg, claimant, C))
<1> DEFINE own(i) == claimant # None /\ SlotOwner(rs[i], msg.channel) = claimant
           left == {i \in C : own(i) \/ ~ReferencesDistinct(rs[i], msg)}
           clean == {i \in left : rs[i].balance = None /\ SlotOwner(rs[i], msg.channel) = None}
           one == CHOOSE i \in left : TRUE
           verdict == CASE left = {} -> Insert
                        [] Cardinality(left) = 1 /\ clean = left -> Match(one, "standard")
                        [] OTHER -> Defer("ambiguous", left)
<1>1. DecideBySlot(rs, msg, claimant, C) = verdict
  BY DEF DecideBySlot
<1>2. Cardinality(left) = 1 => one \in left
  BY ChooseOne
<1>3. \/ verdict = Insert
      \/ verdict = Defer("ambiguous", left)
      \/ Cardinality(left) = 1 /\ verdict = Match(one, "standard")
  <2> HIDE DEF left, clean, one
  <2> QED
    OBVIOUS
<1>4. one \in left => Fits(rs, msg, Match(one, "standard"))
  <2>1. one \in left => one \in DOMAIN rs
    OBVIOUS
  <2>2. ~BalancesDiffer(rs[one], msg)
    BY DEF BalancesDiffer
  <2> HIDE DEF left, one
  <2> QED
    BY <2>1, <2>2, OthersFit
<1> QED
  <2> HIDE DEF left, clean, one, verdict
  <2> QED
    BY <1>1, <1>2, <1>3, <1>4, OthersFit

LEMMA AliasFits ==
  ASSUME NEW rs, NEW msg
  PROVE  Fits(rs, msg, MatchAlias(rs, msg))
<1> DEFINE alias == {i \in AliasCandidates(rs, msg) : ~BalancesDiffer(rs[i], msg)}
           one == CHOOSE i \in alias : TRUE
<1>1. MatchAlias(rs, msg) = IF Cardinality(AliasCandidates(rs, msg)) = 1 /\ alias # {}
                              THEN Match(one, "am_pm_alias") ELSE Insert
  BY DEF MatchAlias
<1>2. AliasCandidates(rs, msg) \subseteq DOMAIN rs
  BY DEF AliasCandidates
<1>3. alias # {} => Fits(rs, msg, Match(one, "am_pm_alias"))
  <2>1. alias # {} => one \in alias
    OBVIOUS
  <2> QED
    BY <1>2, <2>1, OthersFit
<1> QED
  <2> HIDE DEF alias, one
  <2> QED
    BY <1>1, <1>3, OthersFit

(* Whichever path matches, it matches a row of the ledger whose balance the  *)
(* message does not contradict.                                              *)
LEMMA MatchFits ==
  ASSUME NEW rs, NEW msg, NEW claimant
  PROVE  Fits(rs, msg, FindMatch(rs, msg, claimant))
<1> DEFINE byRef == {i \in DOMAIN rs : msg.ref # None /\ rs[i].ref = msg.ref}
           one == CHOOSE i \in byRef : TRUE
           C == Gather(rs, msg)
           verdict == CASE byRef # {} -> MatchReference(rs, msg, one)
                        [] byRef = {} /\ C # {} -> Decide(rs, msg, claimant, C)
                        [] OTHER -> MatchAlias(rs, msg)
<1>1. FindMatch(rs, msg, claimant) = verdict
  BY DEF FindMatch
<1>2. byRef # {} => one \in DOMAIN rs
  OBVIOUS
<1>3. \/ byRef # {} /\ verdict = MatchReference(rs, msg, one)
      \/ verdict = Decide(rs, msg, claimant, C)
      \/ verdict = MatchAlias(rs, msg)
  <2> HIDE DEF byRef, one, C
  <2> QED
    OBVIOUS
<1>4. one \in DOMAIN rs => Fits(rs, msg, MatchReference(rs, msg, one))
  <2> HIDE DEF one
  <2> QED
    BY OthersFit DEF MatchReference
<1>5. Fits(rs, msg, Decide(rs, msg, claimant, C))
  BY BalanceFits, SlotFits, GatherRows DEF Decide
<1> QED
  <2> HIDE DEF byRef, one, C, verdict
  <2> QED
    BY <1>1, <1>2, <1>3, <1>4, <1>5, AliasFits

-----------------------------------------------------------------------------
(* The ends of a request.                                                    *)

(* Every field of a content is stated. *)
LEMMA StatedFields ==
  ASSUME NEW m \in Contents
  PROVE  /\ m.type \in Stated("type") /\ m.amount \in Stated("amount")
         /\ m.ref \in Stated("ref") /\ m.balance \in Stated("balance")
         /\ m.at \in Stated("at") /\ m.received \in Stated("received")
         /\ m.name \in Stated("name") /\ m.label \in Stated("label")
         /\ m.acct \in Stated("acct") /\ m.card \in Stated("card")
         /\ m.by \in Stated("by")
BY DEF Stated

(* What each alert says is a content, with a channel and a role. *)
LEMMA Said ==
  ASSUME TypeOK, NEW a \in Alerts
  PROVE  /\ message[a] \in Contents
         /\ message[a].channel \in {"sms", "email"}
         /\ IsSms(a) <=> message[a].channel = "sms"
BY IngestAssumption DEF TypeOK, IsSms

(* A new row is a row, owned and absorbed by its alert. *)
LEMMA NewRowIsRow ==
  ASSUME TypeOK, NEW a \in Alerts, NEW source \in {"sms", "email", None}
  PROVE  LET row == NewRow(message[a], a, source) IN
         /\ row \in Row
         /\ row.absorbed = {a} /\ row.balance = message[a].balance
         /\ row.sms = (IF IsSms(a) THEN a ELSE None)
         /\ row.email = (IF IsSms(a) THEN None ELSE a)
<1> DEFINE msg == message[a]
<1>1. msg \in Contents /\ msg.channel \in {"sms", "email"} /\ (IsSms(a) <=> msg.channel = "sms")
  BY Said
<1> HIDE DEF msg
<1>2. NewRow(msg, a, source) \in Row
  BY <1>1, StatedFields DEF NewRow, Row, OrNone
<1>3. LET row == NewRow(msg, a, source) IN
      /\ row.absorbed = {a} /\ row.balance = msg.balance
      /\ row.sms = (IF msg.channel = "sms" THEN a ELSE None)
      /\ row.email = (IF msg.channel = "email" THEN a ELSE None)
  BY DEF NewRow
<1> QED
  BY <1>1, <1>2, <1>3 DEF msg

LEMMA LeaveKeeps ==
  ASSUME IInv, NEW a \in Alerts, NEW s \in Statuses, NEW r \in DOMAIN rows \cup {None},
         Leave(a, s, r)
  PROVE  IInv'
<1>1. message' = message /\ rows' = rows
  BY DEF Leave
<1>2. state' \in [Alerts -> Statuses] /\ link' \in [Alerts -> DOMAIN rows \cup {None}]
  BY DEF Leave, IInv, TypeOK, Statuses
<1>3. TypeOK'
  BY <1>1, <1>2 DEF IInv, TypeOK, Statuses, IsSms
<1> QED
  BY <1>1, <1>3 DEF IInv, OwnersAbsorbed, BalancesAgree

LEMMA OpenKeeps ==
  ASSUME IInv, NEW a \in Alerts, NEW source \in {"sms", "email", None}, OpenRow(a, source)
  PROVE  IInv'
<1> DEFINE row == NewRow(message[a], a, source)
           n == Len(rows)
<1>1. /\ row \in Row /\ row.absorbed = {a} /\ row.balance = message[a].balance
      /\ row.sms = (IF IsSms(a) THEN a ELSE None)
      /\ row.email = (IF IsSms(a) THEN None ELSE a)
  BY NewRowIsRow DEF IInv
<1>2. message' = message /\ rows' = Append(rows, row)
  BY DEF OpenRow
<1> HIDE DEF row
<1>3. rows \in Seq(Row) /\ n \in Nat /\ DOMAIN rows = 1..n
  BY DEF IInv, TypeOK
<1>4. /\ rows' \in Seq(Row) /\ DOMAIN rows' = 1..n + 1
      /\ \A i \in 1..n : rows'[i] = rows[i]
      /\ rows'[n + 1] = row
  BY <1>1, <1>2, <1>3
<1>5. \A i \in DOMAIN rows' : (i \in DOMAIN rows /\ rows'[i] = rows[i]) \/ rows'[i] = row
  BY <1>3, <1>4
<1>6. state' \in [Alerts -> Statuses] /\ link' \in [Alerts -> DOMAIN rows' \cup {None}]
  <2>1. n + 1 \in DOMAIN rows' /\ DOMAIN rows \subseteq DOMAIN rows'
    BY <1>3, <1>4
  <2> HIDE DEF n
  <2>2. link' = [link EXCEPT ![a] = IF IsSms(a) THEN n + 1 ELSE None]
    BY DEF OpenRow, n
  <2> QED
    BY <2>1, <2>2 DEF OpenRow, IInv, TypeOK, Statuses
<1>7. TypeOK'
  <2>1. \A i \in DOMAIN rows' : \A b \in Alerts :
          (rows'[i].sms = b => IsSms(b)) /\ (rows'[i].email = b => ~IsSms(b))
    BY <1>1, <1>5, IngestAssumption DEF IInv, TypeOK
  <2> QED
    BY <1>2, <1>4, <1>6, <2>1 DEF IInv, TypeOK, Statuses, IsSms
<1>8. OwnersAbsorbed'
  BY <1>1, <1>2, <1>5, IngestAssumption DEF IInv, OwnersAbsorbed
<1>9. BalancesAgree'
  BY <1>1, <1>2, <1>5 DEF IInv, BalancesAgree
<1> QED
  BY <1>7, <1>8, <1>9 DEF IInv

(* The name and the time of a row come from the row or from the message. *)
LEMMA MergedIsSaid ==
  ASSUME NEW r, NEW msg, NEW kind
  PROVE  /\ MergedName(r, msg) \in {r.name, msg.name}
         /\ MergedTime(r, msg, kind) \in {r.at, msg.at}
<1>1. MergedName(r, msg) \in {r.name, msg.name}
  BY DEF MergedName
<1>2. MergedTime(r, msg, kind) \in {r.at, msg.at}
  BY DEF MergedTime
<1> QED
  BY <1>1, <1>2

(* What the provenance of name and time leaves alone. *)
LEMMA SyncIsRow ==
  ASSUME NEW r \in Row, NEW msg \in Contents,
         NEW name \in {r.name, msg.name}, NEW at \in {r.at, msg.at}
  PROVE  LET s == SyncProvenance(r, msg, name, at) IN
         /\ s \in Row /\ s.absorbed = r.absorbed /\ s.balance = r.balance
         /\ s.sms = r.sms /\ s.email = r.email
         /\ s.ref = r.ref /\ s.acct = r.acct /\ s.card = r.card /\ s.source = r.source
<1> DEFINE lab == IF msg.name # None /\ msg.name = name THEN msg.label ELSE r.label
           rec == IF at # r.at THEN msg.received ELSE r.received
<1>1. /\ name \in OrNone(Stated("name")) /\ at \in OrNone(Stated("at"))
      /\ lab \in Stated("label") /\ rec \in Stated("received")
  BY StatedFields DEF Row, OrNone
<1>2. SyncProvenance(r, msg, name, at)
        = [r EXCEPT !.name = name, !.label = lab, !.at = at, !.received = rec]
  BY DEF SyncProvenance
<1> HIDE DEF lab, rec
<1> QED
  BY <1>1, <1>2 DEF Row

(* An enriched row is a row; a balance it had it keeps, and the slot that    *)
(* changes is the message's own.                                             *)
LEMMA EnrichIsRow ==
  ASSUME TypeOK, NEW r \in Row, NEW a \in Alerts, NEW claimant \in {a, None}, NEW kind,
         ~BalancesDiffer(r, message[a])
  PROVE  LET e == Enrich(r, message[a], claimant, kind) IN
         /\ e \in Row /\ e.absorbed = r.absorbed
         /\ e.balance = (IF r.balance = None THEN message[a].balance ELSE r.balance)
         /\ e.sms = r.sms \/ (IsSms(a) /\ e.sms = claimant)
         /\ e.email = r.email \/ (~IsSms(a) /\ e.email = claimant)
<1> DEFINE msg == message[a]
           name == MergedName(r, msg)
           at == MergedTime(r, msg, kind)
           s == SyncProvenance(r, msg, name, at)
           ref == Merged(r.ref, msg, msg.ref)
           balance == Merged(r.balance, msg, msg.balance)
           acct == Merged(r.acct, msg, msg.acct)
           card == Merged(r.card, msg, msg.card)
           source == IF r.source \in {None, msg.channel} THEN r.source ELSE "sms+email"
           sms == IF msg.channel = "sms" THEN Fill(r.sms, claimant) ELSE r.sms
           email == IF msg.channel = "email" THEN Fill(r.email, claimant) ELSE r.email
<1>1. msg \in Contents /\ msg.channel \in {"sms", "email"} /\ (IsSms(a) <=> msg.channel = "sms")
  BY Said
<1>2. ~BalancesDiffer(r, msg)
  OBVIOUS
<1> HIDE DEF msg
<1>3. name \in {r.name, msg.name} /\ at \in {r.at, msg.at}
  BY MergedIsSaid
<1> HIDE DEF name, at
<1>4. /\ s \in Row /\ s.absorbed = r.absorbed /\ s.balance = r.balance
      /\ s.sms = r.sms /\ s.email = r.email
      /\ s.ref = r.ref /\ s.acct = r.acct /\ s.card = r.card /\ s.source = r.source
  BY <1>1, <1>3, SyncIsRow
<1>5. \A old, new : Merged(old, msg, new) \in {old, new}
  BY DEF Merged, Overwrite, Fill
<1>6. balance = IF r.balance = None THEN msg.balance ELSE r.balance
  BY <1>2 DEF BalancesDiffer, Merged, Overwrite, Fill
<1>7. /\ ref \in OrNone(Stated("ref")) /\ balance \in OrNone(Stated("balance"))
      /\ acct \in OrNone(Stated("acct")) /\ card \in OrNone(Stated("card"))
      /\ source \in {"sms", "email", "sms+email", None}
  BY <1>1, <1>5, StatedFields DEF Row, OrNone
<1>8. /\ sms \in OrNone(Alerts) /\ email \in OrNone(Alerts)
      /\ sms = r.sms \/ (IsSms(a) /\ sms = claimant)
      /\ email = r.email \/ (~IsSms(a) /\ email = claimant)
  BY <1>1 DEF Row, OrNone, Fill
<1> DEFINE e == [s EXCEPT !.ref = ref, !.balance = balance, !.acct = acct, !.card = card,
                          !.source = source, !.sms = sms, !.email = email]
<1>9. Enrich(r, msg, claimant, kind) = e
  <2> DEFINE filled == [s EXCEPT !.ref = ref, !.balance = balance, !.acct = acct,
                                 !.card = card, !.source = source]
  <2>1. Enrich(r, msg, claimant, kind) = ClaimSlot(filled, msg.channel, claimant)
    BY <1>4 DEF Enrich, name, at
  <2> HIDE DEF s, ref, balance, acct, card, source
  <2>2. filled.sms = r.sms /\ filled.email = r.email
    BY <1>4 DEF Row
  <2>3. ClaimSlot(filled, msg.channel, claimant) = [filled EXCEPT !.sms = sms, !.email = email]
    BY <2>2 DEF ClaimSlot
  <2> HIDE DEF sms, email
  <2> QED
    BY <1>4, <2>1, <2>3 DEF Row
<1> HIDE DEF s, ref, balance, acct, card, source, sms, email
<1>10. /\ e \in Row /\ e.absorbed = r.absorbed /\ e.balance = balance
       /\ e.sms = sms /\ e.email = email
  BY <1>4, <1>7, <1>8 DEF Row
<1> QED
  BY <1>6, <1>8, <1>9, <1>10 DEF msg

(* One row is replaced by a row whose owners and balances are in order.      *)
LEMMA ReplaceKeeps ==
  ASSUME IInv, NEW a \in Alerts, NEW i \in DOMAIN rows, NEW e \in Row,
         message' = message,
         rows' = [rows EXCEPT ![i] = e],
         state' \in [Alerts -> Statuses],
         link' \in [Alerts -> DOMAIN rows \cup {None}],
         \A b \in Alerts :
           /\ e.sms = b => IsSms(b) /\ b \in e.absorbed
           /\ e.email = b => /\ ~IsSms(b)
                             /\ b \in e.absorbed \/ message[b].role = "completion"
           /\ b \in e.absorbed => message[b].balance \in {None, e.balance}
  PROVE  IInv'
<1>1. rows' \in Seq(Row) /\ DOMAIN rows' = DOMAIN rows
  BY DEF IInv, TypeOK
<1>2. \A j \in DOMAIN rows' : rows'[j] = rows[j] \/ rows'[j] = e
  BY <1>1 DEF IInv, TypeOK
<1>3. TypeOK'
  <2>1. \A j \in DOMAIN rows' : \A b \in Alerts :
          (rows'[j].sms = b => IsSms(b)) /\ (rows'[j].email = b => ~IsSms(b))
    BY <1>1, <1>2 DEF IInv, TypeOK
  <2> QED
    BY <1>1, <2>1 DEF IInv, TypeOK, Statuses, IsSms
<1>4. OwnersAbsorbed'
  BY <1>1, <1>2 DEF IInv, OwnersAbsorbed
<1>5. BalancesAgree'
  <2>1. e.absorbed \subseteq Alerts
    BY DEF Row
  <2> QED
    BY <1>1, <1>2, <2>1 DEF IInv, BalancesAgree
<1> QED
  BY <1>3, <1>4, <1>5 DEF IInv

(* What the row at an index satisfies already. *)
LEMMA RowInOrder ==
  ASSUME IInv, NEW i \in DOMAIN rows
  PROVE  /\ rows[i] \in Row
         /\ \A b \in Alerts :
              /\ rows[i].sms = b => IsSms(b) /\ b \in rows[i].absorbed
              /\ rows[i].email = b =>
                   /\ ~IsSms(b)
                   /\ b \in rows[i].absorbed \/ message[b].role = "completion"
              /\ b \in rows[i].absorbed => message[b].balance \in {None, rows[i].balance}
BY DEF IInv, TypeOK, OwnersAbsorbed, BalancesAgree

LEMMA EnrichKeeps ==
  ASSUME IInv, NEW a \in Alerts, NEW i \in DOMAIN rows, NEW claimant \in {a, None}, NEW kind,
         ~BalancesDiffer(rows[i], message[a]), EnrichRow(a, i, claimant, kind)
  PROVE  IInv'
<1> DEFINE r == rows[i]
           e == Enrich(r, message[a], claimant, kind)
           new == [e EXCEPT !.absorbed = @ \cup {a}]
<1>1. r \in Row
  BY RowInOrder
<1>2. /\ e \in Row /\ e.absorbed = r.absorbed
      /\ e.balance = (IF r.balance = None THEN message[a].balance ELSE r.balance)
      /\ e.sms = r.sms \/ (IsSms(a) /\ e.sms = claimant)
      /\ e.email = r.email \/ (~IsSms(a) /\ e.email = claimant)
  BY <1>1, EnrichIsRow DEF IInv
<1>3. message' = message /\ rows' = [rows EXCEPT ![i] = new]
  BY DEF EnrichRow
<1>4. state' \in [Alerts -> Statuses] /\ link' \in [Alerts -> DOMAIN rows \cup {None}]
  BY DEF EnrichRow, IInv, TypeOK, Statuses
<1> HIDE DEF e
<1>5. /\ new \in Row /\ new.absorbed = r.absorbed \cup {a}
      /\ new.balance = e.balance /\ new.sms = e.sms /\ new.email = e.email
  BY <1>2 DEF Row
<1> HIDE DEF new
<1>6. ~BalancesDiffer(r, message[a])
  OBVIOUS
<1>7. \A b \in Alerts :
        /\ r.sms = b => IsSms(b) /\ b \in r.absorbed
        /\ r.email = b => ~IsSms(b) /\ (b \in r.absorbed \/ message[b].role = "completion")
        /\ b \in r.absorbed => message[b].balance \in {None, r.balance}
  BY RowInOrder
<1> HIDE DEF r
<1>8. ASSUME NEW b \in Alerts
      PROVE  /\ new.sms = b => IsSms(b) /\ b \in new.absorbed
             /\ new.email = b => /\ ~IsSms(b)
                                 /\ b \in new.absorbed \/ message[b].role = "completion"
             /\ b \in new.absorbed => message[b].balance \in {None, new.balance}
  <2>1. new.sms = b => IsSms(b) /\ b \in new.absorbed
    BY <1>2, <1>5, <1>7, IngestAssumption
  <2>2. new.email = b => ~IsSms(b) /\ (b \in new.absorbed \/ message[b].role = "completion")
    BY <1>2, <1>5, <1>7, IngestAssumption
  <2>3. b \in new.absorbed => message[b].balance \in {None, new.balance}
    BY <1>2, <1>5, <1>6, <1>7 DEF BalancesDiffer
  <2> QED
    BY <2>1, <2>2, <2>3
<1> QED
  BY <1>3, <1>4, <1>5, <1>8, ReplaceKeeps

LEMMA StampKeeps ==
  ASSUME IInv, NEW a \in Alerts, NEW i \in DOMAIN rows,
         message[a].role = "completion", StampReference(a, i)
  PROVE  IInv'
<1> DEFINE r == rows[i]
           msg == message[a]
           named == msg.name # None /\ (r.name = None \/ BankReplacesLabel(r, msg))
           name == IF named THEN msg.name ELSE r.name
           label == IF named THEN msg.label ELSE r.label
           email == IF IsSms(a) THEN r.email ELSE Fill(r.email, a)
           new == [r EXCEPT !.ref = msg.ref, !.name = name, !.label = label, !.email = email]
<1>1. r \in Row
  BY RowInOrder
<1>2. msg \in Contents
  BY Said DEF IInv
<1>3. /\ msg.ref \in OrNone(Stated("ref")) /\ name \in OrNone(Stated("name"))
      /\ label \in Stated("label") /\ email \in OrNone(Alerts)
  BY <1>1, <1>2, StatedFields DEF Row, OrNone, Fill
<1>4. message' = message /\ rows' = [rows EXCEPT ![i] = new]
  BY DEF StampReference, IInv, TypeOK
<1>5. state' \in [Alerts -> Statuses] /\ link' \in [Alerts -> DOMAIN rows \cup {None}]
  BY DEF StampReference, IInv, TypeOK, Statuses
<1>6. email = r.email \/ (~IsSms(a) /\ email = a)
  BY DEF Fill
<1> HIDE DEF name, label, email
<1>7. /\ new \in Row /\ new.absorbed = r.absorbed /\ new.balance = r.balance
      /\ new.sms = r.sms /\ new.email = email
  BY <1>1, <1>3 DEF Row
<1> HIDE DEF new
<1>8. ASSUME NEW b \in Alerts
      PROVE  /\ new.sms = b => IsSms(b) /\ b \in new.absorbed
             /\ new.email = b => /\ ~IsSms(b)
                                 /\ b \in new.absorbed \/ message[b].role = "completion"
             /\ b \in new.absorbed => message[b].balance \in {None, new.balance}
  BY <1>6, <1>7, RowInOrder
<1> QED
  BY <1>4, <1>5, <1>7, <1>8, ReplaceKeeps

(* An owner that refreshes its row has stated that row's balance already.    *)
LEMMA RefreshKeeps ==
  ASSUME IInv, NEW a \in Alerts, NEW i \in DOMAIN rows,
         ~IsSms(a), rows[i].email = a, message[a].role # "completion", RefreshRow(a, i)
  PROVE  IInv'
<1> DEFINE r == rows[i]
           msg == message[a]
           name == IF r.name # None /\ LabelMustNotReplace(r, msg)
                     THEN r.name ELSE Overwrite(r.name, msg.name)
           at == Overwrite(r.at, msg.at)
           s == SyncProvenance(r, msg, name, at)
           new == Refreshed(r, msg)
<1>1. r \in Row /\ msg \in Contents
  BY RowInOrder, Said DEF IInv
<1>2. name \in {r.name, msg.name} /\ at \in {r.at, msg.at}
  BY DEF Overwrite
<1>3. new = [s EXCEPT !.type = msg.type, !.amount = msg.amount,
               !.ref = Overwrite(@, msg.ref), !.balance = Overwrite(@, msg.balance),
               !.acct = Overwrite(@, msg.acct), !.card = Overwrite(@, msg.card)]
  BY DEF Refreshed
<1> HIDE DEF name, at, new
<1>4. /\ s \in Row /\ s.absorbed = r.absorbed /\ s.balance = r.balance
      /\ s.sms = r.sms /\ s.email = r.email
      /\ s.ref = r.ref /\ s.acct = r.acct /\ s.card = r.card /\ s.source = r.source
  <2> HIDE DEF r, msg
  <2> QED
    BY <1>1, <1>2, SyncIsRow
<1> HIDE DEF s
<1> DEFINE ref == Overwrite(r.ref, msg.ref)
           balance == Overwrite(r.balance, msg.balance)
           acct == Overwrite(r.acct, msg.acct)
           card == Overwrite(r.card, msg.card)
<1>5. /\ ref \in OrNone(Stated("ref")) /\ balance \in OrNone(Stated("balance"))
      /\ acct \in OrNone(Stated("acct")) /\ card \in OrNone(Stated("card"))
      /\ msg.type \in Stated("type") /\ msg.amount \in Stated("amount")
  BY <1>1, StatedFields DEF Row, OrNone, Overwrite
<1>6. balance = r.balance
  BY RowInOrder DEF Overwrite
<1> HIDE DEF ref, balance, acct, card
<1>7. new = [s EXCEPT !.type = msg.type, !.amount = msg.amount, !.ref = ref,
               !.balance = balance, !.acct = acct, !.card = card]
  BY <1>3, <1>4 DEF ref, balance, acct, card
<1>8. /\ new \in Row /\ new.absorbed = r.absorbed /\ new.balance = r.balance
      /\ new.sms = r.sms /\ new.email = r.email
  BY <1>4, <1>5, <1>6, <1>7 DEF Row
<1>9. CASE RefFree(new.ref, i) /\ rows' = [rows EXCEPT ![i] = new]
           /\ state' = [state EXCEPT ![a] = "parsed"] /\ UNCHANGED <<message, link>>
  <2>1. state' \in [Alerts -> Statuses] /\ link' \in [Alerts -> DOMAIN rows \cup {None}]
    BY <1>9 DEF IInv, TypeOK, Statuses
  <2>2. ASSUME NEW b \in Alerts
        PROVE  /\ new.sms = b => IsSms(b) /\ b \in new.absorbed
               /\ new.email = b => /\ ~IsSms(b)
                                   /\ b \in new.absorbed \/ message[b].role = "completion"
               /\ b \in new.absorbed => message[b].balance \in {None, new.balance}
    BY <1>8, RowInOrder
  <2> QED
    BY <1>8, <1>9, <2>1, <2>2, ReplaceKeeps
<1>10. CASE Leave(a, "duplicate", None)
  BY <1>10, LeaveKeeps DEF Statuses
<1> QED
  BY <1>9, <1>10 DEF RefreshRow, new

-----------------------------------------------------------------------------
(* The handlers.                                                             *)

(* A verdict that matches can be enriched. *)
LEMMA VerdictFits ==
  ASSUME NEW a, NEW claimant, FindMatch(rows, message[a], claimant).act = "match"
  PROVE  LET v == FindMatch(rows, message[a], claimant) IN
         v.row \in DOMAIN rows /\ ~BalancesDiffer(rows[v.row], message[a])
BY MatchFits DEF Fits

LEMMA MergeTransactionKeeps ==
  ASSUME IInv, NEW a \in Alerts, MergeTransaction(a)
  PROVE  IInv'
<1> DEFINE v == FindMatch(rows, message[a], a)
<1>1. CASE v.act = "match" /\ EnrichRow(a, v.row, a, v.kind)
  <2>1. v.row \in DOMAIN rows /\ ~BalancesDiffer(rows[v.row], message[a])
    BY <1>1, VerdictFits
  <2> HIDE DEF v
  <2> QED
    BY <1>1, <2>1, EnrichKeeps
<1>2. CASE OpenRow(a, message[a].channel)
  <2>1. message[a].channel \in {"sms", "email", None}
    BY Said DEF IInv
  <2> QED
    BY <1>2, <2>1, OpenKeeps
<1>3. CASE Leave(a, "deferred", None)
  BY <1>3, LeaveKeeps DEF Statuses
<1> QED
  BY <1>1, <1>2, <1>3 DEF MergeTransaction

(* The link of an alert is a row or none. *)
LEMMA LinkIsRow ==
  ASSUME IInv, NEW a \in Alerts
  PROVE  link[a] \in DOMAIN rows \cup {None}
BY DEF IInv, TypeOK

LEMMA CompleteKeeps ==
  ASSUME IInv, NEW a \in Alerts, message[a].role = "completion", Complete(a)
  PROVE  IInv'
<1>1. CASE Leave(a, "parsed", link[a])
  BY <1>1, LinkIsRow, LeaveKeeps DEF Statuses
<1>2. CASE Leave(a, "unpaired", None)
  BY <1>2, LeaveKeeps DEF Statuses
<1>3. ASSUME NEW i \in CompletionPrimaries(message[a]), StampReference(a, i) PROVE IInv'
  BY <1>3, StampKeeps DEF CompletionPrimaries
<1> QED
  BY <1>1, <1>2, <1>3 DEF Complete

LEMMA IngestKeeps ==
  ASSUME IInv, NEW a \in Alerts, Ingest(a)
  PROVE  IInv'
<1>1. CASE MergeTransaction(a)
  BY <1>1, MergeTransactionKeeps
<1>2. CASE Leave(a, "parsed", link[a])
  BY <1>2, LinkIsRow, LeaveKeeps DEF Statuses
<1>3. CASE message[a].role = "completion" /\ Complete(a)
  BY <1>3, CompleteKeeps
<1> QED
  BY <1>1, <1>2, <1>3 DEF Ingest

LEMMA ParseKeeps ==
  ASSUME IInv, NEW a \in Alerts, ParseSms(a)
  PROVE  IInv'
<1>1. CASE OpenRow(a, "sms")
  BY <1>1, OpenKeeps
<1>2. ASSUME NEW i \in Owned(a), Leave(a, "enriched", i) PROVE IInv'
  BY <1>2, LeaveKeeps DEF Statuses, Owned
<1>3. CASE Ingest(a)
  BY <1>3, IngestKeeps
<1> QED
  BY <1>1, <1>2, <1>3 DEF ParseSms

LEMMA AdoptOrOpenKeeps ==
  ASSUME IInv, NEW a \in Alerts, NEW force, AdoptOrOpen(a, force)
  PROVE  IInv'
<1> DEFINE v == FindMatch(rows, message[a], None)
<1>1. CASE v.act = "match" /\ EnrichRow(a, v.row, a, v.kind)
  <2>1. v.row \in DOMAIN rows /\ ~BalancesDiffer(rows[v.row], message[a])
    BY <1>1, VerdictFits
  <2> HIDE DEF v
  <2> QED
    BY <1>1, <2>1, EnrichKeeps
<1>2. CASE Leave(a, "deferred", None) \/ Leave(a, "duplicate", None)
  BY <1>2, LeaveKeeps DEF Statuses
<1>3. CASE OpenRow(a, None)
  BY <1>3, OpenKeeps
<1> QED
  BY <1>1, <1>2, <1>3 DEF AdoptOrOpen

LEMMA ReparseEmailKeeps ==
  ASSUME IInv, NEW a \in Alerts, NEW force, ReparseEmail(a, force)
  PROVE  IInv'
<1>1. CASE message[a].role = "completion" /\ Complete(a)
  BY <1>1, CompleteKeeps
<1>2. ASSUME NEW i \in Owned(a), message[a].role # "completion", ~IsSms(a), RefreshRow(a, i)
      PROVE  IInv'
  <2>1. i \in DOMAIN rows /\ rows[i].email = a
    BY <1>2 DEF Owned, SlotOwner, IsSms
  <2> QED
    BY <1>2, <2>1, RefreshKeeps
<1>3. CASE AdoptOrOpen(a, force)
  BY <1>3, AdoptOrOpenKeeps
<1> QED
  BY <1>1, <1>2, <1>3 DEF ReparseEmail

(* The operator's choice is checked by the same balance rule. *)
LEMMA DecisionsKeep ==
  ASSUME IInv, NEW a \in Alerts, NEW i \in DOMAIN rows, MergeSms(a, i) \/ MergeEmail(a, i)
  PROVE  IInv'
<1>1. ~BalancesDiffer(rows[i], message[a])
  BY DEF MergeSms, MergeEmail, QualifiesExplicitly
<1>2. EnrichRow(a, i, None, "standard") \/ EnrichRow(a, i, a, "standard")
  BY DEF MergeSms, MergeEmail
<1> QED
  BY <1>1, <1>2, EnrichKeeps

LEMMA InitIInv == Init => IInv
<1> SUFFICES ASSUME Init PROVE IInv
  OBVIOUS
<1>1. rows \in Seq(Row) /\ DOMAIN rows = {}
  BY DEF Init
<1> QED
  BY <1>1 DEF Init, IInv, TypeOK, OwnersAbsorbed, BalancesAgree

LEMMA NextIInv == IInv /\ [Next]_vars => IInv'
<1> SUFFICES ASSUME IInv, [Next]_vars PROVE IInv'
  OBVIOUS
<1>1. CASE UNCHANGED vars
  BY <1>1 DEF vars, IInv, TypeOK, OwnersAbsorbed, BalancesAgree, IsSms
<1>2. ASSUME NEW a \in Alerts,
             ReceiveSms(a) \/ PollEmail(a) \/ ReparseSms(a)
      PROVE  IInv'
  BY <1>2, IngestKeeps DEF ReceiveSms, PollEmail, ReparseSms
<1>3. ASSUME NEW a \in Alerts, ParseSms(a) PROVE IInv'
  BY <1>3, ParseKeeps
<1>4. ASSUME NEW a \in Alerts, NEW force \in BOOLEAN, ReparseEmail(a, force) PROVE IInv'
  BY <1>4, ReparseEmailKeeps
<1>5. ASSUME NEW a \in Alerts, CreateFromSms(a) PROVE IInv'
  BY <1>5, OpenKeeps DEF CreateFromSms
<1>6. ASSUME NEW a \in Alerts, SettleSms(a) PROVE IInv'
  BY <1>6, MergeTransactionKeeps DEF SettleSms
<1>7. ASSUME NEW a \in Alerts, NEW i \in DOMAIN rows, MergeSms(a, i) \/ MergeEmail(a, i)
      PROVE  IInv'
  BY <1>7, DecisionsKeep
<1> QED
  BY <1>1, <1>2, <1>3, <1>4, <1>5, <1>6, <1>7 DEF Next

(* Every state of the ingestion is well typed, with any replays. *)
THEOREM IngestTypeCorrect == Spec => []TypeOK
<1>1. IInv => TypeOK
  BY DEF IInv
<1> QED
  BY <1>1, InitIInv, NextIInv, PTL DEF Spec

(* No row ever mixes the alerts of two balances: however many alerts, in     *)
(* whatever order, through the matcher, the operator or a replay.            *)
THEOREM BalancesAlwaysAgree == Spec => []BalancesAgree
<1>1. IInv => BalancesAgree
  BY DEF IInv
<1> QED
  BY <1>1, InitIInv, NextIInv, PTL DEF Spec

-----------------------------------------------------------------------------
(* Where an alert is, as long as no message that a row holds is replayed.    *)

Disjoint == \A i, j \in DOMAIN rows : i # j => rows[i].absorbed \cap rows[j].absorbed = {}

(* What the ledger knows of one alert: one that is unseen or waits is in no  *)
(* row, an SMS that is in a row is linked to one, and a completion leg opens *)
(* no row and waits for no one.                                              *)
Whereabouts(a) ==
  /\ state[a] \in {"unseen", "deferred"} => ~InLedger(a)
  /\ IsSms(a) /\ InLedger(a) => link[a] # None
  /\ message[a].role = "completion" => ~InLedger(a) /\ state[a] # "deferred"
  /\ message[a].role = "primary" /\ state[a] \in {"parsed", "enriched"} => InLedger(a)

CountedInv == IInv /\ Disjoint /\ \A a \in Alerts : Whereabouts(a)

(* Only one alert moves: the others' whereabouts stay when no row forgets    *)
(* what it absorbed and gains the one alert at most.                         *)
LEMMA OthersStay ==
  ASSUME CountedInv, NEW a \in Alerts, UNCHANGED message,
         \A b \in Alerts : b # a => /\ InLedger(b)' <=> InLedger(b)
                                    /\ state'[b] = state[b] /\ link'[b] = link[b],
         Disjoint', IInv', Whereabouts(a)'
  PROVE  CountedInv'
<1>1. ASSUME NEW b \in Alerts, b # a
      PROVE  Whereabouts(b)'
  BY <1>1 DEF CountedInv, Whereabouts, IsSms
<1> QED
  BY <1>1 DEF CountedInv

LEMMA LeaveOnce ==
  ASSUME CountedInv, NEW a \in Alerts, NEW s \in Statuses \ {"unseen"},
         NEW r \in DOMAIN rows \cup {None}, Leave(a, s, r),
         s = "deferred" => ~InLedger(a) /\ message[a].role # "completion",
         IsSms(a) /\ InLedger(a) => r # None,
         message[a].role = "primary" /\ s \in {"parsed", "enriched"} => InLedger(a)
  PROVE  CountedInv'
<1>1. UNCHANGED <<message, rows>> /\ IInv'
  BY LeaveKeeps DEF Leave, CountedInv, Statuses
<1>2. /\ state'[a] = s /\ link'[a] = (IF IsSms(a) THEN r ELSE None)
      /\ \A b \in Alerts : b # a => state'[b] = state[b] /\ link'[b] = link[b]
  BY DEF Leave, CountedInv, IInv, TypeOK
<1>3. Disjoint' /\ \A b \in Alerts : InLedger(b)' <=> InLedger(b)
  BY <1>1 DEF CountedInv, Disjoint, InLedger
<1>4. Whereabouts(a)'
  <2>1. Whereabouts(a)
    BY DEF CountedInv
  <2> QED
    BY <1>1, <1>2, <1>3, <2>1 DEF Whereabouts, IsSms
<1> QED
  BY <1>1, <1>2, <1>3, <1>4, OthersStay

LEMMA OpenOnce ==
  ASSUME CountedInv, NEW a \in Alerts, NEW source \in {"sms", "email", None}, OpenRow(a, source),
         ~InLedger(a), message[a].role # "completion"
  PROVE  CountedInv'
<1> DEFINE row == NewRow(message[a], a, source)
           n == Len(rows)
<1>1. IInv' /\ UNCHANGED message /\ rows' = Append(rows, row) /\ row.absorbed = {a} /\ row \in Row
  BY OpenKeeps, NewRowIsRow DEF OpenRow, CountedInv, IInv
<1> HIDE DEF row
<1>2. rows \in Seq(Row) /\ n \in Nat /\ DOMAIN rows = 1..n
  BY DEF CountedInv, IInv, TypeOK
<1>3. /\ DOMAIN rows' = 1..n + 1 /\ rows'[n + 1] = row
      /\ \A i \in 1..n : rows'[i] = rows[i]
  BY <1>1, <1>2
<1>4. \A i \in 1..n : a \notin rows[i].absorbed
  BY <1>2 DEF InLedger
<1>5. Disjoint'
  <2> SUFFICES ASSUME NEW i \in 1..n + 1, NEW j \in 1..n + 1, i # j
               PROVE  rows'[i].absorbed \cap rows'[j].absorbed = {}
    BY <1>3 DEF Disjoint
  <2>1. CASE i \in 1..n /\ j \in 1..n
    BY <1>2, <1>3, <2>1 DEF CountedInv, Disjoint
  <2>2. CASE i = n + 1 /\ j \in 1..n
    BY <1>1, <1>3, <1>4, <2>2
  <2>3. CASE j = n + 1 /\ i \in 1..n
    BY <1>1, <1>3, <1>4, <2>3
  <2> QED
    BY <1>2, <2>1, <2>2, <2>3
<1>6. InLedger(a)' /\ \A b \in Alerts : b # a => (InLedger(b)' <=> InLedger(b))
  <2>1. n + 1 \in 1..n + 1 /\ \A i \in 1..n + 1 : i \in 1..n \/ i = n + 1
    BY <1>2
  <2> QED
    BY <1>1, <1>2, <1>3, <2>1 DEF InLedger
<1>7. /\ state'[a] = "parsed" /\ link'[a] = (IF IsSms(a) THEN n + 1 ELSE None)
      /\ \A b \in Alerts : b # a => state'[b] = state[b] /\ link'[b] = link[b]
  BY DEF OpenRow, CountedInv, IInv, TypeOK
<1>8. IsSms(a) => link'[a] # None
  BY <1>2, <1>7, IngestAssumption
<1>9. Whereabouts(a)'
  BY <1>1, <1>6, <1>7, <1>8 DEF Whereabouts, IsSms
<1> QED
  BY <1>1, <1>5, <1>6, <1>7, <1>9, OthersStay

(* A row is replaced by one that absorbed the same alerts, and a perhaps.    *)
LEMMA ReplaceOnce ==
  ASSUME CountedInv, IInv', UNCHANGED message, NEW a \in Alerts, NEW i \in DOMAIN rows, NEW e,
         rows' = [rows EXCEPT ![i] = e],
         \/ e.absorbed = rows[i].absorbed
         \/ e.absorbed = rows[i].absorbed \cup {a} /\ ~InLedger(a),
         \A b \in Alerts : b # a => state'[b] = state[b] /\ link'[b] = link[b],
         (InLedger(a)' <=> InLedger(a) \/ a \in e.absorbed) => Whereabouts(a)'
  PROVE  CountedInv'
<1>1. /\ DOMAIN rows' = DOMAIN rows /\ rows'[i] = e
      /\ \A j \in DOMAIN rows : j # i => rows'[j] = rows[j]
  BY DEF CountedInv, IInv, TypeOK
<1>2. Disjoint'
  <2>1. ~InLedger(a) => \A j \in DOMAIN rows : a \notin rows[j].absorbed
    BY DEF InLedger
  <2> SUFFICES ASSUME NEW j \in DOMAIN rows, NEW k \in DOMAIN rows, j # k
               PROVE  rows'[j].absorbed \cap rows'[k].absorbed = {}
    BY <1>1 DEF Disjoint
  <2>2. rows[j].absorbed \cap rows[k].absorbed = {}
    BY DEF CountedInv, Disjoint
  <2> QED
    BY <1>1, <2>1, <2>2
<1>3. \A b \in Alerts : b # a => (InLedger(b)' <=> InLedger(b))
  BY <1>1 DEF InLedger
<1>4. InLedger(a)' <=> InLedger(a) \/ a \in e.absorbed
  BY <1>1 DEF InLedger
<1> QED
  BY <1>2, <1>3, <1>4, OthersStay

LEMMA EnrichOnce ==
  ASSUME CountedInv, NEW a \in Alerts, NEW i \in DOMAIN rows, NEW claimant \in {a, None}, NEW kind,
         ~BalancesDiffer(rows[i], message[a]), EnrichRow(a, i, claimant, kind),
         ~InLedger(a), message[a].role # "completion"
  PROVE  CountedInv'
<1> DEFINE e == Enrich(rows[i], message[a], claimant, kind)
           new == [e EXCEPT !.absorbed = @ \cup {a}]
<1>1. e \in Row /\ e.absorbed = rows[i].absorbed
  BY RowInOrder, EnrichIsRow DEF CountedInv, IInv
<1>2. IInv' /\ UNCHANGED message /\ rows' = [rows EXCEPT ![i] = new]
  BY EnrichKeeps DEF EnrichRow, CountedInv
<1> HIDE DEF e
<1>3. new.absorbed = rows[i].absorbed \cup {a}
  BY <1>1 DEF Row
<1> HIDE DEF new
<1>4. /\ state'[a] \in {"enriched", "parsed"} /\ link'[a] = (IF IsSms(a) THEN i ELSE None)
      /\ \A b \in Alerts : b # a => state'[b] = state[b] /\ link'[b] = link[b]
  BY DEF EnrichRow, CountedInv, IInv, TypeOK
<1>5. i # None
  BY IngestAssumption DEF CountedInv, IInv, TypeOK
<1>6. ASSUME InLedger(a)' <=> InLedger(a) \/ a \in new.absorbed
      PROVE  Whereabouts(a)'
  BY <1>2, <1>3, <1>4, <1>5, <1>6 DEF Whereabouts, IsSms
<1> QED
  BY <1>2, <1>3, <1>4, <1>6, ReplaceOnce

LEMMA StampOnce ==
  ASSUME CountedInv, NEW a \in Alerts, NEW i \in DOMAIN rows,
         message[a].role = "completion", StampReference(a, i)
  PROVE  CountedInv'
<1> DEFINE r == rows[i]
           msg == message[a]
           named == msg.name # None /\ (r.name = None \/ BankReplacesLabel(r, msg))
           name == IF named THEN msg.name ELSE r.name
           label == IF named THEN msg.label ELSE r.label
           email == IF IsSms(a) THEN r.email ELSE Fill(r.email, a)
           new == [r EXCEPT !.ref = msg.ref, !.name = name, !.label = label, !.email = email]
<1>1. IInv' /\ UNCHANGED message /\ r \in Row
  BY StampKeeps, RowInOrder DEF StampReference, CountedInv
<1>2. rows' = [rows EXCEPT ![i] = new]
  BY DEF StampReference, CountedInv, IInv, TypeOK
<1> HIDE DEF name, label, email
<1>3. new.absorbed = r.absorbed
  BY <1>1 DEF Row
<1> HIDE DEF new
<1>4. /\ state'[a] = "parsed" /\ link'[a] = (IF IsSms(a) THEN i ELSE None)
      /\ \A b \in Alerts : b # a => state'[b] = state[b] /\ link'[b] = link[b]
  BY DEF StampReference, CountedInv, IInv, TypeOK
<1>5. ~InLedger(a) /\ a \notin r.absorbed
  BY DEF CountedInv, Whereabouts, InLedger
<1>6. ASSUME InLedger(a)' <=> InLedger(a) \/ a \in new.absorbed
      PROVE  Whereabouts(a)'
  BY <1>1, <1>3, <1>4, <1>5, <1>6 DEF Whereabouts, IsSms
<1> QED
  BY <1>1, <1>2, <1>3, <1>4, <1>6, ReplaceOnce DEF r

(* An email that owns a row is in it. *)
LEMMA OwnerInLedger ==
  ASSUME IInv, NEW a \in Alerts, NEW i \in Owned(a), message[a].role # "completion"
  PROVE  i \in DOMAIN rows /\ a \in rows[i].absorbed /\ InLedger(a)
<1>1. i \in DOMAIN rows /\ SlotOwner(rows[i], message[a].channel) = a
  BY DEF Owned
<1> QED
  BY <1>1 DEF SlotOwner, IInv, OwnersAbsorbed, InLedger

LEMMA RefreshedAbsorbs ==
  ASSUME NEW r \in Row, NEW msg \in Contents
  PROVE  Refreshed(r, msg).absorbed = r.absorbed
<1> DEFINE name == IF r.name # None /\ LabelMustNotReplace(r, msg)
                     THEN r.name ELSE Overwrite(r.name, msg.name)
           at == Overwrite(r.at, msg.at)
           s == SyncProvenance(r, msg, name, at)
<1>1. name \in {r.name, msg.name} /\ at \in {r.at, msg.at}
  BY DEF Overwrite
<1>2. Refreshed(r, msg) = [s EXCEPT !.type = msg.type, !.amount = msg.amount,
               !.ref = Overwrite(@, msg.ref), !.balance = Overwrite(@, msg.balance),
               !.acct = Overwrite(@, msg.acct), !.card = Overwrite(@, msg.card)]
  BY DEF Refreshed
<1> HIDE DEF name, at
<1>3. s \in Row /\ s.absorbed = r.absorbed
  BY <1>1, SyncIsRow
<1> HIDE DEF s
<1> QED
  BY <1>2, <1>3 DEF Row

LEMMA RefreshOnce ==
  ASSUME CountedInv, NEW a \in Alerts, NEW i \in Owned(a),
         ~IsSms(a), message[a].role # "completion", RefreshRow(a, i)
  PROVE  CountedInv'
<1>1. i \in DOMAIN rows /\ rows[i].email = a /\ a \in rows[i].absorbed /\ InLedger(a)
  BY OwnerInLedger DEF CountedInv, Owned, SlotOwner, IsSms
<1>2. IInv'
  BY <1>1, RefreshKeeps DEF CountedInv
<1>3. CASE Leave(a, "duplicate", None)
  BY <1>3, LeaveOnce DEF Statuses
<1> DEFINE new == Refreshed(rows[i], message[a])
<1>4. CASE /\ rows' = [rows EXCEPT ![i] = new]
           /\ state' = [state EXCEPT ![a] = "parsed"] /\ UNCHANGED <<message, link>>
  <2>1. new.absorbed = rows[i].absorbed
    BY <1>1, RowInOrder, Said, RefreshedAbsorbs DEF CountedInv, IInv
  <2> HIDE DEF new
  <2>2. state'[a] = "parsed" /\ \A b \in Alerts : b # a => state'[b] = state[b]
    BY <1>4 DEF CountedInv, IInv, TypeOK
  <2>3. ASSUME InLedger(a)' <=> InLedger(a) \/ a \in new.absorbed
        PROVE  Whereabouts(a)'
    BY <1>1, <1>4, <2>2, <2>3 DEF Whereabouts, IsSms
  <2> QED
    BY <1>1, <1>2, <1>4, <2>1, <2>2, <2>3, ReplaceOnce
<1> QED
  BY <1>3, <1>4 DEF RefreshRow

(* The handlers.                                                             *)
LEMMA MergeTransactionOnce ==
  ASSUME CountedInv, NEW a \in Alerts, MergeTransaction(a),
         ~InLedger(a), message[a].role # "completion"
  PROVE  CountedInv'
<1> DEFINE v == FindMatch(rows, message[a], a)
<1>1. CASE v.act = "match" /\ EnrichRow(a, v.row, a, v.kind)
  <2>1. v.row \in DOMAIN rows /\ ~BalancesDiffer(rows[v.row], message[a])
    BY <1>1, VerdictFits
  <2> HIDE DEF v
  <2> QED
    BY <1>1, <2>1, EnrichOnce
<1>2. CASE OpenRow(a, message[a].channel)
  <2>1. message[a].channel \in {"sms", "email", None}
    BY Said DEF CountedInv, IInv
  <2> QED
    BY <1>2, <2>1, OpenOnce
<1>3. CASE Leave(a, "deferred", None)
  BY <1>3, LeaveOnce DEF Statuses
<1> QED
  BY <1>1, <1>2, <1>3 DEF MergeTransaction

LEMMA CompleteOnce ==
  ASSUME CountedInv, NEW a \in Alerts, message[a].role = "completion", Complete(a)
  PROVE  CountedInv'
<1>0. ~InLedger(a) /\ link[a] \in DOMAIN rows \cup {None}
  BY LinkIsRow DEF CountedInv, Whereabouts
<1>1. CASE Leave(a, "parsed", link[a])
  BY <1>0, <1>1, LeaveOnce DEF Statuses
<1>2. CASE Leave(a, "unpaired", None)
  BY <1>0, <1>2, LeaveOnce DEF Statuses
<1>3. ASSUME NEW i \in CompletionPrimaries(message[a]), StampReference(a, i)
      PROVE  CountedInv'
  BY <1>3, StampOnce DEF CompletionPrimaries
<1> QED
  BY <1>1, <1>2, <1>3 DEF Complete

LEMMA IngestOnce ==
  ASSUME CountedInv, NEW a \in Alerts, Ingest(a), message[a].role = "primary" => ~InLedger(a)
  PROVE  CountedInv'
<1>1. CASE message[a].role = "primary" /\ MergeTransaction(a)
  BY <1>1, MergeTransactionOnce
<1>2. CASE message[a].role = "provisional" /\ Leave(a, "parsed", link[a])
  <2>1. link[a] \in DOMAIN rows \cup {None} /\ Whereabouts(a)
    BY LinkIsRow DEF CountedInv
  <2> QED
    BY <1>2, <2>1, LeaveOnce DEF Statuses, Whereabouts
<1>3. CASE message[a].role = "completion" /\ Complete(a)
  BY <1>3, CompleteOnce
<1> QED
  BY <1>1, <1>2, <1>3 DEF Ingest

LEMMA ParseOnce ==
  ASSUME CountedInv, Replays = {}, NEW a \in Alerts, ParseSms(a)
  PROVE  CountedInv'
<1>1. state[a] = "deferred" /\ ~InLedger(a)
  BY DEF ParseSms, CountedInv, Whereabouts
<1>2. CASE message[a].role = "primary" /\ OpenRow(a, "sms")
  BY <1>1, <1>2, OpenOnce
<1>3. ASSUME message[a].role = "primary", NEW i \in Owned(a)
      PROVE  FALSE
  BY <1>1, <1>3, OwnerInLedger DEF CountedInv
<1>4. CASE Ingest(a)
  BY <1>1, <1>4, IngestOnce
<1> QED
  BY <1>2, <1>3, <1>4 DEF ParseSms

LEMMA AdoptOrOpenOnce ==
  ASSUME CountedInv, NEW a \in Alerts, NEW force, AdoptOrOpen(a, force),
         ~InLedger(a), message[a].role # "completion"
  PROVE  CountedInv'
<1> DEFINE v == FindMatch(rows, message[a], None)
<1>1. CASE v.act = "match" /\ EnrichRow(a, v.row, a, v.kind)
  <2>1. v.row \in DOMAIN rows /\ ~BalancesDiffer(rows[v.row], message[a])
    BY <1>1, VerdictFits
  <2> HIDE DEF v
  <2> QED
    BY <1>1, <2>1, EnrichOnce
<1>2. CASE Leave(a, "deferred", None) \/ Leave(a, "duplicate", None)
  BY <1>2, LeaveOnce DEF Statuses
<1>3. CASE OpenRow(a, None)
  BY <1>3, OpenOnce
<1> QED
  BY <1>1, <1>2, <1>3 DEF AdoptOrOpen

LEMMA ReparseEmailOnce ==
  ASSUME CountedInv, Replays = {}, NEW a \in Alerts, NEW force, ReparseEmail(a, force)
  PROVE  CountedInv'
<1>1. CASE message[a].role = "completion" /\ Complete(a)
  BY <1>1, CompleteOnce
<1>2. ASSUME NEW i \in Owned(a), message[a].role # "completion", ~IsSms(a), RefreshRow(a, i)
      PROVE  CountedInv'
  BY <1>2, RefreshOnce
<1>3. CASE message[a].role # "completion" /\ ~InLedger(a) /\ AdoptOrOpen(a, force)
  BY <1>3, AdoptOrOpenOnce
<1> QED
  BY <1>1, <1>2, <1>3 DEF ReparseEmail

LEMMA DecisionsOnce ==
  ASSUME CountedInv, NEW a \in Alerts, NEW i \in DOMAIN rows, MergeSms(a, i) \/ MergeEmail(a, i)
  PROVE  CountedInv'
<1>1. ~BalancesDiffer(rows[i], message[a])
  BY DEF MergeSms, MergeEmail, QualifiesExplicitly
<1>2. EnrichRow(a, i, None, "standard") \/ EnrichRow(a, i, a, "standard")
  BY DEF MergeSms, MergeEmail
<1>3. ~InLedger(a) /\ message[a].role # "completion"
  BY DEF MergeSms, MergeEmail, Undecided, CountedInv, Whereabouts
<1> QED
  BY <1>1, <1>2, <1>3, EnrichOnce

LEMMA NextOnce ==
  ASSUME Replays = {}, CountedInv, [Next]_vars
  PROVE  CountedInv'
<1>1. CASE UNCHANGED vars
  BY <1>1, NextIInv DEF vars, CountedInv, Disjoint, Whereabouts, InLedger, IsSms
<1>2. ASSUME NEW a \in Alerts, ReceiveSms(a) \/ PollEmail(a)
      PROVE  CountedInv'
  BY <1>2, IngestOnce DEF ReceiveSms, PollEmail, CountedInv, Whereabouts
<1>3. ASSUME NEW a \in Alerts, ReparseSms(a)
      PROVE  CountedInv'
  BY <1>3, IngestOnce DEF ReparseSms, CountedInv, Whereabouts
<1>4. ASSUME NEW a \in Alerts, ParseSms(a) PROVE CountedInv'
  BY <1>4, ParseOnce
<1>5. ASSUME NEW a \in Alerts, NEW force \in BOOLEAN, ReparseEmail(a, force) PROVE CountedInv'
  BY <1>5, ReparseEmailOnce
<1>6. ASSUME NEW a \in Alerts, CreateFromSms(a) PROVE CountedInv'
  BY <1>6, OpenOnce DEF CreateFromSms, Undecided, CountedInv, Whereabouts
<1>7. ASSUME NEW a \in Alerts, SettleSms(a) PROVE CountedInv'
  <2>1. ~InLedger(a)
    BY <1>7 DEF SettleSms, CountedInv, Whereabouts
  <2> QED
    BY <1>7, <2>1, MergeTransactionOnce DEF SettleSms
<1>8. ASSUME NEW a \in Alerts, NEW i \in DOMAIN rows, MergeSms(a, i) \/ MergeEmail(a, i)
      PROVE  CountedInv'
  BY <1>8, DecisionsOnce
<1> QED
  BY <1>1, <1>2, <1>3, <1>4, <1>5, <1>6, <1>7, <1>8 DEF Next

(* As long as no message that a row holds is replayed, every alert of a      *)
(* payment is counted once: in no two rows, in none while it waits for the   *)
(* operator, and in one as soon as it counts as parsed; for any alerts, any  *)
(* contents, any order of arrivals, replays and decisions.                   *)
THEOREM AlertsCountOnce == ASSUME Replays = {}  PROVE  Spec => []AbsorbedOnce
<1>1. Init => CountedInv
  <2> SUFFICES ASSUME Init  PROVE  CountedInv
    OBVIOUS
  <2>1. DOMAIN rows = {} /\ \A a \in Alerts : state[a] = "unseen"
    BY DEF Init
  <2> QED
    BY <2>1, InitIInv DEF CountedInv, Disjoint, Whereabouts, InLedger
<1>2. CountedInv /\ [Next]_vars => CountedInv'
  BY NextOnce
<1>3. CountedInv => AbsorbedOnce
  BY DEF CountedInv, Disjoint, Whereabouts, AbsorbedOnce
<1> QED
  BY <1>1, <1>2, <1>3, PTL DEF Spec

-----------------------------------------------------------------------------
(* What allows a row to take an alert of a channel that it has one of.       *)

Proven(i, a) ==
  \/ SlotOwner(rows[i], message[a].channel) \in {None, a}
  \/ message[a].balance # None /\ rows[i].balance = message[a].balance
  \/ SameOrShortRef(rows[i].ref, message[a].ref)
  \/ rows[i].at # None /\ message[a].at # None /\ ~Within(rows[i].at, message[a].at, Window)
       /\ rows[i].type \in Ambiguous12h

(* In this step a row takes an alert. *)
Takes(i, a) == i \in DOMAIN rows /\ a \in rows'[i].absorbed \ rows[i].absorbed

(* The times of rows and alerts are minutes, or missing. *)
LEMMA Minutes ==
  ASSUME IInv, NEW a \in Alerts, NEW i \in DOMAIN rows
  PROVE  message[a].at \in Int \cup {None} /\ rows[i].at \in Int \cup {None}
<1>1. message[a] \in Contents /\ rows[i].at \in OrNone(Stated("at"))
  BY Said, RowInOrder DEF IInv, Row
<1> QED
  BY <1>1, IngestAssumption DEF Stated, OrNone

LEMMA BalanceProves ==
  ASSUME NEW a \in Alerts, NEW C \in SUBSET DOMAIN rows, message[a].balance # None,
         DecideByBalance(rows, message[a], C).act = "match"
  PROVE  Proven(DecideByBalance(rows, message[a], C).row, a)
<1> DEFINE msg == message[a]
           left == {i \in C : ~BalancesDiffer(rows[i], msg)}
           equal == {i \in left : rows[i].balance = msg.balance}
           one == CHOOSE i \in equal : TRUE
           verdict == CASE left = {} -> Insert
                        [] Cardinality(equal) = 1 -> Match(one, "standard")
                        [] OTHER -> Defer("ambiguous", left)
<1>1. DecideByBalance(rows, msg, C) = verdict
  BY DEF DecideByBalance
<1>2. Cardinality(equal) = 1 => one \in equal
  BY ChooseOne
<1>3. \A i \in equal : rows[i].balance = msg.balance
  OBVIOUS
<1>4. \/ verdict = Insert \/ verdict = Defer("ambiguous", left)
      \/ Cardinality(equal) = 1 /\ verdict = Match(one, "standard")
  <2> HIDE DEF left, equal, one
  <2> QED
    OBVIOUS
<1>5. verdict.act = "match" /\ msg.balance # None
  BY <1>1
<1>6. rows[verdict.row].balance = msg.balance
  <2> HIDE DEF left, equal, one, verdict, msg
  <2> QED
    BY <1>2, <1>3, <1>4, <1>5, Verdicts
<1> QED
  BY <1>1, <1>5, <1>6 DEF Proven

LEMMA SlotProves ==
  ASSUME NEW a \in Alerts, NEW claimant, NEW C \in SUBSET DOMAIN rows,
         DecideBySlot(rows, message[a], claimant, C).act = "match"
  PROVE  Proven(DecideBySlot(rows, message[a], claimant, C).row, a)
<1> DEFINE msg == message[a]
           own(i) == claimant # None /\ SlotOwner(rows[i], msg.channel) = claimant
           left == {i \in C : own(i) \/ ~ReferencesDistinct(rows[i], msg)}
           clean == {i \in left : rows[i].balance = None /\ SlotOwner(rows[i], msg.channel) = None}
           one == CHOOSE i \in left : TRUE
           verdict == CASE left = {} -> Insert
                        [] Cardinality(left) = 1 /\ clean = left -> Match(one, "standard")
                        [] OTHER -> Defer("ambiguous", left)
<1>1. DecideBySlot(rows, msg, claimant, C) = verdict
  BY DEF DecideBySlot
<1>2. Cardinality(left) = 1 => one \in left
  BY ChooseOne
<1>3. \A i \in clean : SlotOwner(rows[i], msg.channel) = None
  OBVIOUS
<1>4. \/ verdict = Insert \/ verdict = Defer("ambiguous", left)
      \/ Cardinality(left) = 1 /\ clean = left /\ verdict = Match(one, "standard")
  <2> HIDE DEF left, clean, one
  <2> QED
    OBVIOUS
<1>5. verdict.act = "match"
  BY <1>1
<1>6. SlotOwner(rows[verdict.row], msg.channel) = None
  <2> HIDE DEF left, clean, one, verdict, msg
  <2> QED
    BY <1>2, <1>3, <1>4, <1>5, Verdicts
<1> QED
  BY <1>1, <1>6 DEF Proven

(* A time that was stored 12 hours off is outside the window. *)
LEMMA AliasProves ==
  ASSUME IInv, NEW a \in Alerts, MatchAlias(rows, message[a]).act = "match"
  PROVE  Proven(MatchAlias(rows, message[a]).row, a)
<1> DEFINE msg == message[a]
           alias == {i \in AliasCandidates(rows, msg) : ~BalancesDiffer(rows[i], msg)}
           one == CHOOSE i \in alias : TRUE
<1>1. MatchAlias(rows, msg) = IF Cardinality(AliasCandidates(rows, msg)) = 1 /\ alias # {}
                                THEN Match(one, "am_pm_alias") ELSE Insert
  BY DEF MatchAlias
<1>2. alias # {} /\ MatchAlias(rows, msg).row = one
  <2> HIDE DEF alias, one
  <2> QED
    BY <1>1, Verdicts
<1>3. one \in AliasCandidates(rows, msg)
  <2>1. one \in alias
    BY <1>2
  <2> HIDE DEF one
  <2> QED
    BY <2>1
<1> HIDE DEF alias, one
<1>4. PICK i \in DOMAIN rows : i = one
  BY <1>3 DEF AliasCandidates
<1>5. /\ rows[i].type \in Ambiguous12h /\ rows[i].at # None /\ msg.at # None
      /\ \/ /\ msg.at >= HalfDay /\ rows[i].at \in 60..HalfDay - 1
            /\ Within(rows[i].at, msg.at - HalfDay, Window)
         \/ /\ msg.at < HalfDay /\ rows[i].at \in HalfDay..HalfDay + 59
            /\ Within(rows[i].at, msg.at + HalfDay, Window)
  BY <1>3, <1>4 DEF AliasCandidates
<1>6. rows[i].at \in Int /\ msg.at \in Int
  BY <1>5, Minutes
<1>7. ~Within(rows[i].at, msg.at, Window)
  BY <1>5, <1>6 DEF Within, Window, HalfDay
<1> QED
  BY <1>2, <1>4, <1>5, <1>7 DEF Proven

LEMMA MatchProves ==
  ASSUME IInv, NEW a \in Alerts, NEW claimant, FindMatch(rows, message[a], claimant).act = "match"
  PROVE  Proven(FindMatch(rows, message[a], claimant).row, a)
<1> DEFINE msg == message[a]
           byRef == {i \in DOMAIN rows : msg.ref # None /\ rows[i].ref = msg.ref}
           one == CHOOSE i \in byRef : TRUE
           candidates == Gather(rows, msg)
           verdict == FindMatch(rows, msg, claimant)
<1>1. verdict = CASE byRef # {} -> MatchReference(rows, msg, one)
                  [] byRef = {} /\ candidates # {} -> Decide(rows, msg, claimant, candidates)
                  [] OTHER -> MatchAlias(rows, msg)
  BY DEF FindMatch
<1>2. \/ byRef # {} /\ verdict = MatchReference(rows, msg, one)
      \/ verdict = Decide(rows, msg, claimant, candidates)
      \/ verdict = MatchAlias(rows, msg)
  <2> HIDE DEF byRef, one, candidates, verdict
  <2> QED
    BY <1>1
<1>3. CASE byRef # {} /\ verdict = MatchReference(rows, msg, one)
  <2>1. one \in byRef
    BY <1>3
  <2>2. msg.ref # None /\ rows[one].ref = msg.ref
    BY <2>1
  <2>3. verdict = Defer("reference", {}) \/ verdict = Match(one, "standard")
    BY <1>3 DEF MatchReference
  <2>4. verdict.row = one
    BY <2>3, Verdicts
  <2> QED
    BY <2>2, <2>4 DEF Proven, SameOrShortRef
<1>4. CASE verdict = Decide(rows, msg, claimant, candidates)
  <2>1. candidates \in SUBSET DOMAIN rows
    BY GatherRows
  <2> HIDE DEF candidates
  <2>2. \/ msg.balance # None /\ verdict = DecideByBalance(rows, msg, candidates)
        \/ verdict = DecideBySlot(rows, msg, claimant, candidates)
    BY <1>4 DEF Decide
  <2> QED
    BY <2>1, <2>2, BalanceProves, SlotProves
<1>5. CASE verdict = MatchAlias(rows, msg)
  BY <1>5, AliasProves
<1> QED
  BY <1>2, <1>3, <1>4, <1>5

(* Only an enriched row takes an alert, and only the one that enriches it. *)
LEMMA EnrichTakes ==
  ASSUME IInv, NEW a \in Alerts, NEW i \in DOMAIN rows, NEW claimant \in {a, None}, NEW kind,
         ~BalancesDiffer(rows[i], message[a]), EnrichRow(a, i, claimant, kind),
         NEW j, NEW b, Takes(j, b)
  PROVE  j = i /\ b = a
<1> DEFINE e == Enrich(rows[i], message[a], claimant, kind)
           new == [e EXCEPT !.absorbed = @ \cup {a}]
<1>1. e \in Row /\ e.absorbed = rows[i].absorbed
  BY RowInOrder, EnrichIsRow DEF IInv
<1>2. rows' = [rows EXCEPT ![i] = new]
  BY DEF EnrichRow
<1> HIDE DEF e
<1>3. new.absorbed = rows[i].absorbed \cup {a}
  BY <1>1 DEF Row
<1> HIDE DEF new
<1> QED
  BY <1>2, <1>3 DEF Takes, IInv, TypeOK

LEMMA LeaveTakes ==
  ASSUME NEW a, NEW s, NEW r, Leave(a, s, r), NEW j, NEW b
  PROVE  ~Takes(j, b)
BY DEF Leave, Takes

LEMMA OpenTakes ==
  ASSUME IInv, NEW a, NEW source, OpenRow(a, source), NEW j, NEW b
  PROVE  ~Takes(j, b)
<1> DEFINE new == NewRow(message[a], a, source)
<1>1. rows' = Append(rows, new) /\ rows \in Seq(Row)
  BY DEF OpenRow, IInv, TypeOK
<1> HIDE DEF new
<1>2. \A i \in DOMAIN rows : rows'[i] = rows[i]
  BY <1>1
<1> QED
  BY <1>2 DEF Takes

LEMMA StampTakes ==
  ASSUME IInv, NEW a, NEW i \in DOMAIN rows, StampReference(a, i), NEW j, NEW b
  PROVE  ~Takes(j, b)
<1> DEFINE r == rows[i]
           named == message[a].name # None /\ (r.name = None \/ BankReplacesLabel(r, message[a]))
           name == IF named THEN message[a].name ELSE r.name
           label == IF named THEN message[a].label ELSE r.label
           email == IF IsSms(a) THEN r.email ELSE Fill(r.email, a)
           new == [r EXCEPT !.ref = message[a].ref, !.name = name, !.label = label, !.email = email]
<1>1. r \in Row
  BY RowInOrder
<1>2. rows' = [rows EXCEPT ![i] = new]
  BY DEF StampReference, IInv, TypeOK
<1> HIDE DEF name, label, email
<1>3. new.absorbed = r.absorbed
  BY <1>1 DEF Row
<1> HIDE DEF new
<1> QED
  BY <1>2, <1>3 DEF Takes, IInv, TypeOK

LEMMA RefreshTakes ==
  ASSUME IInv, NEW a \in Alerts, NEW i \in DOMAIN rows, RefreshRow(a, i), NEW j, NEW b
  PROVE  ~Takes(j, b)
<1> DEFINE new == Refreshed(rows[i], message[a])
<1>1. new.absorbed = rows[i].absorbed
  BY RowInOrder, Said, RefreshedAbsorbs DEF IInv
<1>2. rows' = [rows EXCEPT ![i] = new] \/ Leave(a, "duplicate", None)
  BY DEF RefreshRow
<1> HIDE DEF new
<1> QED
  BY <1>1, <1>2, LeaveTakes DEF Takes, IInv, TypeOK

(* A verdict of the matcher that is a match, carried out.                    *)
LEMMA MatchedTakes ==
  ASSUME IInv, NEW a \in Alerts, NEW claimant \in {a, None}, NEW j, NEW b, Takes(j, b),
         FindMatch(rows, message[a], claimant).act = "match",
         EnrichRow(a, FindMatch(rows, message[a], claimant).row, a,
                   FindMatch(rows, message[a], claimant).kind)
  PROVE  Proven(j, b)
<1> DEFINE v == FindMatch(rows, message[a], claimant)
<1>1. v.row \in DOMAIN rows /\ ~BalancesDiffer(rows[v.row], message[a]) /\ Proven(v.row, a)
  BY VerdictFits, MatchProves
<1>2. EnrichRow(a, v.row, a, v.kind)
  OBVIOUS
<1> HIDE DEF v
<1>3. j = v.row /\ b = a
  BY <1>1, <1>2, EnrichTakes
<1> QED
  BY <1>1, <1>3

LEMMA MergeTransactionTakes ==
  ASSUME IInv, NEW a \in Alerts, MergeTransaction(a), NEW j, NEW b, Takes(j, b)
  PROVE  Proven(j, b)
BY MatchedTakes, OpenTakes, LeaveTakes DEF MergeTransaction

LEMMA CompleteTakes ==
  ASSUME IInv, NEW a \in Alerts, Complete(a), NEW j, NEW b
  PROVE  ~Takes(j, b)
<1>1. CompletionPrimaries(message[a]) \subseteq DOMAIN rows
  BY DEF CompletionPrimaries
<1>2. \A s, r : Leave(a, s, r) => ~Takes(j, b)
  BY LeaveTakes
<1> QED
  BY <1>1, <1>2, StampTakes DEF Complete

LEMMA IngestTakes ==
  ASSUME IInv, NEW a \in Alerts, Ingest(a), NEW j, NEW b, Takes(j, b)
  PROVE  Proven(j, b)
BY MergeTransactionTakes, CompleteTakes, LeaveTakes DEF Ingest

(* An email that is adopted finds the row's email slot empty.                *)
LEMMA AdoptOrOpenTakes ==
  ASSUME IInv, NEW a \in Alerts, NEW force, AdoptOrOpen(a, force), NEW j, NEW b, Takes(j, b)
  PROVE  Proven(j, b)
<1> DEFINE v == FindMatch(rows, message[a], None)
<1>1. CASE v.act = "match" /\ EnrichRow(a, v.row, a, v.kind)
  BY <1>1, MatchedTakes
<1>2. \A s, r : ~Leave(a, s, r)
  BY LeaveTakes
<1>3. ~OpenRow(a, None)
  BY OpenTakes
<1> QED
  BY <1>1, <1>2, <1>3 DEF AdoptOrOpen

LEMMA ReparseEmailTakes ==
  ASSUME IInv, NEW a \in Alerts, NEW force, ReparseEmail(a, force), NEW j, NEW b, Takes(j, b)
  PROVE  Proven(j, b)
<1>1. \A i \in Owned(a) : ~RefreshRow(a, i)
  BY RefreshTakes DEF Owned
<1> QED
  BY <1>1, CompleteTakes, AdoptOrOpenTakes DEF ReparseEmail

(* The operator's merges: an SMS by the operator's word, an email into a row *)
(* that has none.                                                            *)
LEMMA DecisionsTake ==
  ASSUME IInv, NEW a \in Alerts, NEW i \in DOMAIN rows, MergeSms(a, i) \/ MergeEmail(a, i),
         NEW j, NEW b, Takes(j, b)
  PROVE  Proven(j, b) \/ MergeSms(b, j)
<1>1. ~BalancesDiffer(rows[i], message[a])
  BY DEF MergeSms, MergeEmail, QualifiesExplicitly
<1>2. EnrichRow(a, i, None, "standard") \/ EnrichRow(a, i, a, "standard")
  BY DEF MergeSms, MergeEmail
<1>3. j = i /\ b = a
  BY <1>1, <1>2, EnrichTakes
<1>4. CASE MergeEmail(a, i)
  <2>1. message[a].channel # "sms" /\ rows[i].email = None
    BY <1>4 DEF MergeEmail, IsSms
  <2> QED
    BY <1>3, <2>1 DEF Proven, SlotOwner
<1> QED
  BY <1>3, <1>4

LEMMA ParseTakes ==
  ASSUME IInv, NEW a \in Alerts, ParseSms(a), NEW j, NEW b, Takes(j, b)
  PROVE  Proven(j, b)
<1>1. ~OpenRow(a, "sms")
  BY OpenTakes
<1>2. \A s, r : ~Leave(a, s, r)
  BY LeaveTakes
<1> QED
  BY <1>1, <1>2, IngestTakes DEF ParseSms

LEMMA NextTakes ==
  ASSUME IInv, [Next]_vars, NEW j, NEW b, Takes(j, b)
  PROVE  Proven(j, b) \/ MergeSms(b, j)
<1>1. CASE UNCHANGED vars
  BY <1>1 DEF vars, Takes
<1>2. ASSUME NEW a \in Alerts, ReceiveSms(a) \/ PollEmail(a) \/ ReparseSms(a)
      PROVE  Proven(j, b)
  BY <1>2, IngestTakes DEF ReceiveSms, PollEmail, ReparseSms
<1>3. ASSUME NEW a \in Alerts, ParseSms(a) PROVE Proven(j, b)
  BY <1>3, ParseTakes
<1>4. ASSUME NEW a \in Alerts, NEW force \in BOOLEAN, ReparseEmail(a, force)
      PROVE  Proven(j, b)
  BY <1>4, ReparseEmailTakes
<1>5. ASSUME NEW a \in Alerts, CreateFromSms(a) PROVE FALSE
  BY <1>5, OpenTakes DEF CreateFromSms
<1>6. ASSUME NEW a \in Alerts, SettleSms(a) PROVE Proven(j, b)
  BY <1>6, MergeTransactionTakes DEF SettleSms
<1>7. ASSUME NEW a \in Alerts, NEW i \in DOMAIN rows, MergeSms(a, i) \/ MergeEmail(a, i)
      PROVE  Proven(j, b) \/ MergeSms(b, j)
  BY <1>7, DecisionsTake
<1> QED
  BY <1>1, <1>2, <1>3, <1>4, <1>5, <1>6, <1>7 DEF Next

(* No step lets a row that has an alert of a channel take another one of     *)
(* that channel without proof; for any alerts, contents and replays.         *)
THEOREM DuplicatesAreProved == Spec => DuplicateNeedsProof
<1>1. IInv /\ [Next]_vars =>
        [\A i \in DOMAIN rows : \A a \in rows'[i].absorbed \ rows[i].absorbed :
           Proven(i, a) \/ MergeSms(a, i)]_vars
  BY NextTakes DEF Takes
<1>2. IInv /\ [Next]_vars =>
        [\A i \in DOMAIN rows : \A a \in rows'[i].absorbed \ rows[i].absorbed :
           \/ SlotOwner(rows[i], message[a].channel) \in {None, a}
           \/ message[a].balance # None /\ rows[i].balance = message[a].balance
           \/ SameOrShortRef(rows[i].ref, message[a].ref)
           \/ rows[i].at # None /\ message[a].at # None /\ ~Within(rows[i].at, message[a].at, Window)
                /\ rows[i].type \in Ambiguous12h
           \/ MergeSms(a, i)]_vars
  BY <1>1 DEF Proven
<1> QED
  BY <1>2, InitIInv, NextIInv, PTL DEF Spec, DuplicateNeedsProof
-----------------------------------------------------------------------------
(* Induction on numbers: a set with 0 and with every successor is Nat.       *)
LEMMA Numbers ==
  ASSUME NEW S, S \subseteq Nat, 0 \in S, \A n \in S : n + 1 \in S
  PROVE  S = Nat
<1> DEFINE R == OpToRel(<, Nat)
<1>1. IsWellFoundedOn(R, Nat) /\ \A x, y \in Nat : y < x => <<y, x>> \in R
  BY NatLessThanWellFounded DEF OpToRel
<1> HIDE DEF R
<1>2. SUFFICES ASSUME Nat \ S # {} PROVE FALSE
  OBVIOUS
<1>3. PICK x \in Nat \ S : \A y \in Nat \ S : ~ (<<y, x>> \in R)
  BY <1>1, <1>2, WFMin
<1>4. x # 0
  BY <1>3
<1>5. x - 1 \in Nat /\ x - 1 < x /\ (x - 1) + 1 = x
  BY <1>4
<1>6. x - 1 \in S
  BY <1>1, <1>3, <1>5
<1> QED
  BY <1>3, <1>5, <1>6

(* A table of rows: ids are numbers, below some bound, and never NoRow. *)
Ids(D) == D \subseteq Nat \ {NoRow} /\ \E n \in Nat : \A r \in D : r <= n

(* The id of a new row is the next number, whatever rows went. *)
LEMMA FreshId ==
  ASSUME NEW table, Ids(DOMAIN table)
  PROVE  /\ NewId(table) \in Nat \ {NoRow}
         /\ NewId(table) \notin DOMAIN table
         /\ \A r \in DOMAIN table : r < NewId(table)
         /\ Ids(DOMAIN table \cup {NewId(table)})
<1> DEFINE D == {0} \cup DOMAIN table
           bad == {n \in Nat : \A m \in D : m <= n => \E r \in D : r > n}
<1>0. D \subseteq Nat /\ 0 \in D
  BY DEF Ids, NoRow
<1>1. \E top \in D : \A r \in D : top >= r
  <2>1. SUFFICES ASSUME \A top \in D : \E r \in D : ~(top >= r) PROVE FALSE
    OBVIOUS
  <2> DEFINE S == {n \in Nat : \E r \in D : r >= n}
  <2>2. S \subseteq Nat /\ 0 \in S
    BY <1>0
  <2>3. ASSUME NEW n \in S PROVE n + 1 \in S
    <3>1. PICK r \in D : r >= n
      OBVIOUS
    <3>2. PICK q \in D : ~(r >= q)
      BY <2>1
    <3>3. q >= n + 1 /\ n + 1 \in Nat
      BY <1>0, <3>1, <3>2
    <3> QED
      BY <3>3
  <2> HIDE DEF S
  <2>4. S = Nat
    BY <2>2, <2>3, Numbers
  <2>0. PICK n \in Nat : \A r \in DOMAIN table : r <= n
    BY DEF Ids
  <2>5. \A r \in D : r <= n
    BY <2>0
  <2>6. n + 1 \in S
    BY <2>4
  <2> QED
    BY <1>0, <2>5, <2>6 DEF S
<1>2. Max(D) \in D /\ \A r \in D : Max(D) >= r
  BY <1>1 DEF Max
<1> HIDE DEF D
<1>3. Max(D) \in Nat /\ NewId(table) = Max(D) + 1
  BY <1>0, <1>2 DEF NewId, D
<1>4. \A r \in DOMAIN table : r \in Nat /\ r < NewId(table)
  BY <1>0, <1>2, <1>3 DEF D
<1>5. \A r \in DOMAIN table \cup {NewId(table)} : r <= NewId(table)
  BY <1>3, <1>4
<1> QED
  BY <1>3, <1>4, <1>5 DEF Ids, NoRow

-----------------------------------------------------------------------------
(* Which row a line may take.                                                *)

LEMMA SoleOne ==
  ASSUME NEW S
  PROVE  Sole(S) \in S \cup {NoRow}
<1>1. Cardinality(S) = 1 => S # {}
  BY FS_EmptySet
<1> QED
  BY <1>1 DEF Sole

LEMMA BestOne ==
  ASSUME NEW S, NEW line, NEW table
  PROVE  BestOf(S, line, table) \in S \cup {NoRow}
<1> DEFINE strong == {r \in S : Embedded(line, table[r])}
<1>1. Sole(strong) \in strong \cup {NoRow} /\ Sole(S) \in S \cup {NoRow}
  BY SoleOne
<1>2. BestOf(S, line, table) \in {Sole(strong), Sole(S)}
  BY DEF BestOf
<1> QED
  BY <1>1, <1>2

LEMMA ByDayTakesFree ==
  ASSUME NEW line, NEW table, NEW taken
  PROVE  PickByDay(line, table, taken) \in (DayRows(line, table) \ taken) \cup {NoRow}
<1> DEFINE near == DayRows(line, table) \ taken
           best(day) == BestOf(OnDay(near, day, table), line, table)
<1>1. \A day : best(day) \in OnDay(near, day, table) \cup {NoRow}
  BY BestOne
<1>2. \A day : best(day) \in near \cup {NoRow}
  BY <1>1 DEF OnDay
<1>3. \E day : PickByDay(line, table, taken) \in {NoRow, best(day)}
  BY DEF PickByDay
<1> QED
  BY <1>2, <1>3

-----------------------------------------------------------------------------
(* The two passes, as functions of the lines seen so far.                    *)

LineCount(lines) == Len(lines) \in Nat /\ DOMAIN lines = 1..Len(lines)

IsByReference(f, lines, table, n) ==
  f = [k \in 0..n |-> IF k = 0 THEN <<>> ELSE WonByReference(f[k - 1], lines[k], table)]

LEMMA ByReferenceRecursion ==
  ASSUME NEW lines, NEW table
  PROVE  ByReference(lines, table) = (CHOOSE f : IsByReference(f, lines, table, Len(lines)))[Len(lines)]
BY DEF ByReference, IsByReference

LEMMA ByReferenceExists ==
  ASSUME NEW lines, NEW table
  PROVE  \A n \in Nat : \E f : IsByReference(f, lines, table, n)
<1> DEFINE S == {n \in Nat : \E f : IsByReference(f, lines, table, n)}
<1>1. 0 \in S
  <2>1. IsByReference([k \in 0..0 |-> <<>>], lines, table, 0)
    BY DEF IsByReference
  <2> QED
    BY <2>1
<1>2. ASSUME NEW n \in S PROVE n + 1 \in S
  <2>1. PICK f : IsByReference(f, lines, table, n)
    OBVIOUS
  <2> DEFINE g == [k \in 0..n + 1 |-> IF k = n + 1 THEN WonByReference(f[n], lines[n + 1], table) ELSE f[k]]
  <2>2. n \in Nat /\ \A k \in 0..n : g[k] = f[k]
    OBVIOUS
  <2>3. ASSUME NEW k \in 0..n + 1
        PROVE  g[k] = IF k = 0 THEN <<>> ELSE WonByReference(g[k - 1], lines[k], table)
    <3>1. CASE k = n + 1
      <4>1. k # 0 /\ k - 1 = n /\ g[k - 1] = f[n]
        BY <2>2, <3>1
      <4> QED
        BY <3>1, <4>1
    <3>2. CASE k # n + 1
      <4>1. k \in 0..n /\ (k # 0 => k - 1 \in 0..n)
        BY <3>2
      <4>2. f[k] = IF k = 0 THEN <<>> ELSE WonByReference(f[k - 1], lines[k], table)
        BY <2>1, <4>1 DEF IsByReference
      <4> QED
        BY <2>2, <4>1, <4>2
    <3> QED
      BY <3>1, <3>2
  <2>4. IsByReference(g, lines, table, n + 1)
    BY <2>3 DEF IsByReference
  <2> QED
    BY <2>4
<1> QED
  BY <1>1, <1>2, Numbers

(* Rows won by the first n lines: each within the reach of its line, and none  *)
(* of two lines.                                                             *)
WonSoFar(won, lines, table, n) ==
  /\ won \in Seq(Nat) /\ Len(won) = n
  /\ \A i \in 1..n : won[i] \in Reach(lines[i], table) \cup {NoRow}
  /\ \A i, j \in 1..n : won[i] = won[j] /\ won[i] # NoRow => i = j

LEMMA ReachRows ==
  ASSUME NEW line, NEW table
  PROVE  /\ SameReference(line, table) \subseteq Reach(line, table)
         /\ DayRows(line, table) \subseteq Reach(line, table)
         /\ Reach(line, table) \subseteq CandidateRows(line, table)
         /\ CandidateRows(line, table) \subseteq DOMAIN table
         /\ \A r \in Reach(line, table) :
              table[r].amt = line.amt /\ table[r].dir = line.dir /\ line.amt # Garbled
BY DEF Reach, CandidateRows, SameReference, ReferenceRows, DayRows, Eligible

LEMMA ByReferenceWins ==
  ASSUME NEW lines, LineCount(lines), NEW table, Ids(DOMAIN table)
  PROVE  LET first == ByReference(lines, table)
         IN /\ WonSoFar(first, lines, table, Len(lines))
            /\ \A i \in 1..Len(lines) : first[i] \in SameReference(lines[i], table) \cup {NoRow}
<1> DEFINE len == Len(lines)
<1>1. len \in Nat
  BY DEF LineCount
<1>2. PICK f : IsByReference(f, lines, table, len) /\ ByReference(lines, table) = f[len]
  BY <1>1, ByReferenceRecursion, ByReferenceExists
<1> DEFINE Referenced(won, n) == \A i \in 1..n : won[i] \in SameReference(lines[i], table) \cup {NoRow}
           S == {n \in Nat : n <= len => WonSoFar(f[n], lines, table, n) /\ Referenced(f[n], n)}
<1>3. 0 \in S
  <2>1. f[0] = <<>>
    BY <1>1, <1>2 DEF IsByReference
  <2>2. WonSoFar(<<>>, lines, table, 0) /\ Referenced(<<>>, 0)
    BY DEF WonSoFar
  <2> QED
    BY <2>1, <2>2
<1>4. ASSUME NEW n \in S PROVE n + 1 \in S
  <2>1. SUFFICES ASSUME n + 1 <= len PROVE WonSoFar(f[n + 1], lines, table, n + 1) /\ Referenced(f[n + 1], n + 1)
    OBVIOUS
  <2> DEFINE won == f[n]
             row == Sole(SameReference(lines[n + 1], table) \ Range(won))
  <2>2. n \in Nat /\ WonSoFar(won, lines, table, n) /\ Referenced(won, n)
    BY <1>1, <2>1
  <2>a. n + 1 \in 0..len /\ n + 1 # 0 /\ (n + 1) - 1 = n
    BY <1>1, <2>1, <2>2
  <2>b. f[n + 1] = WonByReference(f[(n + 1) - 1], lines[n + 1], table)
    BY <1>2, <2>a DEF IsByReference
  <2>3. f[n + 1] = Append(won, row)
    BY <2>a, <2>b DEF WonByReference
  <2>4. row \in (SameReference(lines[n + 1], table) \ Range(won)) \cup {NoRow}
    BY SoleOne
  <2>5. row \in Reach(lines[n + 1], table) \cup {NoRow} /\ row \in Nat
    BY <2>4, ReachRows DEF Ids, NoRow
  <2> HIDE DEF row
  <2>6. \A i \in 1..n : won[i] \in Range(won)
    BY <2>2 DEF WonSoFar, Range
  <2> HIDE DEF won
  <2>7. /\ Append(won, row) \in Seq(Nat) /\ Len(Append(won, row)) = n + 1
        /\ \A i \in 1..n : Append(won, row)[i] = won[i]
        /\ Append(won, row)[n + 1] = row
    BY <2>2, <2>5 DEF WonSoFar
  <2>8. \A i \in 1..n : row # NoRow => won[i] # row
    BY <2>4, <2>6
  <2>9. \A i \in 1..n + 1 : i \in 1..n \/ i = n + 1
    BY <2>2
  <2>c. Referenced(f[n + 1], n + 1)
    <3>1. ASSUME NEW i \in 1..n + 1 PROVE f[n + 1][i] \in SameReference(lines[i], table) \cup {NoRow}
      <4>1. CASE i \in 1..n
        BY <2>2, <2>3, <2>7, <4>1
      <4>2. CASE i = n + 1
        BY <2>3, <2>4, <2>7, <4>2
      <4> QED
        BY <2>9, <4>1, <4>2
    <3> QED
      BY <3>1
  <2> HIDE DEF Referenced
  <2> QED
    BY <2>2, <2>3, <2>5, <2>7, <2>8, <2>9, <2>c DEF WonSoFar
<1> HIDE DEF S
<1>5. S = Nat
  <2>1. S \subseteq Nat
    BY DEF S
  <2> QED
    BY <1>3, <1>4, <2>1, Numbers
<1> QED
  BY <1>1, <1>2, <1>5 DEF S

IsByDay(f, lines, table, first, n) ==
  f = [k \in 0..n |-> IF k = 0 THEN first ELSE WonByDay(f[k - 1], k, lines, table)]

LEMMA ByDayRecursion ==
  ASSUME NEW lines, NEW table, NEW first
  PROVE  ByDay(lines, table, first) = (CHOOSE f : IsByDay(f, lines, table, first, Len(lines)))[Len(lines)]
BY DEF ByDay, IsByDay

LEMMA ByDayExists ==
  ASSUME NEW lines, NEW table, NEW first
  PROVE  \A n \in Nat : \E f : IsByDay(f, lines, table, first, n)
<1> DEFINE S == {n \in Nat : \E f : IsByDay(f, lines, table, first, n)}
<1>1. 0 \in S
  <2>1. IsByDay([k \in 0..0 |-> first], lines, table, first, 0)
    BY DEF IsByDay
  <2> QED
    BY <2>1
<1>2. ASSUME NEW n \in S PROVE n + 1 \in S
  <2>1. PICK f : IsByDay(f, lines, table, first, n)
    OBVIOUS
  <2> DEFINE g == [k \in 0..n + 1 |-> IF k = n + 1 THEN WonByDay(f[n], n + 1, lines, table) ELSE f[k]]
  <2>2. n \in Nat /\ \A k \in 0..n : g[k] = f[k]
    OBVIOUS
  <2>3. ASSUME NEW k \in 0..n + 1
        PROVE  g[k] = IF k = 0 THEN first ELSE WonByDay(g[k - 1], k, lines, table)
    <3>1. CASE k = n + 1
      <4>1. k # 0 /\ k - 1 = n /\ g[k - 1] = f[n]
        BY <2>2, <3>1
      <4> QED
        BY <3>1, <4>1
    <3>2. CASE k # n + 1
      <4>1. k \in 0..n /\ (k # 0 => k - 1 \in 0..n)
        BY <3>2
      <4>2. f[k] = IF k = 0 THEN first ELSE WonByDay(f[k - 1], k, lines, table)
        BY <2>1, <4>1 DEF IsByDay
      <4> QED
        BY <2>2, <4>1, <4>2
    <3> QED
      BY <3>1, <3>2
  <2>4. IsByDay(g, lines, table, first, n + 1)
    BY <2>3 DEF IsByDay
  <2> QED
    BY <2>4
<1> QED
  BY <1>1, <1>2, Numbers

LEMMA ByDayWins ==
  ASSUME NEW lines, LineCount(lines), NEW table, Ids(DOMAIN table),
         NEW first, WonSoFar(first, lines, table, Len(lines))
  PROVE  LET won == ByDay(lines, table, first)
         IN /\ WonSoFar(won, lines, table, Len(lines))
            /\ \A i \in 1..Len(lines) : first[i] # NoRow => won[i] = first[i]
<1> DEFINE len == Len(lines)
<1>1. len \in Nat
  BY DEF LineCount
<1>2. PICK f : IsByDay(f, lines, table, first, len) /\ ByDay(lines, table, first) = f[len]
  BY <1>1, ByDayRecursion, ByDayExists
<1> DEFINE Keeps(won) == \A i \in 1..len : first[i] # NoRow => won[i] = first[i]
           S == {n \in Nat : n <= len => WonSoFar(f[n], lines, table, len) /\ Keeps(f[n])}
<1>3. 0 \in S
  <2>1. f[0] = first
    BY <1>1, <1>2 DEF IsByDay
  <2> QED
    BY <2>1
<1>4. ASSUME NEW n \in S PROVE n + 1 \in S
  <2>1. SUFFICES ASSUME n + 1 <= len PROVE WonSoFar(f[n + 1], lines, table, len) /\ Keeps(f[n + 1])
    OBVIOUS
  <2> DEFINE won == f[n]
             row == PickByDay(lines[n + 1], table, Range(won))
  <2>2. n \in Nat /\ WonSoFar(won, lines, table, len) /\ Keeps(won)
    BY <1>1, <2>1
  <2>a. n + 1 \in 0..len /\ n + 1 \in 1..len /\ n + 1 # 0 /\ (n + 1) - 1 = n
    BY <1>1, <2>1, <2>2
  <2>b. f[n + 1] = WonByDay(f[(n + 1) - 1], n + 1, lines, table)
    BY <1>2, <2>a DEF IsByDay
  <2>3. f[n + 1] = IF won[n + 1] # NoRow THEN won ELSE [won EXCEPT ![n + 1] = row]
    BY <2>a, <2>b DEF WonByDay
  <2>4. row \in (DayRows(lines[n + 1], table) \ Range(won)) \cup {NoRow}
    BY ByDayTakesFree
  <2>5. row \in Reach(lines[n + 1], table) \cup {NoRow} /\ row \in Nat
    BY <2>4, ReachRows DEF Ids, NoRow
  <2> HIDE DEF row
  <2>6. \A i \in 1..len : won[i] \in Range(won)
    BY <1>1, <2>2 DEF WonSoFar, Range
  <2> HIDE DEF won
  <2> DEFINE next == [won EXCEPT ![n + 1] = row]
  <2>7. /\ next \in Seq(Nat) /\ Len(next) = len
        /\ \A i \in 1..len : next[i] = IF i = n + 1 THEN row ELSE won[i]
    BY <1>1, <2>2, <2>5, <2>a DEF WonSoFar
  <2>8. \A i \in 1..len : row # NoRow => won[i] # row
    BY <2>4, <2>6
  <2>c. f[n + 1] = IF won[n + 1] # NoRow THEN won ELSE next
    BY <2>3
  <2> HIDE DEF next
  <2>f. won[n + 1] = NoRow => Keeps(next)
    BY <2>2, <2>7
  <2> HIDE DEF Keeps
  <2>d. \A i \in 1..len : next[i] \in Reach(lines[i], table) \cup {NoRow}
    BY <2>2, <2>5, <2>7 DEF WonSoFar
  <2>e. \A i, j \in 1..len : next[i] = next[j] /\ next[i] # NoRow => i = j
    <3>1. \A i, j \in 1..len : won[i] = won[j] /\ won[i] # NoRow => i = j
      BY <2>2 DEF WonSoFar
    <3> QED
      BY <2>7, <2>8, <3>1
  <2>9. WonSoFar(next, lines, table, len)
    BY <2>7, <2>d, <2>e DEF WonSoFar
  <2> QED
    BY <2>2, <2>c, <2>f, <2>9
<1> HIDE DEF S
<1>5. S = Nat
  <2>1. S \subseteq Nat
    BY DEF S
  <2> QED
    BY <1>3, <1>4, <2>1, Numbers
<1> QED
  BY <1>1, <1>2, <1>5 DEF S

(* A statement that meets the ledger: a line's row is within its reach, a row *)
(* has one line, and a line without a row that is not held had none to take. *)
LEMMA ReconcileFits ==
  ASSUME NEW lines, LineCount(lines), NEW table, Ids(DOMAIN table)
  PROVE  LET recon == Reconcile(lines, table)
         IN /\ \A i \in 1..Len(lines) :
                 /\ recon.row[i] \in Reach(lines[i], table) \cup {NoRow}
                 /\ recon.row[i] = NoRow /\ i \notin recon.held => CandidateRows(lines[i], table) = {}
            /\ \A i, j \in 1..Len(lines) :
                 recon.row[i] = recon.row[j] /\ recon.row[i] # NoRow => i = j
<1> DEFINE first == ByReference(lines, table)
           won == ByDay(lines, table, first)
           row == Kept(lines, table, first, won)
           contested == Contested(lines, table, first, won)
           recon == Reconcile(lines, table)
<1>1. WonSoFar(won, lines, table, Len(lines))
  BY ByReferenceWins, ByDayWins
<1>2. /\ recon.row = row
      /\ recon.held = {i \in DOMAIN lines : row[i] = NoRow /\ CandidateRows(lines[i], table) # {}}
  BY DEF Reconcile
<1>3. DOMAIN lines = 1..Len(lines)
  BY DEF LineCount
<1>4. \A i \in 1..Len(lines) : row[i] = NoRow \/ row[i] = won[i]
  BY <1>3 DEF Kept
<1> HIDE DEF won, row, recon
<1>5. \A i \in 1..Len(lines) : row[i] \in Reach(lines[i], table) \cup {NoRow}
  BY <1>1, <1>4 DEF WonSoFar
<1>6. \A i, j \in 1..Len(lines) : row[i] = row[j] /\ row[i] # NoRow => i = j
  BY <1>1, <1>4 DEF WonSoFar
<1> QED
  BY <1>2, <1>3, <1>5, <1>6 DEF recon
-----------------------------------------------------------------------------
(* The import, as a function of the lines recorded so far.                   *)

Table(table) == Ids(DOMAIN table) /\ \A r \in DOMAIN table : DOMAIN table[r] = RowFields

IsImport(f, n) ==
  f = [k \in 0..n |-> IF k = 0 THEN [entries |-> <<>>, ledger |-> ledger] ELSE ImportLine(f[k - 1], k)]

LEMMA ImportRecursion ==
  ImportLines = (CHOOSE f : IsImport(f, Len(sheet)))[Len(sheet)]
BY DEF ImportLines, IsImport

LEMMA ImportExists ==
  \A n \in Nat : \E f : IsImport(f, n)
<1> DEFINE S == {n \in Nat : \E f : IsImport(f, n)}
           start == [entries |-> <<>>, ledger |-> ledger]
<1> HIDE DEF start
<1>0. \A f, n : IsImport(f, n) <=> f = [k \in 0..n |-> IF k = 0 THEN start ELSE ImportLine(f[k - 1], k)]
  BY DEF IsImport, start
<1>1. 0 \in S
  <2> DEFINE f == [k \in 0..0 |-> start]
  <2>1. f = [k \in 0..0 |-> IF k = 0 THEN start ELSE ImportLine(f[k - 1], k)]
    OBVIOUS
  <2> HIDE DEF f
  <2>2. IsImport(f, 0)
    BY <1>0, <2>1
  <2> QED
    BY <2>2
<1>2. ASSUME NEW n \in S PROVE n + 1 \in S
  <2>1. PICK f : IsImport(f, n)
    OBVIOUS
  <2> DEFINE g == [k \in 0..n + 1 |-> IF k = n + 1 THEN ImportLine(f[n], n + 1) ELSE f[k]]
  <2>2. n \in Nat /\ \A k \in 0..n : g[k] = f[k]
    OBVIOUS
  <2>3. ASSUME NEW k \in 0..n + 1
        PROVE  g[k] = IF k = 0 THEN start ELSE ImportLine(g[k - 1], k)
    <3>1. CASE k = n + 1
      <4>1. k # 0 /\ k - 1 = n /\ g[k - 1] = f[n]
        BY <2>2, <3>1
      <4> QED
        BY <3>1, <4>1
    <3>2. CASE k # n + 1
      <4>1. k \in 0..n /\ (k # 0 => k - 1 \in 0..n)
        BY <3>2
      <4>2. f[k] = IF k = 0 THEN start ELSE ImportLine(f[k - 1], k)
        BY <1>0, <2>1, <4>1
      <4> QED
        BY <2>2, <4>1, <4>2
    <3> QED
      BY <3>1, <3>2
  <2>4. IsImport(g, n + 1)
    BY <1>0, <2>3
  <2> QED
    BY <2>4
<1> QED
  BY <1>1, <1>2, Numbers

(* The line i has recorded a row of its own.                                 *)
HasNew(acc, i) ==
  LET r == acc.entries[i].row
  IN /\ job.recon.row[i] = NoRow /\ i \notin job.recon.held /\ sheet[i].amt # Garbled
     /\ r \in DOMAIN acc.ledger \ DOMAIN ledger /\ acc.ledger[r] = Recorded(sheet[i])

(* The ledger after n lines: the rows that were there, and one for each line  *)
(* that recorded one; any other line has the row that it was reconciled to.  *)
ImportedSoFar(acc, n) ==
  /\ acc.entries \in Seq(Entries) /\ Len(acc.entries) = n
  /\ Table(acc.ledger)
  /\ \A r \in DOMAIN ledger : r \in DOMAIN acc.ledger /\ acc.ledger[r] = ledger[r]
  /\ \A i \in 1..n : acc.entries[i].row = job.recon.row[i] \/ HasNew(acc, i)
  /\ \A r \in DOMAIN acc.ledger \ DOMAIN ledger :
       \E i \in 1..n : acc.entries[i].row = r /\ HasNew(acc, i)
  /\ \A i, j \in 1..n :
       HasNew(acc, i) /\ HasNew(acc, j) /\ acc.entries[i].row = acc.entries[j].row => i = j

LEMMA RecordedFields ==
  ASSUME NEW line
  PROVE  /\ DOMAIN Recorded(line) = RowFields
         /\ Recorded(line).day = line.day /\ Recorded(line).amt = line.amt
         /\ Recorded(line).dir = line.dir /\ Recorded(line).ref = line.ref
         /\ Recorded(line).made = "statement" /\ Recorded(line).stmt /\ ~Recorded(line).voided
BY DEF Recorded, RowFields

(* One more line.                                                            *)
LEMMA OneMoreLine ==
  ASSUME NEW n \in Nat, NEW acc, ImportedSoFar(acc, n), job.recon.row[n + 1] \in Nat
  PROVE  ImportedSoFar(ImportLine(acc, n + 1), n + 1)
<1> DEFINE i == n + 1
           line == sheet[i]
           next == ImportLine(acc, i)
           id == NewId(acc.ledger)
           how == IF job.recon.row[i] # NoRow THEN "matched"
                  ELSE IF i \in job.recon.held THEN "held"
                  ELSE IF line.amt = Garbled THEN "unread"
                  ELSE IF Duplicate(line, acc.ledger) THEN "duplicate"
                  ELSE "recorded"
           row == IF how = "recorded" THEN id ELSE job.recon.row[i]
           more == IF how = "recorded" THEN Extended(acc.ledger, row, Recorded(line)) ELSE acc.ledger
<1>1. next.entries = Append(acc.entries, Entry(how, row)) /\ next.ledger = more
  BY DEF ImportLine
<1>2. /\ id \in Nat \ {NoRow} /\ id \notin DOMAIN acc.ledger
      /\ Ids(DOMAIN acc.ledger \cup {id})
  BY FreshId DEF ImportedSoFar, Table
<1>3. how \in Hows /\ row \in Nat
  BY <1>2 DEF Hows
<1>4. Entry(how, row) \in Entries /\ Entry(how, row).row = row
  BY <1>3 DEF Entry, Entries
<1>5. how = "recorded" =>
        job.recon.row[i] = NoRow /\ i \notin job.recon.held /\ line.amt # Garbled /\ row = id
  OBVIOUS
<1>6. how # "recorded" => row = job.recon.row[i] /\ more = acc.ledger
  OBVIOUS
<1>7. how = "recorded" =>
        /\ DOMAIN more = DOMAIN acc.ledger \cup {id}
        /\ \A r \in DOMAIN acc.ledger : more[r] = acc.ledger[r]
        /\ more[id] = Recorded(line)
  BY <1>2 DEF Extended
<1> HIDE DEF next, id, how, row, more
<1>8. /\ next.entries \in Seq(Entries) /\ Len(next.entries) = i
      /\ \A k \in 1..n : next.entries[k] = acc.entries[k]
      /\ next.entries[i].row = row
  BY <1>1, <1>4 DEF ImportedSoFar
<1>9. \A k \in 1..i : k \in 1..n \/ k = i
  OBVIOUS
<1>10. DOMAIN acc.ledger \subseteq DOMAIN more /\ \A r \in DOMAIN acc.ledger : more[r] = acc.ledger[r]
  BY <1>6, <1>7
<1>11. Table(more)
  BY <1>2, <1>6, <1>7, RecordedFields DEF Table, ImportedSoFar
<1>12. \A r \in DOMAIN ledger : r \in DOMAIN more /\ more[r] = ledger[r]
  BY <1>10 DEF ImportedSoFar
<1>13. \A k \in 1..n : HasNew(acc, k) => HasNew(next, k)
  BY <1>1, <1>8, <1>10 DEF HasNew
<1>14. how = "recorded" => HasNew(next, i)
  <2>1. how = "recorded" => id \notin DOMAIN ledger
    BY <1>2 DEF ImportedSoFar
  <2> QED
    BY <1>1, <1>5, <1>7, <1>8, <2>1 DEF HasNew
<1>15. \A k \in 1..i : next.entries[k].row = job.recon.row[k] \/ HasNew(next, k)
  BY <1>6, <1>8, <1>9, <1>13, <1>14 DEF ImportedSoFar
<1>16. ASSUME NEW r \in DOMAIN more \ DOMAIN ledger
       PROVE  \E k \in 1..i : next.entries[k].row = r /\ HasNew(next, k)
  <2>1. CASE r \in DOMAIN acc.ledger
    <3>1. PICK k \in 1..n : acc.entries[k].row = r /\ HasNew(acc, k)
      BY <2>1 DEF ImportedSoFar
    <3>2. k \in 1..i /\ HasNew(next, k)
      BY <1>13, <3>1
    <3>3. next.entries[k].row = r
      BY <1>8, <3>1
    <3> QED
      BY <3>2, <3>3
  <2>2. CASE r \notin DOMAIN acc.ledger
    <3>1. how = "recorded" /\ r = id
      BY <1>6, <1>7, <2>2
    <3> QED
      BY <1>5, <1>8, <1>14, <3>1
  <2> QED
    BY <2>1, <2>2
<1>17. ASSUME NEW k \in 1..n, HasNew(next, k) PROVE HasNew(acc, k) /\ next.entries[k].row \in DOMAIN acc.ledger
  <2>1. acc.entries[k].row # job.recon.row[k]
    <3>1. NoRow \notin DOMAIN more
      BY <1>11 DEF Table, Ids
    <3> QED
      BY <1>1, <1>8, <1>17, <3>1 DEF HasNew
  <2>2. HasNew(acc, k)
    BY <2>1 DEF ImportedSoFar
  <2> QED
    BY <1>8, <2>2 DEF HasNew
<1>18. ASSUME NEW k \in 1..n, HasNew(next, k), HasNew(next, i) PROVE next.entries[k].row # next.entries[i].row
  <2>1. row \notin DOMAIN acc.ledger
    <3>1. CASE how = "recorded"
      BY <1>2, <1>5, <3>1
    <3>2. CASE how # "recorded"
      <4>1. row = NoRow
        BY <1>6, <1>18, <3>2 DEF HasNew
      <4> QED
        BY <4>1 DEF ImportedSoFar, Table, Ids
    <3> QED
      BY <3>1, <3>2
  <2> QED
    BY <1>8, <1>17, <1>18, <2>1
<1>19. \A k, l \in 1..n : HasNew(next, k) /\ HasNew(next, l) /\ next.entries[k].row = next.entries[l].row => k = l
  BY <1>8, <1>17 DEF ImportedSoFar
<1>20. \A k, l \in 1..i : HasNew(next, k) /\ HasNew(next, l) /\ next.entries[k].row = next.entries[l].row => k = l
  BY <1>9, <1>18, <1>19
<1> QED
  BY <1>1, <1>8, <1>11, <1>12, <1>15, <1>16, <1>20 DEF ImportedSoFar, next

LEMMA ImportFits ==
  ASSUME LineCount(sheet), Table(ledger), \A i \in 1..Len(sheet) : job.recon.row[i] \in Nat
  PROVE  ImportedSoFar(ImportLines, Len(sheet))
<1> DEFINE len == Len(sheet)
<1>1. len \in Nat
  BY DEF LineCount
<1>2. PICK f : IsImport(f, len) /\ ImportLines = f[len]
  BY <1>1, ImportRecursion, ImportExists
<1> DEFINE S == {n \in Nat : n <= len => ImportedSoFar(f[n], n)}
<1>3. 0 \in S
  <2> DEFINE start == [entries |-> <<>>, ledger |-> ledger]
  <2>1. f[0] = start
    BY <1>1, <1>2 DEF IsImport
  <2>2. start.entries = <<>> /\ start.ledger = ledger
    OBVIOUS
  <2> HIDE DEF start
  <2>3. ImportedSoFar(start, 0)
    BY <2>2 DEF ImportedSoFar
  <2> QED
    BY <2>1, <2>3
<1>4. ASSUME NEW n \in S PROVE n + 1 \in S
  <2>1. SUFFICES ASSUME n + 1 <= len PROVE ImportedSoFar(f[n + 1], n + 1)
    OBVIOUS
  <2>2. n \in Nat /\ ImportedSoFar(f[n], n)
    BY <1>1, <2>1
  <2>3. n + 1 \in 0..len /\ n + 1 \in 1..len /\ n + 1 # 0 /\ (n + 1) - 1 = n
    BY <1>1, <2>1, <2>2
  <2>4. f[n + 1] = ImportLine(f[(n + 1) - 1], n + 1)
    BY <1>2, <2>3 DEF IsImport
  <2> QED
    BY <2>2, <2>3, <2>4, OneMoreLine
<1> HIDE DEF S
<1>5. S = Nat
  <2>1. S \subseteq Nat
    BY DEF S
  <2> QED
    BY <1>3, <1>4, <2>1, Numbers
<1> QED
  BY <1>1, <1>2, <1>5 DEF S
-----------------------------------------------------------------------------
(* What the repairs preserve.                                                *)

(* A row stands for a line, or is one that went.                             *)
Stands(r, line) ==
  r \notin {NoRow} \cup gone =>
    r \in DOMAIN ledger /\ ledger[r].amt = line.amt /\ ledger[r].dir = line.dir

JobReads ==
  job # Null =>
    /\ "recon" \in DOMAIN job
    /\ \A i \in 1..Len(sheet) : job.recon.row[i] \in Nat /\ Stands(job.recon.row[i], sheet[i])

AlertsOwn ==
  /\ DOMAIN owner = Sources /\ owner = [s \in Sources |-> owner[s]]
  /\ \A s \in Sources : owner[s] # Null =>
       owner[s] \in DOMAIN ledger /\ ~\E t \in Sources \ {s} : owner[t] = owner[s] /\ SlotOf[t] = SlotOf[s]

UploadNames(u) ==
  stored[u] # Null =>
    /\ entries[u] # Null /\ entries[u] \in Seq(Entries)
    /\ \E lines, could : stored[u] = [lines |-> lines, could |-> could]
    /\ \A i \in DOMAIN entries[u] : Stands(entries[u][i].row, stored[u].lines[i])

UploadsName ==
  /\ entries = [u \in Uploads |-> entries[u]] /\ stored = [u \in Uploads |-> stored[u]]
  /\ \A u \in Uploads : UploadNames(u)

RepairInv == LineCount(sheet) /\ Table(ledger) /\ JobReads /\ AlertsOwn /\ UploadsName

LEMMA RepairInvHolds == RepairInv => ReferencesHold
<1> SUFFICES ASSUME RepairInv PROVE ReferencesHold
  OBVIOUS
<1>1. ASSUME NEW u \in Uploads, stored[u] # Null, NEW i \in DOMAIN entries[u], NEW r \in {entries[u][i].row}
      PROVE  r \notin {NoRow} \cup gone =>
               /\ r \in DOMAIN ledger
               /\ ledger[r].amt = stored[u].lines[i].amt /\ ledger[r].dir = stored[u].lines[i].dir
  BY <1>1 DEF RepairInv, UploadsName, UploadNames, Stands
<1> QED
  BY <1>1 DEF RepairInv, AlertsOwn, ReferencesHold

LEMMA RepairInvInit == RepairInit => RepairInv
<1> SUFFICES ASSUME RepairInit PROVE RepairInv
  OBVIOUS
<1>1. LineCount(sheet)
  BY BankAssumption DEF RepairInit, BankInit, LineCount
<1>2. Table(ledger)
  <2>1. DOMAIN ledger = {}
    BY DEF RepairInit, BankInit
  <2> QED
    BY <2>1 DEF Table, Ids
<1>3. JobReads
  BY DEF RepairInit, BankInit, JobReads
<1>4. AlertsOwn
  BY DEF RepairInit, AlertsOwn
<1>5. UploadsName
  BY DEF RepairInit, BankInit, UploadsName, UploadNames
<1> QED
  BY <1>1, <1>2, <1>3, <1>4, <1>5 DEF RepairInv

(* What stands goes on standing while rows that have not gone keep what they  *)
(* say.                                                                      *)
RowsKept ==
  /\ gone \subseteq gone'
  /\ \A r \in DOMAIN ledger : r \in gone' \/ (/\ r \in DOMAIN ledger'
                                               /\ ledger'[r].amt = ledger[r].amt
                                               /\ ledger'[r].dir = ledger[r].dir)

LEMMA StandsOn ==
  ASSUME RowsKept, NEW r, NEW line, Stands(r, line)
  PROVE  Stands(r, line)'
BY DEF RowsKept, Stands

(* Actions that touch neither what the handler holds nor what is stored.     *)
LEMMA JobReadsOn ==
  ASSUME JobReads, RowsKept, job' = job, sheet' = sheet
  PROVE  JobReads'
BY StandsOn DEF JobReads

LEMMA UploadsNameOn ==
  ASSUME UploadsName, RowsKept, entries' = entries, stored' = stored
  PROVE  UploadsName'
<1>1. ASSUME NEW u \in Uploads, stored[u] # Null, NEW i \in DOMAIN entries[u]
      PROVE  Stands(entries[u][i].row, stored[u].lines[i])'
  <2>1. Stands(entries[u][i].row, stored[u].lines[i])
    BY <1>1 DEF UploadsName, UploadNames
  <2> DEFINE r == entries[u][i].row
             line == stored[u].lines[i]
  <2> HIDE DEF r, line
  <2>2. Stands(r, line)
    BY <2>1 DEF r, line
  <2>3. r \notin {NoRow} \cup gone' =>
          r \in DOMAIN ledger' /\ ledger'[r].amt = line.amt /\ ledger'[r].dir = line.dir
    BY <2>2 DEF Stands, RowsKept
  <2> QED
    BY <2>3 DEF Stands, r, line
<1> QED
  BY <1>1 DEF UploadsName, UploadNames
(* The actions, one after the other.                                         *)

LEMMA ExtendedRows ==
  ASSUME Table(ledger), NEW row, DOMAIN row = RowFields, ledger' = Extended(ledger, NewId(ledger), row),
         gone' = gone
  PROVE  /\ Table(ledger)' /\ RowsKept
         /\ NewId(ledger) \in DOMAIN ledger' /\ NewId(ledger) \notin DOMAIN ledger
         /\ DOMAIN ledger \subseteq DOMAIN ledger'
<1>1. /\ NewId(ledger) \notin DOMAIN ledger /\ Ids(DOMAIN ledger \cup {NewId(ledger)})
  BY FreshId DEF Table
<1>2. /\ DOMAIN ledger' = DOMAIN ledger \cup {NewId(ledger)}
      /\ \A r \in DOMAIN ledger' : ledger'[r] = IF r = NewId(ledger) THEN row ELSE ledger[r]
  BY DEF Extended
<1>3. Table(ledger)'
  <2>1. Ids(DOMAIN ledger')
    BY <1>1, <1>2
  <2>2. \A r \in DOMAIN ledger' : DOMAIN ledger'[r] = RowFields
    BY <1>2 DEF Table
  <2> QED
    BY <2>1, <2>2 DEF Table, Ids
<1> QED
  BY <1>1, <1>2, <1>3 DEF RowsKept

LEMMA ArriveKeeps ==
  ASSUME RepairInv, NEW s \in Sources, Arrive(s)
  PROVE  RepairInv'
<1>1. /\ ledger' = Extended(ledger, NewId(ledger), PostedBy[s])
      /\ owner[s] = Null /\ owner' = [owner EXCEPT ![s] = NewId(ledger)]
      /\ UNCHANGED <<sheet, entries, job, stored, gone>>
  BY DEF Arrive, Post
<1>2. DOMAIN PostedBy[s] = RowFields
  BY RepairAssumption
<1>3. /\ Table(ledger)' /\ RowsKept
      /\ NewId(ledger) \in DOMAIN ledger' /\ NewId(ledger) \notin DOMAIN ledger
      /\ DOMAIN ledger \subseteq DOMAIN ledger'
  BY <1>1, <1>2, ExtendedRows DEF RepairInv
<1>4. LineCount(sheet)' /\ JobReads' /\ UploadsName'
  BY <1>1, <1>3, JobReadsOn, UploadsNameOn DEF RepairInv, LineCount
<1>5. AlertsOwn'
  <2>1. owner' = [t \in Sources |-> IF t = s THEN NewId(ledger) ELSE owner[t]]
    BY <1>1 DEF RepairInv, AlertsOwn
  <2>2. \A t \in Sources : t # s /\ owner[t] # Null => owner[t] # NewId(ledger)
    BY <1>3 DEF RepairInv, AlertsOwn
  <2>3. \A t \in Sources : owner'[t] # Null => owner'[t] \in DOMAIN ledger'
    BY <1>3, <2>1 DEF RepairInv, AlertsOwn
  <2>4. ASSUME NEW t \in Sources, owner'[t] # Null, NEW o \in Sources \ {t}, owner'[o] = owner'[t], SlotOf[o] = SlotOf[t]
        PROVE  FALSE
    <3>1. t = s \/ o = s
      BY <2>1, <2>4 DEF RepairInv, AlertsOwn
    <3> QED
      BY <2>1, <2>2, <2>4, <3>1
  <2> QED
    BY <2>1, <2>3, <2>4 DEF AlertsOwn
<1> QED
  BY <1>3, <1>4, <1>5 DEF RepairInv

LEMMA BeganKeeps ==
  ASSUME RepairInv, NEW how, NEW u, Began(how, u)
  PROVE  RepairInv'
<1> DEFINE recon == Reconcile(sheet, ledger)
           next == [how |-> how, upload |-> u, recon |-> recon, enriched |-> FALSE,
                    could |-> [i \in Lines |-> CandidateRows(sheet[i], ledger)]]
<1>1. job' = next /\ UNCHANGED <<sheet, ledger, entries, owner, stored, gone>>
  BY DEF Began, repairVars
<1>2. \A i \in 1..Len(sheet) : recon.row[i] \in Reach(sheet[i], ledger) \cup {NoRow}
  BY ReconcileFits DEF RepairInv, Table
<1> HIDE DEF recon
<1>3. "recon" \in DOMAIN next /\ next.recon = recon
  OBVIOUS
<1> HIDE DEF next
<1>4. ASSUME NEW i \in 1..Len(sheet) PROVE recon.row[i] \in Nat /\ Stands(recon.row[i], sheet[i])
  BY <1>2, ReachRows DEF Stands, RepairInv, Table, Ids, NoRow
<1>5. JobReads'
  BY <1>1, <1>3, <1>4 DEF JobReads, Stands
<1> QED
  BY <1>1, <1>5 DEF RepairInv, LineCount, Table, AlertsOwn, UploadsName, UploadNames, Stands

LEMMA EnrichKeepsRows ==
  ASSUME Table(ledger), EnrichMatched
  PROVE  /\ Table(ledger)' /\ DOMAIN ledger' = DOMAIN ledger
         /\ \A r \in DOMAIN ledger : \A f \in RowFields \ {"name", "text"} : ledger'[r][f] = ledger[r][f]
<1> DEFINE line(r) == {i \in Lines : job.recon.row[i] = r}
<1>1. ledger' = [r \in DOMAIN ledger |-> IF line(r) = {} THEN ledger[r]
                    ELSE Enriched(ledger[r], sheet[CHOOSE i \in line(r) : TRUE])]
  BY DEF EnrichMatched
<1> HIDE DEF line
<1>2. ASSUME NEW row, DOMAIN row = RowFields, NEW x
      PROVE  /\ DOMAIN Enriched(row, x) = RowFields
             /\ \A f \in RowFields \ {"name", "text"} : Enriched(row, x)[f] = row[f]
  BY <1>2 DEF Enriched, RowFields
<1>3. DOMAIN ledger' = DOMAIN ledger
  BY <1>1
<1>4. \A r \in DOMAIN ledger : /\ DOMAIN ledger'[r] = RowFields
                               /\ \A f \in RowFields \ {"name", "text"} : ledger'[r][f] = ledger[r][f]
  BY <1>1, <1>2 DEF Table
<1> QED
  BY <1>3, <1>4 DEF Table, Ids

LEMMA EnrichedKeeps ==
  ASSUME RepairInv, EnrichMatched, UNCHANGED repairVars
  PROVE  RepairInv'
<1>1. /\ Table(ledger)' /\ DOMAIN ledger' = DOMAIN ledger
      /\ \A r \in DOMAIN ledger : \A f \in RowFields \ {"name", "text"} : ledger'[r][f] = ledger[r][f]
  BY EnrichKeepsRows DEF RepairInv
<1>2. UNCHANGED <<sheet, entries, owner, stored, gone>> /\ job # Null /\ job' = [job EXCEPT !.enriched = TRUE]
  BY DEF EnrichMatched, repairVars
<1>3. RowsKept
  BY <1>1, <1>2 DEF RowsKept, RowFields
<1>4. JobReads'
  <2>1. "recon" \in DOMAIN job
    BY <1>2 DEF RepairInv, JobReads
  <2>2. "recon" \in DOMAIN job' /\ job'.recon = job.recon
    BY <1>2, <2>1
  <2>3. \A i \in 1..Len(sheet) : job.recon.row[i] \in Nat /\ Stands(job.recon.row[i], sheet[i])'
    BY <1>2, <1>3, StandsOn DEF RepairInv, JobReads
  <2> QED
    BY <1>2, <2>2, <2>3 DEF JobReads, Stands
<1>5. LineCount(sheet)' /\ AlertsOwn' /\ UploadsName'
  BY <1>1, <1>2, <1>3, UploadsNameOn DEF RepairInv, LineCount, AlertsOwn
<1> QED
  BY <1>1, <1>4, <1>5 DEF RepairInv
LEMMA ImportedKeeps ==
  ASSUME RepairInv, Imported
  PROVE  RepairInv'
<1> DEFINE end == ImportLines
           read == [lines |-> sheet, could |-> [i \in Lines |-> IF i \in job.recon.held THEN job.could[i] ELSE {}]]
<1>1. /\ job # Null /\ job' = Null /\ UNCHANGED <<sheet, owner, gone>>
      /\ \/ job.how = "retry" /\ ~Stored(job.upload) /\ UNCHANGED <<ledger, entries>>
         \/ ledger' = end.ledger /\ entries' = [entries EXCEPT ![job.upload] = end.entries]
      /\ stored' = [u \in Uploads |-> IF entries'[u] = entries[u] /\ u # job.upload THEN stored[u]
                                      ELSE IF entries'[u] = Null THEN Null ELSE read]
  BY DEF Imported, Import
<1>2. ImportedSoFar(end, Len(sheet))
  BY <1>1, ImportFits DEF RepairInv, JobReads
<1>3. read.lines = sheet /\ \E l, c : read = [lines |-> l, could |-> c]
  OBVIOUS
<1> HIDE DEF end, read
<1>4. RowsKept /\ Table(ledger)' /\ DOMAIN ledger \subseteq DOMAIN ledger'
  <2>1. CASE ledger' = ledger
    BY <1>1, <2>1 DEF RowsKept, RepairInv, Table
  <2>2. CASE ledger' = end.ledger
    BY <1>1, <1>2, <2>2 DEF RowsKept, ImportedSoFar, Table
  <2> QED
    BY <1>1, <2>1, <2>2
<1>5. LineCount(sheet)' /\ JobReads' /\ AlertsOwn'
  BY <1>1, <1>4 DEF RepairInv, LineCount, JobReads, AlertsOwn
<1>6. entries = [u \in Uploads |-> entries[u]] /\ entries' = [u \in Uploads |-> entries'[u]]
  BY <1>1 DEF RepairInv, UploadsName
<1>7. ASSUME NEW u \in Uploads PROVE UploadNames(u)'
  <2>1. CASE u # job.upload
    <3>1. entries'[u] = entries[u] /\ stored'[u] = stored[u]
      BY <1>1, <1>6, <2>1
    <3>2. ASSUME stored[u] # Null, NEW i \in DOMAIN entries[u]
          PROVE  Stands(entries[u][i].row, stored[u].lines[i])
      BY <3>2 DEF RepairInv, UploadsName, UploadNames
    <3>3. ASSUME stored[u] # Null, NEW i \in DOMAIN entries'[u]
          PROVE  Stands(entries[u][i].row, stored[u].lines[i])'
      <4> DEFINE r == entries[u][i].row
                 line == stored[u].lines[i]
      <4>1. Stands(r, line)
        BY <3>1, <3>2, <3>3
      <4>2. r = entries'[u][i].row /\ line = stored'[u].lines[i]
        BY <3>1
      <4> HIDE DEF r, line
      <4>3. r \notin {NoRow} \cup gone' =>
              r \in DOMAIN ledger' /\ ledger'[r].amt = line.amt /\ ledger'[r].dir = line.dir
        BY <1>4, <4>1 DEF Stands, RowsKept
      <4> QED
        BY <4>2, <4>3 DEF Stands
    <3> QED
      BY <3>1, <3>3 DEF RepairInv, UploadsName, UploadNames
  <2>2. CASE u = job.upload
    <3>1. CASE entries'[u] = Null
      BY <1>1, <2>2, <3>1 DEF UploadNames
    <3>2. CASE entries'[u] # Null
      <4>1. ledger' = end.ledger /\ entries' = [entries EXCEPT ![u] = end.entries]
        BY <1>1, <2>2, <3>2 DEF Stored
      <4>2. entries'[u] = end.entries /\ stored'[u] = read
        BY <1>1, <1>6, <2>2, <3>2, <4>1
      <4>3. DOMAIN end.entries = 1..Len(sheet) /\ end.entries \in Seq(Entries)
        BY <1>2 DEF ImportedSoFar
      <4>4. ASSUME NEW i \in 1..Len(sheet)
            PROVE  LET r == end.entries[i].row
                   IN r \notin {NoRow} \cup gone' => /\ r \in DOMAIN ledger'
                                                     /\ ledger'[r].amt = sheet[i].amt
                                                     /\ ledger'[r].dir = sheet[i].dir
        <5>1. CASE end.entries[i].row = job.recon.row[i]
          BY <1>1, <1>4, <5>1 DEF RepairInv, JobReads, Stands, RowsKept
        <5>2. CASE HasNew(end, i)
          BY <4>1, <5>2, RecordedFields DEF HasNew
        <5> QED
          BY <1>2, <5>1, <5>2 DEF ImportedSoFar
      <4>5. ASSUME NEW i \in DOMAIN entries'[u] PROVE Stands(entries[u][i].row, stored[u].lines[i])'
        BY <1>3, <4>2, <4>3, <4>4 DEF Stands
      <4> QED
        BY <1>3, <3>2, <4>2, <4>3, <4>5 DEF UploadNames
    <3> QED
      BY <3>1, <3>2
  <2> QED
    BY <2>1, <2>2
<1> QED
  BY <1>1, <1>4, <1>5, <1>6, <1>7 DEF RepairInv, UploadsName

LEMMA DeletedKeeps ==
  ASSUME RepairInv, NEW u \in Uploads, Deleted(u)
  PROVE  RepairInv'
<1>1. /\ entries' = [entries EXCEPT ![u] = Null] /\ stored' = [stored EXCEPT ![u] = Null]
      /\ ledger' = [r \in DOMAIN ledger |->
           IF ledger[r].upload = u THEN [ledger[r] EXCEPT !.upload = Null, !.stmt = FALSE] ELSE ledger[r]]
      /\ UNCHANGED <<sheet, job, owner, gone>>
  BY DEF Deleted, Delete
<1>2. DOMAIN ledger' = DOMAIN ledger
  BY <1>1
<1>3. \A r \in DOMAIN ledger :
        DOMAIN ledger'[r] = RowFields /\ ledger'[r].amt = ledger[r].amt /\ ledger'[r].dir = ledger[r].dir
  BY <1>1 DEF RepairInv, Table, RowFields
<1>4. RowsKept /\ Table(ledger)'
  BY <1>1, <1>2, <1>3 DEF RowsKept, RepairInv, Table, Ids
<1>5. JobReads' /\ LineCount(sheet)' /\ AlertsOwn'
  BY <1>1, <1>2, <1>4, JobReadsOn DEF RepairInv, LineCount, AlertsOwn
<1>6. /\ entries' = [v \in Uploads |-> IF v = u THEN Null ELSE entries[v]]
      /\ stored' = [v \in Uploads |-> IF v = u THEN Null ELSE stored[v]]
  BY <1>1 DEF RepairInv, UploadsName
<1>7. ASSUME NEW v \in Uploads PROVE UploadNames(v)'
  <2>1. CASE v = u
    BY <1>6, <2>1 DEF UploadNames
  <2>2. CASE v # u
    <3>1. entries'[v] = entries[v] /\ stored'[v] = stored[v]
      BY <1>6, <2>2
    <3>2. ASSUME stored[v] # Null, NEW i \in DOMAIN entries'[v]
          PROVE  Stands(entries[v][i].row, stored[v].lines[i])'
      <4> DEFINE r == entries[v][i].row
                 line == stored[v].lines[i]
      <4>1. Stands(r, line)
        BY <3>1, <3>2 DEF RepairInv, UploadsName, UploadNames
      <4>2. r = entries'[v][i].row /\ line = stored'[v].lines[i]
        BY <3>1
      <4> HIDE DEF r, line
      <4>3. r \notin {NoRow} \cup gone' =>
              r \in DOMAIN ledger' /\ ledger'[r].amt = line.amt /\ ledger'[r].dir = line.dir
        BY <1>4, <4>1 DEF Stands, RowsKept
      <4> QED
        BY <4>2, <4>3 DEF Stands
    <3> QED
      BY <3>1, <3>2 DEF RepairInv, UploadsName, UploadNames
  <2> QED
    BY <2>1, <2>2
<1> QED
  BY <1>4, <1>5, <1>6, <1>7 DEF RepairInv, UploadsName

LEMMA UpgradeKeeps ==
  ASSUME RepairInv, Upgrade
  PROVE  RepairInv'
<1>1. /\ LineCount(sheet)' /\ job' = Null
      /\ UNCHANGED <<ledger, entries, owner, stored, gone>>
  BY RepairAssumption DEF Upgrade, LineCount
<1>2. RowsKept
  BY <1>1 DEF RowsKept
<1> QED
  BY <1>1, <1>2, UploadsNameOn DEF RepairInv, Table, JobReads, AlertsOwn

LEMMA CheckKeeps ==
  ASSUME RepairInv, NEW r, CheckPhantom(r)
  PROVE  RepairInv'
<1>1. UNCHANGED <<sheet, ledger, entries, job, owner, stored, gone>>
  BY DEF CheckPhantom, bankVars
<1>2. RowsKept
  BY <1>1 DEF RowsKept
<1> QED
  BY <1>1, <1>2, UploadsNameOn, JobReadsOn DEF RepairInv, LineCount, Table, AlertsOwn
(* References that move: what named the row that goes names one that stands   *)
(* for the same lines, or nothing.                                           *)
LEMMA ReferencesMove ==
  ASSUME UploadsName, NEW old, NEW new \in Nat, MoveReferences(old, new), gone \subseteq gone',
         \A r \in DOMAIN ledger \ {old} : r \in DOMAIN ledger' /\ ledger'[r].amt = ledger[r].amt
                                                               /\ ledger'[r].dir = ledger[r].dir,
         old # NoRow,
         \A line : Stands(old, line) => Stands(new, line)'
  PROVE  UploadsName'
<1> DEFINE named(e) == IF e.row # old THEN e
                       ELSE IF new = NoRow THEN Entry("forgotten", NoRow) ELSE [e EXCEPT !.row = new]
           moved(u) == IF entries[u] = Null THEN Null ELSE [i \in DOMAIN entries[u] |-> named(entries[u][i])]
           could(u) == [i \in DOMAIN stored[u].could |->
                          IF old \in stored[u].could[i] THEN (stored[u].could[i] \ {old}) \cup ({new} \ {NoRow})
                          ELSE stored[u].could[i]]
<1>1. /\ entries' = [u \in Uploads |-> moved(u)]
      /\ stored' = [u \in Uploads |-> IF stored[u] = Null THEN Null ELSE [stored[u] EXCEPT !.could = could(u)]]
  BY DEF MoveReferences, Repoint
<1> HIDE DEF could
<1>2. ASSUME NEW e \in Entries
      PROVE  named(e) \in Entries /\ named(e).row = IF e.row = old THEN new ELSE e.row
  BY DEF Entries, Entry, Hows, NoRow
<1>3. ASSUME NEW r, NEW line, r # old, Stands(r, line) PROVE Stands(r, line)'
  BY <1>3 DEF Stands
<1> HIDE DEF named
<1>4. ASSUME NEW u \in Uploads, stored'[u] # Null
      PROVE  /\ entries'[u] # Null /\ entries'[u] \in Seq(Entries)
             /\ \E l, c : stored'[u] = [lines |-> l, could |-> c]
             /\ \A i \in DOMAIN entries'[u] : Stands(entries[u][i].row, stored[u].lines[i])'
  <2>1. stored[u] # Null /\ stored'[u] = [stored[u] EXCEPT !.could = could(u)]
    BY <1>1, <1>4
  <2>2. PICK l, c : stored[u] = [lines |-> l, could |-> c]
    BY <2>1 DEF UploadsName, UploadNames
  <2>3. stored'[u] = [lines |-> l, could |-> could(u)] /\ stored[u].lines = l /\ stored'[u].lines = l
    BY <2>1, <2>2
  <2>4. /\ entries[u] \in Seq(Entries) /\ entries[u] # Null
        /\ \A i \in DOMAIN entries[u] : Stands(entries[u][i].row, l[i])
    BY <2>1, <2>3 DEF UploadsName, UploadNames
  <2>5. entries'[u] = [i \in DOMAIN entries[u] |-> named(entries[u][i])]
    BY <1>1, <2>4
  <2>6. entries'[u] \in Seq(Entries)
    <3>1. DOMAIN entries[u] = 1..Len(entries[u]) /\ Len(entries[u]) \in Nat
          /\ \A i \in DOMAIN entries[u] : entries[u][i] \in Entries
      BY <2>4
    <3>2. \A i \in 1..Len(entries[u]) : named(entries[u][i]) \in Entries
      BY <1>2, <3>1
    <3>3. entries'[u] = [i \in 1..Len(entries[u]) |-> named(entries[u][i])]
      BY <2>5, <3>1
    <3> QED
      BY <3>1, <3>2, <3>3
  <2>7. ASSUME NEW i \in DOMAIN entries'[u] PROVE Stands(entries[u][i].row, stored[u].lines[i])'
    <3>1. i \in DOMAIN entries[u] /\ entries[u][i] \in Entries /\ entries'[u][i] = named(entries[u][i])
      BY <2>4, <2>5
    <3> DEFINE before == entries[u][i].row
               after == entries'[u][i].row
               line == l[i]
    <3>2. after = IF before = old THEN new ELSE before
      BY <1>2, <3>1
    <3>3. Stands(before, line)
      BY <2>4, <3>1
    <3>4. line = stored'[u].lines[i]
      BY <2>3
    <3> HIDE DEF before, after, line
    <3>5. after \notin {NoRow} \cup gone' =>
            after \in DOMAIN ledger' /\ ledger'[after].amt = line.amt /\ ledger'[after].dir = line.dir
      <4>1. CASE before = old
        BY <3>2, <3>3, <4>1 DEF Stands
      <4>2. CASE before # old
        BY <1>3, <3>2, <3>3, <4>2 DEF Stands
      <4> QED
        BY <4>1, <4>2
    <3> QED
      BY <3>4, <3>5 DEF Stands, after
  <2>8. entries'[u] # Null
    BY <2>6, BankAssumption
  <2> QED
    BY <2>3, <2>6, <2>7, <2>8
<1> QED
  BY <1>1, <1>4 DEF UploadsName, UploadNames
LEMMA MergeKeeps ==
  ASSUME RepairInv, NEW keep, NEW dup, NEW lifted, Merge(keep, dup, lifted)
  PROVE  RepairInv'
<1>1. PICK ref :
        /\ Mergeable(keep, dup)
        /\ ledger' = MergedRows(keep, dup, ref)
        /\ MoveReferences(dup, keep)
        /\ owner' = [s \in Sources |-> IF owner[s] = dup THEN keep ELSE owner[s]]
        /\ gone' = gone \cup {r \in {keep} : dup \in gone} \cup {r \in {dup} : job # Null}
        /\ UNCHANGED <<sheet, job>>
  BY DEF Merge
<1>2. /\ keep \in DOMAIN ledger /\ dup \in DOMAIN ledger /\ keep # dup
      /\ ledger[keep].amt = ledger[dup].amt /\ ledger[keep].dir = ledger[dup].dir
      /\ ~\E s \in Owns(keep), t \in Owns(dup) : SlotOf[s] = SlotOf[t]
  BY <1>1 DEF Mergeable, OwnsOther
<1>3. /\ keep \in Nat \ {NoRow} /\ dup \in Nat \ {NoRow}
  BY <1>2 DEF RepairInv, Table, Ids
<1>4. /\ DOMAIN Folded(keep, dup, ref) = RowFields
      /\ Folded(keep, dup, ref).amt = ledger[keep].amt /\ Folded(keep, dup, ref).dir = ledger[keep].dir
  BY <1>2 DEF RepairInv, Table, Folded, RowFields
<1>5. /\ DOMAIN ledger' = DOMAIN ledger \ {dup}
      /\ \A r \in DOMAIN ledger \ {dup} : /\ DOMAIN ledger'[r] = RowFields
                                          /\ ledger'[r].amt = ledger[r].amt /\ ledger'[r].dir = ledger[r].dir
  BY <1>1, <1>4 DEF MergedRows, RepairInv, Table
<1>6. Table(ledger)'
  BY <1>5 DEF RepairInv, Table, Ids
<1>7. JobReads'
  <2>1. CASE job = Null
    BY <1>1, <2>1 DEF JobReads
  <2>2. CASE job # Null
    <3>1. RowsKept
      BY <1>1, <1>5, <2>2 DEF RowsKept
    <3> QED
      BY <1>1, <3>1, JobReadsOn DEF RepairInv
  <2> QED
    BY <2>1, <2>2
<1>8. AlertsOwn'
  <2>1. ASSUME NEW s \in Sources, owner'[s] # Null PROVE owner[s] # Null /\ owner'[s] \in DOMAIN ledger'
    BY <1>1, <1>2, <1>3, <1>5, <2>1, BankAssumption DEF RepairInv, AlertsOwn
  <2>2. ASSUME NEW s \in Sources, owner'[s] # Null, NEW t \in Sources \ {s},
               owner'[t] = owner'[s], SlotOf[t] = SlotOf[s]
        PROVE  FALSE
    <3>1. owner[s] # Null /\ owner[t] # Null
      BY <2>1, <2>2
    <3>2. owner[t] # owner[s]
      BY <2>2, <3>1 DEF RepairInv, AlertsOwn
    <3>3. (owner[s] = keep /\ owner[t] = dup) \/ (owner[s] = dup /\ owner[t] = keep)
      BY <1>1, <2>2, <3>2
    <3> QED
      BY <1>2, <2>2, <3>3 DEF Owns
  <2>3. DOMAIN owner' = Sources /\ owner' = [s \in Sources |-> owner'[s]]
    BY <1>1
  <2> QED
    BY <2>1, <2>2, <2>3 DEF AlertsOwn
<1>9. UploadsName'
  <2>1. ASSUME NEW line, Stands(dup, line) PROVE Stands(keep, line)'
    BY <1>1, <1>2, <1>3, <1>5, <2>1 DEF Stands
  <2>2. gone \subseteq gone'
    BY <1>1
  <2> QED
    BY <1>1, <1>3, <1>5, <2>1, <2>2, ReferencesMove DEF RepairInv
<1>10. LineCount(sheet)'
  BY <1>1 DEF RepairInv, LineCount
<1> QED
  BY <1>6, <1>7, <1>8, <1>9, <1>10 DEF RepairInv

LEMMA DeletePhantomKeeps ==
  ASSUME RepairInv, DeletePhantom
  PROVE  RepairInv'
<1> DEFINE r == check.row
<1>1. UNCHANGED <<sheet, job, owner>>
  BY DEF DeletePhantom
<1>2. CASE UNCHANGED <<ledger, entries, stored, gone>>
  <2>1. RowsKept
    BY <1>2 DEF RowsKept
  <2> QED
    BY <1>1, <1>2, <2>1, UploadsNameOn, JobReadsOn DEF RepairInv, LineCount, Table, AlertsOwn
<1>3. CASE ~UNCHANGED <<ledger, entries, stored, gone>>
  <2>1. /\ r \in DOMAIN ledger /\ Owns(r) = {}
        /\ ledger' = [o \in DOMAIN ledger \ {r} |-> ledger[o]]
        /\ MoveReferences(r, NoRow)
        /\ gone' = gone \cup {o \in {r} : job # Null}
    BY <1>3 DEF DeletePhantom, Unchanged
  <2> HIDE DEF r
  <2>2. DOMAIN ledger' = DOMAIN ledger \ {r} /\ \A o \in DOMAIN ledger \ {r} : ledger'[o] = ledger[o]
    BY <2>1
  <2>3. r \in Nat \ {NoRow}
    BY <2>1 DEF RepairInv, Table, Ids
  <2>4. Table(ledger)'
    BY <2>2 DEF RepairInv, Table, Ids
  <2>5. JobReads'
    <3>1. CASE job = Null
      BY <1>1, <3>1 DEF JobReads
    <3>2. CASE job # Null
      <4>1. RowsKept
        BY <2>1, <2>2, <3>2 DEF RowsKept
      <4> QED
        BY <1>1, <4>1, JobReadsOn DEF RepairInv
    <3> QED
      BY <3>1, <3>2
  <2>6. AlertsOwn'
    BY <1>1, <2>1, <2>2 DEF RepairInv, AlertsOwn, Owns
  <2>7. UploadsName'
    <3>1. \A line : Stands(NoRow, line)'
      BY DEF Stands
    <3>2. gone \subseteq gone' /\ NoRow \in Nat
      BY <2>1 DEF NoRow
    <3> QED
      BY <2>1, <2>2, <2>3, <3>1, <3>2, ReferencesMove DEF RepairInv
  <2> QED
    BY <1>1, <2>4, <2>5, <2>6, <2>7 DEF RepairInv, LineCount
<1> QED
  BY <1>2, <1>3

LEMMA RepairInvStep ==
  ASSUME RepairInv, [RepairNext]_<<bankVars, repairVars>>
  PROVE  RepairInv'
<1>1. CASE UNCHANGED <<bankVars, repairVars>>
  <2>1. UNCHANGED <<sheet, ledger, entries, job, owner, stored, gone>>
    BY <1>1 DEF bankVars, repairVars
  <2>2. RowsKept
    BY <2>1 DEF RowsKept
  <2> QED
    BY <2>1, <2>2, UploadsNameOn, JobReadsOn DEF RepairInv, LineCount, Table, AlertsOwn
<1>2. CASE RepairNext
  <2>1. CASE \E s \in Sources : Arrive(s)
    BY <2>1, ArriveKeeps
  <2>2. CASE \E how \in {"email", "upload", "retry"}, u \in Uploads : Began(how, u)
    BY <2>2, BeganKeeps
  <2>3. CASE EnrichMatched /\ UNCHANGED repairVars
    BY <2>3, EnrichedKeeps
  <2>4. CASE Imported
    BY <2>4, ImportedKeeps
  <2>5. CASE \E u \in Uploads : Deleted(u)
    BY <2>5, DeletedKeeps
  <2>6. CASE Upgrade
    BY <2>6, UpgradeKeeps
  <2>7. CASE \E keep, dup \in DOMAIN ledger, lifted \in BOOLEAN : Merge(keep, dup, lifted)
    BY <2>7, MergeKeeps
  <2>8. CASE \E r \in DOMAIN ledger : CheckPhantom(r)
    BY <2>8, CheckKeeps
  <2>9. CASE DeletePhantom
    BY <2>9, DeletePhantomKeeps
  <2> QED
    BY <1>2, <2>1, <2>2, <2>3, <2>4, <2>5, <2>6, <2>7, <2>8, <2>9 DEF RepairNext
<1> QED
  BY <1>1, <1>2

(* Whatever is merged, deleted, imported, uploaded anew or read by a new parser *)
(* in whatever order: every alert keeps a row, alone in its slot there, and no *)
(* stored reconciliation names a row that is not there or does not agree.    *)
THEOREM ReferencesAlwaysHold == RepairSpec => []ReferencesHold
<1>1. RepairInit => RepairInv
  BY RepairInvInit
<1>2. RepairInv /\ [RepairNext]_<<bankVars, repairVars>> => RepairInv'
  BY RepairInvStep
<1> QED
  BY <1>1, <1>2, RepairInvHolds, PTL DEF RepairSpec
-----------------------------------------------------------------------------
(* Sums over rows and over lines.                                            *)

Numbered(f, n) ==
  n \in Nat /\ DOMAIN f \subseteq 1..n /\ \A k \in DOMAIN f : f[k] \in Int

IsSum(h, f, n) ==
  h = [k \in 0..n |-> IF k = 0 THEN 0 ELSE h[k - 1] + (IF k \in DOMAIN f THEN f[k] ELSE 0)]

LEMMA SumRecursion ==
  ASSUME NEW f
  PROVE  LET last == Max({0} \cup DOMAIN f)
         IN SumOf(f) = (CHOOSE h : IsSum(h, f, last))[last]
BY DEF SumOf, IsSum

LEMMA SumExists ==
  ASSUME NEW f
  PROVE  \A n \in Nat : \E h : IsSum(h, f, n)
<1> DEFINE S == {n \in Nat : \E h : IsSum(h, f, n)}
           at(k) == IF k \in DOMAIN f THEN f[k] ELSE 0
<1>0. \A h, n : IsSum(h, f, n) <=> h = [k \in 0..n |-> IF k = 0 THEN 0 ELSE h[k - 1] + at(k)]
  BY DEF IsSum
<1> HIDE DEF at
<1>1. 0 \in S
  <2> DEFINE h == [k \in 0..0 |-> 0]
  <2>1. h = [k \in 0..0 |-> IF k = 0 THEN 0 ELSE h[k - 1] + at(k)]
    OBVIOUS
  <2> HIDE DEF h
  <2>2. IsSum(h, f, 0)
    BY <1>0, <2>1
  <2> QED
    BY <2>2
<1>2. ASSUME NEW n \in S PROVE n + 1 \in S
  <2>1. PICK h : IsSum(h, f, n)
    OBVIOUS
  <2> DEFINE g == [k \in 0..n + 1 |-> IF k = n + 1 THEN h[n] + at(n + 1) ELSE h[k]]
  <2>2. n \in Nat /\ \A k \in 0..n : g[k] = h[k]
    OBVIOUS
  <2>3. ASSUME NEW k \in 0..n + 1
        PROVE  g[k] = IF k = 0 THEN 0 ELSE g[k - 1] + at(k)
    <3>1. CASE k = n + 1
      <4>1. k # 0 /\ k - 1 = n /\ g[k - 1] = h[n]
        BY <2>2, <3>1
      <4> QED
        BY <3>1, <4>1
    <3>2. CASE k # n + 1
      <4>1. k \in 0..n /\ (k # 0 => k - 1 \in 0..n)
        BY <3>2
      <4>2. h[k] = IF k = 0 THEN 0 ELSE h[k - 1] + at(k)
        BY <1>0, <2>1, <4>1
      <4> QED
        BY <2>2, <4>1, <4>2
    <3> QED
      BY <3>1, <3>2
  <2>4. g = [k \in 0..n + 1 |-> IF k = 0 THEN 0 ELSE g[k - 1] + at(k)]
    BY <2>3
  <2> HIDE DEF g
  <2>5. IsSum(g, f, n + 1)
    BY <1>0, <2>4
  <2> QED
    BY <2>2, <2>5
<1> QED
  BY <1>1, <1>2, Numbers

(* The partial sums are integers that grow by the terms.                     *)
LEMMA SumSteps ==
  ASSUME NEW f, NEW n, Numbered(f, n), NEW h, IsSum(h, f, n)
  PROVE  /\ h[0] = 0
         /\ \A k \in 0..n : h[k] \in Int
         /\ \A k \in 1..n : h[k] = h[k - 1] + (IF k \in DOMAIN f THEN f[k] ELSE 0)
<1> DEFINE at(k) == IF k \in DOMAIN f THEN f[k] ELSE 0
<1>1. n \in Nat /\ \A k : at(k) \in Int
  BY DEF Numbered
<1>2. h[0] = 0 /\ \A k \in 1..n : h[k] = h[k - 1] + at(k)
  <2>1. h = [k \in 0..n |-> IF k = 0 THEN 0 ELSE h[k - 1] + at(k)]
    BY DEF IsSum
  <2> HIDE DEF at
  <2>2. 0 \in 0..n /\ \A k \in 1..n : k \in 0..n /\ k # 0
    BY <1>1
  <2> QED
    BY <2>1, <2>2
<1> HIDE DEF at
<1> DEFINE S == {k \in Nat : k <= n => h[k] \in Int}
<1>3. 0 \in S
  BY <1>2
<1>4. ASSUME NEW k \in S PROVE k + 1 \in S
  <2>1. SUFFICES ASSUME k + 1 <= n PROVE h[k + 1] \in Int
    OBVIOUS
  <2>2. k + 1 \in 1..n /\ (k + 1) - 1 = k /\ h[k] \in Int
    BY <1>1, <2>1
  <2>3. h[k + 1] = h[k] + at(k + 1)
    BY <1>2, <2>2
  <2> QED
    BY <1>1, <2>2, <2>3
<1> HIDE DEF S
<1>5. S = Nat
  <2>1. S \subseteq Nat
    BY DEF S
  <2> QED
    BY <1>3, <1>4, <2>1, Numbers
<1>6. \A k \in 0..n : h[k] \in Int
  BY <1>1, <1>5 DEF S
<1> QED
  BY <1>2, <1>6 DEF at

(* The sum is the partial sum at any number beyond the last term.            *)
LEMMA SumBeyond ==
  ASSUME NEW f, NEW n, Numbered(f, n), NEW h, IsSum(h, f, n)
  PROVE  SumOf(f) = h[n]
<1> DEFINE D == {0} \cup DOMAIN f
           last == Max(D)
<1>1. n \in Nat /\ D \subseteq 0..n
  BY DEF Numbered
<1>2. last \in D /\ \A r \in D : last >= r
  <2>1. \E top \in D : \A r \in D : top >= r
    <3>1. SUFFICES ASSUME \A top \in D : \E r \in D : ~(top >= r) PROVE FALSE
      OBVIOUS
    <3> DEFINE S == {m \in Nat : \E r \in D : r >= m}
    <3>2. S \subseteq Nat /\ 0 \in S
      BY <1>1
    <3>3. ASSUME NEW m \in S PROVE m + 1 \in S
      <4>1. PICK r \in D : r >= m
        OBVIOUS
      <4>2. PICK q \in D : ~(r >= q)
        BY <3>1
      <4>3. q >= m + 1 /\ m + 1 \in Nat
        BY <1>1, <4>1, <4>2
      <4> QED
        BY <4>3
    <3> HIDE DEF S
    <3>4. S = Nat
      BY <3>2, <3>3, Numbers
    <3>5. n + 1 \in S
      BY <1>1, <3>4
    <3> QED
      BY <1>1, <3>5 DEF S
  <2> QED
    BY <2>1 DEF Max
<1> HIDE DEF last, D
<1>3. last \in Nat /\ last <= n
  BY <1>1, <1>2
<1>4. PICK g : IsSum(g, f, last) /\ SumOf(f) = g[last]
  BY <1>3, SumRecursion, SumExists DEF last, D
<1>5. Numbered(f, last)
  BY <1>1, <1>2, <1>3 DEF Numbered, D
<1> DEFINE S == {k \in Nat : k <= n => h[k] = IF k <= last THEN g[k] ELSE g[last]}
<1>6. 0 \in S
  BY <1>3, <1>4, <1>5, SumSteps
<1>7. ASSUME NEW k \in S PROVE k + 1 \in S
  <2>1. SUFFICES ASSUME k + 1 <= n PROVE h[k + 1] = IF k + 1 <= last THEN g[k + 1] ELSE g[last]
    OBVIOUS
  <2>2. k \in Nat /\ k + 1 \in 1..n /\ (k + 1) - 1 = k /\ h[k] = IF k <= last THEN g[k] ELSE g[last]
    BY <1>1, <2>1
  <2>3. h[k + 1] = h[k] + (IF k + 1 \in DOMAIN f THEN f[k + 1] ELSE 0)
    BY <2>2, SumSteps
  <2>4. CASE k + 1 <= last
    <3>1. k + 1 \in 1..last
      BY <1>3, <2>2, <2>4
    <3>2. g[k + 1] = g[k] + (IF k + 1 \in DOMAIN f THEN f[k + 1] ELSE 0)
      BY <1>4, <1>5, <2>2, <3>1, SumSteps
    <3> QED
      BY <1>3, <2>2, <2>3, <2>4, <3>2
  <2>5. CASE ~(k + 1 <= last)
    <3>1. k + 1 \notin DOMAIN f
      BY <1>2, <1>3, <2>2, <2>5 DEF D
    <3>2. last \in 0..last /\ g[last] \in Int
      BY <1>3, <1>4, <1>5, SumSteps
    <3>3. h[k] = g[last]
      BY <1>3, <2>2, <2>5
    <3> QED
      BY <2>3, <2>5, <3>1, <3>2, <3>3
  <2> QED
    BY <2>4, <2>5
<1> HIDE DEF S
<1>8. S = Nat
  <2>1. S \subseteq Nat
    BY DEF S
  <2> QED
    BY <1>6, <1>7, <2>1, Numbers
<1>9. h[n] = IF n <= last THEN g[n] ELSE g[last]
  BY <1>1, <1>8 DEF S
<1> QED
  BY <1>1, <1>3, <1>4, <1>9

(* A sum without one of its terms.                                           *)
LEMMA SumWithout ==
  ASSUME NEW f, NEW n, Numbered(f, n), NEW k \in DOMAIN f
  PROVE  LET g == [r \in DOMAIN f \ {k} |-> f[r]]
         IN Numbered(g, n) /\ SumOf(g) \in Int /\ SumOf(f) = SumOf(g) + f[k]
<1> DEFINE g == [r \in DOMAIN f \ {k} |-> f[r]]
<1>1. Numbered(g, n) /\ DOMAIN g = DOMAIN f \ {k} /\ \A r \in DOMAIN g : g[r] = f[r]
  BY DEF Numbered
<1> HIDE DEF g
<1>2. n \in Nat /\ k \in 1..n /\ f[k] \in Int
  BY DEF Numbered
<1>3. PICK hf : IsSum(hf, f, n)
  BY <1>2, SumExists
<1>4. PICK hg : IsSum(hg, g, n)
  BY <1>2, SumExists
<1>5. SumOf(f) = hf[n] /\ SumOf(g) = hg[n]
  BY <1>1, <1>3, <1>4, SumBeyond
<1>6. /\ hf[0] = 0 /\ hg[0] = 0
      /\ \A m \in 0..n : hf[m] \in Int /\ hg[m] \in Int
      /\ \A m \in 1..n : /\ hf[m] = hf[m - 1] + (IF m \in DOMAIN f THEN f[m] ELSE 0)
                         /\ hg[m] = hg[m - 1] + (IF m \in DOMAIN g THEN g[m] ELSE 0)
  BY <1>1, <1>3, <1>4, SumSteps
<1> DEFINE S == {m \in Nat : m <= n => hf[m] = IF m < k THEN hg[m] ELSE hg[m] + f[k]}
<1>7. 0 \in S
  BY <1>2, <1>6
<1>8. ASSUME NEW m \in S PROVE m + 1 \in S
  <2>1. SUFFICES ASSUME m + 1 <= n PROVE hf[m + 1] = IF m + 1 < k THEN hg[m + 1] ELSE hg[m + 1] + f[k]
    OBVIOUS
  <2>2. m \in Nat /\ m + 1 \in 1..n /\ (m + 1) - 1 = m /\ m \in 0..n
        /\ hf[m] = IF m < k THEN hg[m] ELSE hg[m] + f[k]
    BY <1>2, <2>1
  <2>3. /\ hf[m + 1] = hf[m] + (IF m + 1 \in DOMAIN f THEN f[m + 1] ELSE 0)
        /\ hg[m + 1] = hg[m] + (IF m + 1 \in DOMAIN g THEN g[m + 1] ELSE 0)
        /\ hf[m] \in Int /\ hg[m] \in Int
    BY <1>6, <2>2
  <2>4. CASE m + 1 = k
    <3>1. hf[m + 1] = hg[m] + f[k] /\ hg[m + 1] = hg[m]
      BY <1>1, <1>2, <2>2, <2>3, <2>4
    <3> QED
      BY <1>2, <2>3, <2>4, <3>1
  <2>5. CASE m + 1 # k
    <3> DEFINE x == IF m + 1 \in DOMAIN f THEN f[m + 1] ELSE 0
    <3>1. x = (IF m + 1 \in DOMAIN g THEN g[m + 1] ELSE 0) /\ x \in Int
      BY <1>1, <2>5 DEF Numbered
    <3> HIDE DEF x
    <3>2. hf[m + 1] = hf[m] + x /\ hg[m + 1] = hg[m] + x
      BY <2>3, <3>1 DEF x
    <3> QED
      BY <1>2, <2>2, <2>3, <2>5, <3>1, <3>2
  <2> QED
    BY <2>4, <2>5
<1> HIDE DEF S
<1>9. S = Nat
  <2>1. S \subseteq Nat
    BY DEF S
  <2> QED
    BY <1>7, <1>8, <2>1, Numbers
<1>10. hf[n] = hg[n] + f[k] /\ hg[n] \in Int
  BY <1>2, <1>6, <1>9 DEF S
<1> QED
  BY <1>1, <1>5, <1>10 DEF g

(* Two functions whose values stand in one-to-one correspondence have one sum. *)
LEMMA SumsCorrespond ==
  ASSUME NEW f, NEW n, Numbered(f, n), NEW m \in Nat, NEW g, DOMAIN g = 1..m,
         NEW b, \A i \in 1..m : b[i] \in DOMAIN f /\ f[b[i]] = g[i],
         \A i, j \in 1..m : b[i] = b[j] => i = j,
         \A r \in DOMAIN f : \E i \in 1..m : b[i] = r
  PROVE  SumOf(f) = SumOf(g)
<1>1. Numbered(g, m)
  BY DEF Numbered
<1>2. PICK h : IsSum(h, g, m)
  BY SumExists
<1>3. /\ h[0] = 0 /\ \A k \in 0..m : h[k] \in Int
      /\ \A k \in 1..m : h[k] = h[k - 1] + (IF k \in DOMAIN g THEN g[k] ELSE 0)
  <2>1. h[0] = 0
    BY <1>1, <1>2, SumSteps
  <2>2. \A k \in 0..m : h[k] \in Int
    BY <1>1, <1>2, SumSteps
  <2>3. \A k \in 1..m : h[k] = h[k - 1] + (IF k \in DOMAIN g THEN g[k] ELSE 0)
    BY <1>1, <1>2, SumSteps, ZenonT(30)
  <2> QED
    BY <2>1, <2>2, <2>3
<1> DEFINE Part(e, k) == /\ Numbered(e, n)
                         /\ \A i \in 1..k : b[i] \in DOMAIN e /\ e[b[i]] = g[i]
                         /\ \A r \in DOMAIN e : \E i \in 1..k : b[i] = r
           S == {k \in Nat : k <= m => \A e : Part(e, k) => SumOf(e) = h[k]}
<1>4. 0 \in S
  <2>1. SUFFICES ASSUME NEW e, Part(e, 0) PROVE SumOf(e) = h[0]
    OBVIOUS
  <2>2. DOMAIN e = {}
    <3>1. 1..0 = {}
      OBVIOUS
    <3> QED
      BY <2>1, <3>1
  <2>3. Numbered(e, 0)
    BY <2>2 DEF Numbered
  <2>4. PICK z : IsSum(z, e, 0)
    BY SumExists
  <2>5. SumOf(e) = z[0] /\ z[0] = 0
    BY <2>3, <2>4, SumBeyond, SumSteps
  <2> QED
    BY <1>3, <2>5
<1>5. ASSUME NEW k \in S PROVE k + 1 \in S
  <2> HIDE DEF Part
  <2>1. SUFFICES ASSUME k + 1 <= m, NEW e, Part(e, k + 1) PROVE SumOf(e) = h[k + 1]
    OBVIOUS
  <2>0. k \in Nat /\ (k <= m => \A x : Part(x, k) => SumOf(x) = h[k])
    OBVIOUS
  <2> HIDE DEF S
  <2>2. k \in Nat /\ k <= m /\ k + 1 \in 1..m /\ (k + 1) - 1 = k /\ k + 1 \in 1..(k + 1)
    BY <2>0, <2>1
  <2> DEFINE r == b[k + 1]
             d == [x \in DOMAIN e \ {r} |-> e[x]]
  <2>3. r \in DOMAIN e /\ e[r] = g[k + 1] /\ Numbered(e, n)
    BY <2>1, <2>2 DEF Part
  <2> HIDE DEF r
  <2>4. Numbered(d, n) /\ SumOf(d) \in Int /\ SumOf(e) = SumOf(d) + e[r]
    BY <2>3, SumWithout
  <2>5. \A i \in 1..k : b[i] \in DOMAIN d /\ d[b[i]] = g[i]
    <3>1. \A i \in 1..k : i \in 1..(k + 1) /\ i \in 1..m /\ i # k + 1
      BY <2>2
    <3>2. \A i \in 1..k : b[i] # r
      BY <2>2, <3>1 DEF r
    <3> QED
      BY <2>1, <3>1, <3>2 DEF Part
  <2>6. \A x \in DOMAIN d : \E i \in 1..k : b[i] = x
    <3>1. \A i \in 1..(k + 1) : i \in 1..k \/ i = k + 1
      BY <2>2
    <3> QED
      BY <2>1, <3>1 DEF Part, r
  <2>7. SumOf(d) = h[k]
    <3>1. Part(d, k)
      BY <2>4, <2>5, <2>6 DEF Part
    <3> HIDE DEF d
    <3> QED
      BY <2>0, <2>2, <3>1
  <2>8. h[k + 1] = h[k] + g[k + 1]
    <3>1. k + 1 \in DOMAIN g
      BY <2>2
    <3> QED
      BY <1>3, <2>2, <3>1
  <2> QED
    BY <2>3, <2>4, <2>7, <2>8
<1>6. S = Nat
  <2>1. S \subseteq Nat
    OBVIOUS
  <2> HIDE DEF S
  <2> QED
    BY <1>4, <1>5, <2>1, Numbers
<1>7. Part(f, m)
  OBVIOUS
<1>8. SumOf(f) = h[m]
  <2> HIDE DEF Part
  <2> QED
    BY <1>6, <1>7
<1> QED
  BY <1>1, <1>2, <1>8, SumBeyond
-----------------------------------------------------------------------------
(* Each line counts once: the tally and the rows that a statement records.   *)

(* A row that stands for a line of this account, with the rows of others.    *)
StandsFor(r, line, table) ==
  r \in DOMAIN table /\ table[r].amt = line.amt /\ table[r].dir = line.dir

(* Rows for the first n lines: one each, or none.                            *)
OneEach(row, n, lines, table) ==
  /\ \A i \in 1..n : row[i] \in Nat /\ (row[i] = NoRow \/ StandsFor(row[i], lines[i], table))
  /\ \A i, j \in 1..n : row[i] = row[j] /\ row[i] # NoRow => i = j

Amounts ==
  /\ \A i \in 1..Len(sheet) : sheet[i].day \in Int /\ sheet[i].amt \in Int \cup {Garbled}
  /\ \A r \in DOMAIN ledger : ledger[r].amt \in Int

JobClaims ==
  job # Null => "recon" \in DOMAIN job /\ "upload" \in DOMAIN job /\ "how" \in DOMAIN job
                /\ OneEach(job.recon.row, Len(sheet), sheet, ledger)

Claims(u) ==
  entries[u] # Null =>
    /\ entries[u] \in Seq(Entries) /\ Len(entries[u]) <= Len(sheet)
    /\ OneEach([i \in DOMAIN entries[u] |-> entries[u][i].row], Len(entries[u]), sheet, ledger)

EntriesClaim == entries = [u \in Uploads |-> entries[u]] /\ \A u \in Uploads : Claims(u)

(* The rows that statements recorded, and the line each of them is of.       *)
OfStatements == {r \in DOMAIN ledger : ledger[r].made = "statement"}
IsOf(row, line) ==
  /\ line.amt # Garbled
  /\ row.day = line.day /\ row.amt = line.amt /\ row.dir = line.dir /\ row.ref = line.ref

RowsOfLines ==
  \E w \in [OfStatements -> 1..Len(sheet)] :
    /\ \A r \in OfStatements : IsOf(ledger[r], sheet[w[r]])
    /\ \A r, s \in OfStatements : w[r] = w[s] => r = s

(* The lines that the import under way may record have no row yet.           *)
JobRecordsNew ==
  job # Null => \A i \in 1..Len(sheet) :
    job.recon.row[i] = NoRow /\ i \notin job.recon.held => \A r \in OfStatements : ~IsOf(ledger[r], sheet[i])

(* A row of a statement is one that lines may match, unless it was voided and *)
(* its upload was deleted.                                                   *)
StillMatched ==
  /\ voids \in Nat /\ deletes \in Nat
  /\ voids = 0 => \A r \in OfStatements : ~ledger[r].voided
  /\ deletes = 0 => \A r \in OfStatements : ledger[r].stmt

BankInv ==
  /\ LineCount(sheet) /\ Table(ledger) /\ Amounts /\ JobClaims /\ EntriesClaim /\ StillMatched
  /\ voids = 0 \/ deletes = 0 => RowsOfLines /\ JobRecordsNew

LEMMA TallyHolds == BankInv => CompleteTallies
<1> SUFFICES ASSUME BankInv, NEW u \in Uploads, Stored(u), Len(entries[u]) = Len(sheet),
                    {e.row : e \in Range(entries[u])} = {r \in DOMAIN ledger : InPeriod(r)}
             PROVE  Gap = 0
  BY DEF CompleteTallies
<1> DEFINE len == Len(sheet)
           P == {r \in DOMAIN ledger : InPeriod(r)}
           f == [r \in P |-> Signed(ledger[r])]
           g == [i \in Lines |-> Signed(sheet[i])]
           b == [i \in 1..len |-> entries[u][i].row]
<1>1. len \in Nat /\ Lines = 1..len
  BY DEF BankInv, LineCount, Lines
<1>2. entries[u] \in Seq(Entries) /\ DOMAIN entries[u] = 1..len
      /\ OneEach([i \in DOMAIN entries[u] |-> entries[u][i].row], len, sheet, ledger)
  BY DEF BankInv, EntriesClaim, Claims, Stored
<1>3. OneEach(b, len, sheet, ledger)
  BY <1>2
<1>4. \A i \in 1..len : b[i] \in P
  BY <1>2 DEF Range
<1>5. \A r \in P : \E i \in 1..len : b[i] = r
  <2>1. ASSUME NEW r \in P PROVE \E i \in 1..len : b[i] = r
    <3>1. PICK e \in Range(entries[u]) : e.row = r
      OBVIOUS
    <3>2. PICK i \in DOMAIN entries[u] : entries[u][i] = e
      BY DEF Range
    <3> QED
      BY <1>2, <3>1, <3>2
  <2> QED
    BY <2>1
<1>6. NoRow \notin P /\ \E n \in Nat : \A r \in P : r \in 1..n
  BY DEF BankInv, Table, Ids, NoRow
<1>7. \A i \in 1..len : StandsFor(b[i], sheet[i], ledger)
  BY <1>3, <1>4, <1>6 DEF OneEach
<1>8. \A i, j \in 1..len : b[i] = b[j] => i = j
  BY <1>3, <1>4, <1>6 DEF OneEach
<1> HIDE DEF b, P
<1>9. \A r \in P : r \in DOMAIN ledger /\ ledger[r].amt \in Int
  BY DEF P, BankInv, Amounts
<1>10. \A r \in P : f[r] \in Int
  BY <1>9 DEF Signed
<1>11. \A i \in 1..len : b[i] \in DOMAIN f /\ f[b[i]] = g[i]
  BY <1>1, <1>4, <1>7 DEF StandsFor, Signed
<1>12. PICK n \in Nat : \A r \in P : r \in 1..n
  BY <1>6
<1>13. Numbered(f, n) /\ DOMAIN f = P /\ DOMAIN g = 1..len
  BY <1>1, <1>10, <1>12 DEF Numbered
<1>14. Gap = SumOf(f) - SumOf(g)
  BY DEF Gap, P
<1>15. SumOf(f) \in Int
  <2>1. PICK h : IsSum(h, f, n)
    BY SumExists
  <2> HIDE DEF f
  <2>2. SumOf(f) = h[n]
    BY <1>13, <2>1, SumBeyond
  <2>3. \A k \in 0..n : h[k] \in Int
    BY <1>13, <2>1, SumSteps
  <2> QED
    BY <1>12, <2>2, <2>3
<1> HIDE DEF f, g
<1>16. SumOf(f) = SumOf(g)
  <2>1. \A r \in DOMAIN f : \E i \in 1..len : b[i] = r
    BY <1>5, <1>13
  <2> HIDE DEF len
  <2> QED
    BY <1>1, <1>8, <1>11, <1>13, <2>1, SumsCorrespond
<1> QED
  BY <1>14, <1>15, <1>16

LEMMA OnceHolds == BankInv => RecordedOnce
<1> SUFFICES ASSUME BankInv, voids = 0 \/ deletes = 0
             PROVE  Cardinality(OfStatements) <= Len(sheet)
  BY DEF RecordedOnce, OfStatements
<1>1. Len(sheet) \in Nat
  BY DEF BankInv, LineCount
<1>2. PICK w \in [OfStatements -> 1..Len(sheet)] : \A r, s \in OfStatements : w[r] = w[s] => r = s
  BY DEF BankInv, RowsOfLines
<1>3. IsFiniteSet(1..Len(sheet)) /\ Cardinality(1..Len(sheet)) = Len(sheet)
  <2> DEFINE n == Len(sheet)
  <2> HIDE DEF n
  <2>1. n \in Int /\ 1 \in Int
    BY <1>1 DEF n
  <2>2. IsFiniteSet(1..n) /\ Cardinality(1..n) = IF 1 > n THEN 0 ELSE n - 1 + 1
    BY <2>1, FS_Interval
  <2>3. n \in Nat
    BY <1>1 DEF n
  <2>4. Cardinality(1..n) = n
    BY <2>2, <2>3
  <2> QED
    BY <2>2, <2>4 DEF n
<1>4. w \in Injection(OfStatements, 1..Len(sheet))
  BY <1>2 DEF Injection, IsInjective
<1> QED
  BY <1>3, <1>4, FS_Injection

LEMMA BankInvInit == BankInit => BankInv
<1> SUFFICES ASSUME BankInit PROVE BankInv
  OBVIOUS
<1>1. LineCount(sheet) /\ \A i \in 1..Len(sheet) : sheet[i].day \in Int /\ sheet[i].amt \in Int \cup {Garbled}
  BY BankAssumption DEF BankInit, LineCount
<1>2. DOMAIN ledger = {}
  BY DEF BankInit
<1>3. Table(ledger) /\ Amounts /\ StillMatched
  BY <1>1, <1>2 DEF BankInit, Table, Ids, Amounts, StillMatched, OfStatements
<1>4. RowsOfLines
  <2> DEFINE w == [r \in {} |-> 1]
  <2>1. OfStatements = {} /\ w \in [{} -> 1..Len(sheet)]
    BY <1>2 DEF OfStatements
  <2> QED
    BY <2>1 DEF RowsOfLines
<1>5. JobClaims /\ EntriesClaim /\ JobRecordsNew
  BY DEF BankInit, JobClaims, EntriesClaim, Claims, JobRecordsNew
<1> QED
  BY <1>1, <1>3, <1>4, <1>5 DEF BankInv
(* The steps that leave every row what it says of its line.                  *)
SaysTheSame(row, new) ==
  /\ new.day = row.day /\ new.amt = row.amt /\ new.dir = row.dir
  /\ new.ref = row.ref /\ new.made = row.made

LEMMA OneEachOn ==
  ASSUME NEW row, NEW n, NEW lines, NEW table, NEW new,
         \A r \in DOMAIN table : r \in DOMAIN new /\ SaysTheSame(table[r], new[r]),
         OneEach(row, n, lines, table)
  PROVE  OneEach(row, n, lines, new)
BY DEF OneEach, StandsFor, SaysTheSame

LEMMA ClaimsOn ==
  ASSUME BankInv, sheet' = sheet, job' = job \/ job' = Null,
         \A r \in DOMAIN ledger : r \in DOMAIN ledger' /\ SaysTheSame(ledger[r], ledger'[r])
  PROVE  /\ LineCount(sheet)' /\ JobClaims'
         /\ \A u \in Uploads : entries'[u] = entries[u] => Claims(u)'
<1>1. LineCount(sheet)'
  BY DEF BankInv, LineCount
<1>2. JobClaims'
  <2>1. CASE job' = Null
    BY <2>1 DEF JobClaims
  <2>2. CASE job' = job /\ job # Null
    <3>1. OneEach(job.recon.row, Len(sheet), sheet, ledger')
      BY <2>2, OneEachOn DEF BankInv, JobClaims
    <3> QED
      BY <2>2, <3>1 DEF BankInv, JobClaims
  <2> QED
    BY <2>1, <2>2
<1>3. ASSUME NEW u \in Uploads, entries'[u] = entries[u], entries[u] # Null PROVE Claims(u)'
  <2> DEFINE row == [i \in DOMAIN entries[u] |-> entries[u][i].row]
  <2>1. /\ entries[u] \in Seq(Entries) /\ Len(entries[u]) <= Len(sheet)
        /\ OneEach(row, Len(entries[u]), sheet, ledger)
    BY <1>3 DEF BankInv, EntriesClaim, Claims
  <2>2. row = [i \in DOMAIN entries'[u] |-> entries'[u][i].row]
    BY <1>3
  <2> HIDE DEF row
  <2>3. OneEach(row, Len(entries[u]), sheet, ledger')
    BY <2>1, OneEachOn
  <2> QED
    BY <1>3, <2>1, <2>2, <2>3 DEF Claims
<1> QED
  BY <1>1, <1>2, <1>3 DEF Claims

(* When no row of a statement comes, the rows and the lines still match.     *)
LEMMA RowsOfLinesOn ==
  ASSUME RowsOfLines, JobRecordsNew, sheet' = sheet, OfStatements' = OfStatements,
         \A r \in DOMAIN ledger : r \in DOMAIN ledger' /\ SaysTheSame(ledger[r], ledger'[r]),
         \/ job' = Null
         \/ job # Null /\ job'.recon = job.recon
  PROVE  RowsOfLines' /\ JobRecordsNew'
<1>1. \A r \in OfStatements : \A line : IsOf(ledger'[r], line) <=> IsOf(ledger[r], line)
  BY DEF OfStatements, IsOf, SaysTheSame
<1>2. RowsOfLines'
  BY <1>1 DEF RowsOfLines
<1>3. JobRecordsNew'
  BY <1>1 DEF JobRecordsNew
<1> QED
  BY <1>2, <1>3

LEMMA PostKeeps ==
  ASSUME BankInv, NEW row \in Postings, Post(row)
  PROVE  BankInv'
<1>1. /\ ledger' = Extended(ledger, NewId(ledger), row)
      /\ UNCHANGED <<sheet, entries, job, voids, deletes>>
      /\ DOMAIN row = RowFields /\ row.amt \in Int /\ row.made # "statement"
  BY BankAssumption DEF Post
<1>2. NewId(ledger) \notin DOMAIN ledger /\ Ids(DOMAIN ledger \cup {NewId(ledger)})
  BY FreshId DEF BankInv, Table
<1>3. /\ DOMAIN ledger' = DOMAIN ledger \cup {NewId(ledger)} /\ ledger'[NewId(ledger)] = row
      /\ \A r \in DOMAIN ledger : ledger'[r] = ledger[r]
  BY <1>1, <1>2 DEF Extended
<1>4. Table(ledger') /\ Amounts'
  BY <1>1, <1>2, <1>3 DEF BankInv, Table, Amounts
<1>5. \A r \in DOMAIN ledger : r \in DOMAIN ledger' /\ SaysTheSame(ledger[r], ledger'[r])
  BY <1>3 DEF SaysTheSame
<1>6. OfStatements' = OfStatements
  BY <1>1, <1>3 DEF OfStatements
<1>7. StillMatched'
  BY <1>1, <1>3, <1>6 DEF BankInv, StillMatched, OfStatements
<1>8. LineCount(sheet)' /\ JobClaims' /\ EntriesClaim'
  BY <1>1, <1>5, ClaimsOn DEF BankInv, EntriesClaim
<1>9. voids' = 0 \/ deletes' = 0 => RowsOfLines' /\ JobRecordsNew'
  <2>1. CASE job = Null
    BY <1>1, <1>5, <1>6, <2>1, RowsOfLinesOn DEF BankInv
  <2>2. CASE job # Null
    BY <1>1, <1>5, <1>6, <2>2, RowsOfLinesOn DEF BankInv
  <2> QED
    BY <2>1, <2>2
<1> QED
  BY <1>4, <1>7, <1>8, <1>9 DEF BankInv, Table

LEMMA BeginKeeps ==
  ASSUME BankInv, NEW how, NEW u, Begin(how, u)
  PROVE  BankInv'
<1> DEFINE recon == Reconcile(sheet, ledger)
           next == [how |-> how, upload |-> u, recon |-> recon, enriched |-> FALSE]
<1>1. job' = next /\ UNCHANGED <<sheet, ledger, entries, voids, deletes>>
  BY DEF Begin
<1>2. /\ \A i \in 1..Len(sheet) :
           /\ recon.row[i] \in Reach(sheet[i], ledger) \cup {NoRow}
           /\ recon.row[i] = NoRow /\ i \notin recon.held => CandidateRows(sheet[i], ledger) = {}
      /\ \A i, j \in 1..Len(sheet) : recon.row[i] = recon.row[j] /\ recon.row[i] # NoRow => i = j
  BY ReconcileFits DEF BankInv, Table
<1> HIDE DEF recon
<1>3. next.recon = recon /\ "recon" \in DOMAIN next /\ "upload" \in DOMAIN next /\ "how" \in DOMAIN next
  OBVIOUS
<1> HIDE DEF next
<1>4. OneEach(recon.row, Len(sheet), sheet, ledger)
  <2>1. \A i \in 1..Len(sheet) : recon.row[i] \in Nat /\ (recon.row[i] = NoRow \/ StandsFor(recon.row[i], sheet[i], ledger))
    BY <1>2, ReachRows DEF StandsFor, BankInv, Table, Ids, NoRow
  <2> QED
    BY <1>2, <2>1 DEF OneEach
<1>5. JobClaims'
  BY <1>1, <1>3, <1>4 DEF JobClaims
<1>6. ASSUME voids = 0 \/ deletes = 0, NEW i \in 1..Len(sheet), CandidateRows(sheet[i], ledger) = {},
             NEW r \in OfStatements
      PROVE  ~IsOf(ledger[r], sheet[i])
  <2>1. SUFFICES ASSUME IsOf(ledger[r], sheet[i]) PROVE FALSE
    OBVIOUS
  <2>2. r \in Eligible(ledger)
    BY <1>6 DEF BankInv, StillMatched, Eligible, OfStatements
  <2>3. Compatible(sheet[i], ledger[r])
    BY <2>1 DEF IsOf, Compatible, SameKey
  <2>4. ledger[r].day - sheet[i].day \in -1..1
    BY <2>1 DEF IsOf, BankInv, Amounts
  <2>5. r \in DayRows(sheet[i], ledger)
    BY <2>1, <2>2, <2>3, <2>4 DEF DayRows, IsOf
  <2> QED
    BY <1>6, <2>5 DEF CandidateRows
<1>7. OfStatements' = OfStatements /\ (voids' = 0 \/ deletes' = 0 => voids = 0 \/ deletes = 0)
  BY <1>1 DEF OfStatements
<1>8. voids' = 0 \/ deletes' = 0 => RowsOfLines'
  BY <1>1, <1>7 DEF BankInv, RowsOfLines
<1>9. voids' = 0 \/ deletes' = 0 => JobRecordsNew'
  <2>1. ASSUME voids = 0 \/ deletes = 0, NEW i \in 1..Len(sheet),
               recon.row[i] = NoRow, i \notin recon.held, NEW r \in OfStatements
        PROVE  ~IsOf(ledger[r], sheet[i])
    BY <1>2, <1>6, <2>1
  <2> QED
    BY <1>1, <1>3, <1>7, <2>1 DEF JobRecordsNew
<1> QED
  BY <1>1, <1>5, <1>8, <1>9
  DEF BankInv, LineCount, Table, Amounts, EntriesClaim, Claims, StillMatched, OfStatements

LEMMA StoreLockedKeeps ==
  ASSUME BankInv, NEW u \in Uploads, StoreLocked(u)
  PROVE  BankInv'
<1>1. /\ UNCHANGED <<sheet, ledger, job, voids, deletes>> /\ job = Null
      /\ entries' = [v \in Uploads |-> IF v = u THEN <<>> ELSE entries[v]]
  BY DEF StoreLocked, BankInv, EntriesClaim
<1>2. \A r \in DOMAIN ledger : r \in DOMAIN ledger' /\ SaysTheSame(ledger[r], ledger'[r])
  BY <1>1 DEF SaysTheSame
<1>3. /\ LineCount(sheet)' /\ JobClaims'
      /\ \A v \in Uploads : entries'[v] = entries[v] => Claims(v)'
  BY <1>1, <1>2, ClaimsOn
<1>4. ASSUME NEW v \in Uploads, entries'[v] = <<>> PROVE Claims(v)'
  <2>1. Len(sheet') \in Nat
    BY <1>1 DEF BankInv, LineCount
  <2>2. <<>> \in Seq(Entries) /\ Len(<<>>) = 0
    OBVIOUS
  <2>3. OneEach([i \in DOMAIN entries'[v] |-> entries'[v][i].row], 0, sheet', ledger')
    BY DEF OneEach
  <2> QED
    BY <1>4, <2>1, <2>2, <2>3 DEF Claims
<1>5. EntriesClaim'
  BY <1>1, <1>3, <1>4 DEF EntriesClaim
<1>6. OfStatements' = OfStatements
  BY <1>1 DEF OfStatements
<1>7. voids' = 0 \/ deletes' = 0 => RowsOfLines' /\ JobRecordsNew'
  BY <1>1, <1>2, <1>6, RowsOfLinesOn DEF BankInv
<1> QED
  BY <1>1, <1>3, <1>5, <1>6, <1>7 DEF BankInv, Table, Amounts, StillMatched

(* Enriching a row changes its names only.                                   *)
LEMMA EnrichMatchedKeeps ==
  ASSUME BankInv, EnrichMatched
  PROVE  BankInv'
<1>1. /\ Table(ledger)' /\ DOMAIN ledger' = DOMAIN ledger
      /\ \A r \in DOMAIN ledger : \A f \in RowFields \ {"name", "text"} : ledger'[r][f] = ledger[r][f]
  BY EnrichKeepsRows DEF BankInv
<1>2. UNCHANGED <<sheet, entries, voids, deletes>> /\ job # Null /\ job' = [job EXCEPT !.enriched = TRUE]
  BY DEF EnrichMatched
<1>3. ASSUME NEW r \in DOMAIN ledger
      PROVE  /\ SaysTheSame(ledger[r], ledger'[r])
             /\ ledger'[r].voided = ledger[r].voided /\ ledger'[r].stmt = ledger[r].stmt
  BY <1>1 DEF SaysTheSame, RowFields
<1>4. OfStatements' = OfStatements
  BY <1>1, <1>3 DEF OfStatements, SaysTheSame
<1>5. Amounts' /\ StillMatched'
  BY <1>1, <1>2, <1>3, <1>4 DEF BankInv, Amounts, StillMatched, OfStatements, SaysTheSame
<1>6. /\ "recon" \in DOMAIN job /\ "upload" \in DOMAIN job /\ "how" \in DOMAIN job
      /\ OneEach(job.recon.row, Len(sheet), sheet, ledger')
  BY <1>1, <1>2, <1>3, OneEachOn DEF BankInv, JobClaims
<1>7. /\ "recon" \in DOMAIN job' /\ "upload" \in DOMAIN job' /\ "how" \in DOMAIN job'
      /\ job'.recon = job.recon
  BY <1>2, <1>6
<1>8. JobClaims'
  BY <1>2, <1>6, <1>7 DEF JobClaims
<1>9. LineCount(sheet)' /\ EntriesClaim'
  <2>1. ASSUME NEW u \in Uploads, entries[u] # Null PROVE Claims(u)'
    <3> DEFINE row == [i \in DOMAIN entries[u] |-> entries[u][i].row]
    <3>1. /\ entries[u] \in Seq(Entries) /\ Len(entries[u]) <= Len(sheet)
          /\ OneEach(row, Len(entries[u]), sheet, ledger)
      BY <2>1 DEF BankInv, EntriesClaim, Claims
    <3>2. row = [i \in DOMAIN entries'[u] |-> entries'[u][i].row]
      BY <1>2
    <3> HIDE DEF row
    <3>3. OneEach(row, Len(entries[u]), sheet, ledger')
      BY <1>1, <1>3, <3>1, OneEachOn
    <3> QED
      BY <1>2, <3>1, <3>2, <3>3 DEF Claims
  <2> QED
    BY <1>2, <2>1 DEF BankInv, LineCount, EntriesClaim, Claims
<1>10. voids' = 0 \/ deletes' = 0 => RowsOfLines' /\ JobRecordsNew'
  BY <1>1, <1>2, <1>3, <1>4, <1>7, RowsOfLinesOn DEF BankInv
<1> QED
  BY <1>1, <1>5, <1>8, <1>9, <1>10 DEF BankInv, Table

(* What an import leaves of the rows that were there.                        *)
LEMMA ImportedRows ==
  ASSUME BankInv, job # Null
  PROVE  LET end == ImportLines
         IN /\ ImportedSoFar(end, Len(sheet))
            /\ \A r \in DOMAIN end.ledger : r \notin DOMAIN ledger =>
                 \E i \in 1..Len(sheet) :
                   /\ end.entries[i].row = r /\ HasNew(end, i)
                   /\ IsOf(end.ledger[r], sheet[i]) /\ end.ledger[r].amt \in Int
                   /\ end.ledger[r].made = "statement"
                   /\ end.ledger[r].stmt /\ ~end.ledger[r].voided
<1> DEFINE end == ImportLines
<1>1. ImportedSoFar(end, Len(sheet))
  BY ImportFits DEF BankInv, JobClaims, OneEach
<1> HIDE DEF end
<1>2. ASSUME NEW r \in DOMAIN end.ledger, r \notin DOMAIN ledger
      PROVE  \E i \in 1..Len(sheet) :
               /\ end.entries[i].row = r /\ HasNew(end, i)
               /\ IsOf(end.ledger[r], sheet[i]) /\ end.ledger[r].amt \in Int
               /\ end.ledger[r].made = "statement"
               /\ end.ledger[r].stmt /\ ~end.ledger[r].voided
  <2>1. PICK i \in 1..Len(sheet) : end.entries[i].row = r /\ HasNew(end, i)
    BY <1>1, <1>2 DEF ImportedSoFar
  <2>2. end.ledger[r] = Recorded(sheet[i]) /\ sheet[i].amt # Garbled
    BY <2>1 DEF HasNew
  <2>3. IsOf(end.ledger[r], sheet[i])
    BY <2>2, RecordedFields DEF IsOf
  <2>4. end.ledger[r].amt \in Int
    BY <2>2, RecordedFields DEF BankInv, Amounts
  <2> QED
    BY <2>1, <2>2, <2>3, <2>4, RecordedFields
<1> QED
  BY <1>1, <1>2 DEF end

LEMMA ImportKeeps ==
  ASSUME BankInv, Import
  PROVE  BankInv'
<1> DEFINE end == ImportLines
<1>1. /\ job # Null /\ job' = Null /\ UNCHANGED <<sheet, voids, deletes>>
      /\ \/ UNCHANGED <<ledger, entries>>
         \/ ledger' = end.ledger /\ entries' = [entries EXCEPT ![job.upload] = end.entries]
  BY DEF Import
<1>2. /\ ImportedSoFar(end, Len(sheet))
      /\ \A r \in DOMAIN end.ledger : r \notin DOMAIN ledger =>
           \E i \in 1..Len(sheet) :
             /\ end.entries[i].row = r /\ HasNew(end, i)
             /\ IsOf(end.ledger[r], sheet[i]) /\ end.ledger[r].amt \in Int
             /\ end.ledger[r].made = "statement"
             /\ end.ledger[r].stmt /\ ~end.ledger[r].voided
  BY <1>1, ImportedRows
<1> HIDE DEF end
<1>3. CASE UNCHANGED <<ledger, entries>>
  <2>1. \A r \in DOMAIN ledger : r \in DOMAIN ledger' /\ SaysTheSame(ledger[r], ledger'[r])
    BY <1>3 DEF SaysTheSame
  <2>2. /\ LineCount(sheet)' /\ JobClaims'
        /\ \A v \in Uploads : entries'[v] = entries[v] => Claims(v)'
    BY <1>1, <2>1, ClaimsOn
  <2>3. EntriesClaim'
    BY <1>3, <2>2 DEF BankInv, EntriesClaim
  <2>4. OfStatements' = OfStatements
    BY <1>3 DEF OfStatements
  <2>5. voids' = 0 \/ deletes' = 0 => RowsOfLines' /\ JobRecordsNew'
    BY <1>1, <2>1, <2>4, RowsOfLinesOn DEF BankInv
  <2> QED
    BY <1>1, <1>3, <2>2, <2>3, <2>4, <2>5 DEF BankInv, Table, Amounts, StillMatched
<1>4. CASE ledger' = end.ledger /\ entries' = [entries EXCEPT ![job.upload] = end.entries]
  <2>1. \A r \in DOMAIN ledger : r \in DOMAIN ledger' /\ ledger'[r] = ledger[r]
    BY <1>2, <1>4 DEF ImportedSoFar
  <2>2. \A r \in DOMAIN ledger : r \in DOMAIN ledger' /\ SaysTheSame(ledger[r], ledger'[r])
    BY <2>1 DEF SaysTheSame
  <2>3. Table(ledger)' /\ Amounts'
    BY <1>1, <1>2, <1>4, <2>1 DEF ImportedSoFar, Table, BankInv, Amounts
  <2>4. /\ LineCount(sheet)' /\ JobClaims'
        /\ \A v \in Uploads : entries'[v] = entries[v] => Claims(v)'
    BY <1>1, <2>2, ClaimsOn
  <2>5. ASSUME NEW r \in DOMAIN ledger', r \notin DOMAIN ledger
        PROVE  \E i \in 1..Len(sheet) :
                 /\ end.entries[i].row = r /\ HasNew(end, i) /\ IsOf(ledger'[r], sheet[i])
                 /\ r \in OfStatements' /\ ledger'[r].stmt /\ ~ledger'[r].voided
    BY <1>2, <1>4, <2>5 DEF OfStatements
  <2>6. OfStatements \subseteq OfStatements' /\ \A r \in OfStatements' : r \in OfStatements \/ r \notin DOMAIN ledger
    BY <2>1 DEF OfStatements
  <2>7. StillMatched'
    BY <1>1, <2>1, <2>5, <2>6 DEF BankInv, StillMatched, OfStatements
  <2>8. EntriesClaim'
    <3>1. /\ entries = [v \in Uploads |-> entries[v]]
          /\ entries' = [v \in Uploads |-> IF v = job.upload THEN end.entries ELSE entries[v]]
      BY <1>4 DEF BankInv, EntriesClaim
    <3>2. OneEach([i \in DOMAIN end.entries |-> end.entries[i].row], Len(sheet), sheet, ledger')
      <4> DEFINE b == [i \in 1..Len(sheet) |-> end.entries[i].row]
                 row == job.recon.row
      <4>1. OneEach(row, Len(sheet), sheet, ledger) /\ NoRow \notin DOMAIN ledger' /\ NoRow = 0
        BY <1>1, <2>3 DEF BankInv, JobClaims, Table, Ids, NoRow
      <4>2. end.entries \in Seq(Entries) /\ DOMAIN end.entries = 1..Len(sheet)
        BY <1>2 DEF ImportedSoFar
      <4>3. ASSUME NEW i \in 1..Len(sheet)
            PROVE  \/ b[i] = row[i]
                   \/ HasNew(end, i) /\ b[i] \in DOMAIN ledger' /\ b[i] \notin DOMAIN ledger
        BY <1>2, <1>4 DEF ImportedSoFar, HasNew
      <4>4. ASSUME NEW i \in 1..Len(sheet)
            PROVE  b[i] \in Nat /\ (b[i] = NoRow \/ StandsFor(b[i], sheet[i], ledger'))
        <5>1. CASE b[i] = row[i]
          BY <2>1, <4>1, <5>1 DEF OneEach, StandsFor
        <5>2. CASE HasNew(end, i)
          <6>1. b[i] \in DOMAIN ledger' /\ ledger'[b[i]] = Recorded(sheet[i])
            BY <1>4, <5>2 DEF HasNew
          <6> QED
            BY <2>3, <6>1, RecordedFields DEF StandsFor, Table, Ids
        <5> QED
          BY <4>3, <5>1, <5>2
      <4>5. ASSUME NEW i \in 1..Len(sheet), b[i] = row[i], b[i] # NoRow PROVE b[i] \in DOMAIN ledger
        BY <4>1, <4>5 DEF OneEach, StandsFor
      <4>6. ASSUME NEW i \in 1..Len(sheet), NEW j \in 1..Len(sheet), b[i] = b[j], b[i] # NoRow PROVE i = j
        <5>1. CASE b[i] = row[i] /\ b[j] = row[j]
          BY <4>1, <4>6, <5>1 DEF OneEach
        <5>2. CASE HasNew(end, i) /\ HasNew(end, j)
          BY <1>2, <4>6, <5>2 DEF ImportedSoFar
        <5> HIDE DEF b, row
        <5> QED
          BY <4>3, <4>5, <4>6, <5>1, <5>2
      <4>7. OneEach(b, Len(sheet), sheet, ledger')
        <5> HIDE DEF b
        <5> QED
          BY <4>4, <4>6 DEF OneEach
      <4> QED
        BY <4>2, <4>7
    <3>3. ASSUME NEW v \in Uploads, v = job.upload PROVE Claims(v)'
      <4>1. entries'[v] = end.entries /\ sheet' = sheet
        BY <1>1, <3>1, <3>3
      <4>2. end.entries \in Seq(Entries) /\ Len(end.entries) = Len(sheet) /\ Len(sheet) \in Nat
        BY <1>2 DEF ImportedSoFar, BankInv, LineCount
      <4> QED
        BY <3>2, <4>1, <4>2 DEF Claims
    <3>4. \A v \in Uploads : v # job.upload => Claims(v)'
      BY <2>4, <3>1
    <3> QED
      BY <3>1, <3>3, <3>4 DEF EntriesClaim
  <2>9. ASSUME voids = 0 \/ deletes = 0 PROVE RowsOfLines'
    <3>1. PICK w \in [OfStatements -> 1..Len(sheet)] :
            /\ \A r \in OfStatements : IsOf(ledger[r], sheet[w[r]])
            /\ \A r, s \in OfStatements : w[r] = w[s] => r = s
      BY <2>9 DEF BankInv, RowsOfLines
    <3> DEFINE of(r) == CHOOSE i \in 1..Len(sheet) :
                          end.entries[i].row = r /\ HasNew(end, i) /\ IsOf(ledger'[r], sheet[i])
               new == [r \in OfStatements' |-> IF r \in OfStatements THEN w[r] ELSE of(r)]
    <3>2. ASSUME NEW r \in OfStatements', r \notin OfStatements
          PROVE  /\ of(r) \in 1..Len(sheet) /\ end.entries[of(r)].row = r
                 /\ HasNew(end, of(r)) /\ IsOf(ledger'[r], sheet[of(r)])
      <4>1. r \in DOMAIN ledger' /\ r \notin DOMAIN ledger
        BY <2>6, <3>2 DEF OfStatements
      <4>2. \E i \in 1..Len(sheet) :
              end.entries[i].row = r /\ HasNew(end, i) /\ IsOf(ledger'[r], sheet[i])
        BY <2>5, <4>1
      <4> QED
        BY <4>2
    <3> HIDE DEF of
    <3>3. new \in [OfStatements' -> 1..Len(sheet)]
      BY <3>1, <3>2
    <3>4. ASSUME NEW r \in OfStatements' PROVE IsOf(ledger'[r], sheet[new[r]])
      <4>1. CASE r \in OfStatements
        BY <2>1, <3>1, <4>1 DEF OfStatements
      <4>2. CASE r \notin OfStatements
        BY <3>2, <4>2
      <4> QED
        BY <4>1, <4>2
    <3>5. ASSUME NEW r \in OfStatements, NEW s \in OfStatements', s \notin OfStatements PROVE new[r] # new[s]
      <4>1. job.recon.row[of(s)] = NoRow /\ of(s) \notin job.recon.held /\ of(s) \in 1..Len(sheet)
        BY <3>2, <3>5 DEF HasNew
      <4>2. ~IsOf(ledger[r], sheet[of(s)])
        BY <1>1, <2>9, <4>1 DEF BankInv, JobRecordsNew
      <4>3. new[r] = w[r] /\ new[s] = of(s)
        BY <2>6, <3>5
      <4> QED
        BY <3>1, <4>2, <4>3
    <3>6. ASSUME NEW r \in OfStatements', NEW s \in OfStatements', new[r] = new[s] PROVE r = s
      <4>1. CASE r \in OfStatements /\ s \in OfStatements
        BY <3>1, <3>6, <4>1
      <4>2. CASE r \notin OfStatements /\ s \notin OfStatements
        <5>1. of(r) = of(s)
          BY <3>6, <4>2
        <5> QED
          BY <3>2, <4>2, <5>1
      <4> QED
        BY <3>5, <3>6, <4>1, <4>2
    <3> HIDE DEF new
    <3>7. \A r, s \in OfStatements' : new[r] = new[s] => r = s
      BY <3>6
    <3> QED
      BY <1>1, <3>3, <3>4, <3>7 DEF RowsOfLines
  <2>10. JobRecordsNew'
    BY <1>1 DEF JobRecordsNew
  <2> QED
    BY <1>1, <2>3, <2>4, <2>7, <2>8, <2>9, <2>10 DEF BankInv, Table
<1> QED
  BY <1>1, <1>3, <1>4

(* A deleted upload takes its link and its entries, not its rows.            *)
LEMMA DeleteKeeps ==
  ASSUME BankInv, NEW u \in Uploads, Delete(u)
  PROVE  BankInv'
<1>1. /\ UNCHANGED <<sheet, job, voids>> /\ deletes' = deletes + 1
      /\ entries' = [v \in Uploads |-> IF v = u THEN Null ELSE entries[v]]
      /\ ledger' = [r \in DOMAIN ledger |->
                    IF ledger[r].upload = u THEN [ledger[r] EXCEPT !.upload = Null, !.stmt = FALSE] ELSE ledger[r]]
  BY DEF Delete, BankInv, EntriesClaim
<1>2. DOMAIN ledger' = DOMAIN ledger
  BY <1>1
<1>3. ASSUME NEW r \in DOMAIN ledger
      PROVE  /\ DOMAIN ledger'[r] = RowFields /\ SaysTheSame(ledger[r], ledger'[r])
             /\ ledger'[r].voided = ledger[r].voided
  <2>1. DOMAIN ledger[r] = RowFields
    BY DEF BankInv, Table
  <2> QED
    BY <1>1, <2>1 DEF SaysTheSame, RowFields
<1>4. OfStatements' = OfStatements
  BY <1>2, <1>3 DEF OfStatements, SaysTheSame
<1>5. deletes' # 0 /\ deletes' \in Nat
  <2>1. deletes \in Nat
    BY DEF BankInv, StillMatched
  <2>2. deletes' = deletes + 1
    BY <1>1
  <2> QED
    BY <2>1, <2>2
<1>6. Table(ledger)' /\ Amounts' /\ StillMatched'
  BY <1>1, <1>2, <1>3, <1>4, <1>5
  DEF BankInv, Table, Ids, Amounts, StillMatched, SaysTheSame, OfStatements
<1>7. \A r \in DOMAIN ledger : r \in DOMAIN ledger' /\ SaysTheSame(ledger[r], ledger'[r])
  BY <1>2, <1>3
<1>8. /\ LineCount(sheet)' /\ JobClaims'
      /\ \A v \in Uploads : entries'[v] = entries[v] => Claims(v)'
  BY <1>1, <1>7, ClaimsOn
<1>9. EntriesClaim'
  <2>1. \A v \in Uploads : entries'[v] = entries[v] \/ entries'[v] = Null
    BY <1>1
  <2> QED
    BY <1>1, <1>8, <2>1 DEF EntriesClaim, Claims
<1>10. voids' = 0 \/ deletes' = 0 => RowsOfLines' /\ JobRecordsNew'
  <2>1. SUFFICES ASSUME voids = 0 PROVE RowsOfLines' /\ JobRecordsNew'
    BY <1>1, <1>5
  <2>2. job' = Null \/ (job # Null /\ job'.recon = job.recon)
    BY <1>1
  <2> QED
    BY <1>1, <1>4, <1>7, <2>1, <2>2, RowsOfLinesOn DEF BankInv
<1> QED
  BY <1>6, <1>8, <1>9, <1>10 DEF BankInv, Table

(* A voided row stays, and still says what it said.                          *)
LEMMA VoidKeeps ==
  ASSUME BankInv, NEW id \in DOMAIN ledger, Void(id)
  PROVE  BankInv'
<1>1. /\ UNCHANGED <<sheet, entries, job, deletes>> /\ voids' = voids + 1
      /\ ledger' = [ledger EXCEPT ![id].voided = ~@]
  BY DEF Void
<1>2. DOMAIN ledger' = DOMAIN ledger
  BY <1>1
<1>3. ASSUME NEW r \in DOMAIN ledger
      PROVE  /\ DOMAIN ledger'[r] = RowFields /\ SaysTheSame(ledger[r], ledger'[r])
             /\ ledger'[r].stmt = ledger[r].stmt
  <2>1. DOMAIN ledger[r] = RowFields
    BY DEF BankInv, Table
  <2> QED
    BY <1>1, <2>1 DEF SaysTheSame, RowFields
<1>4. OfStatements' = OfStatements
  BY <1>2, <1>3 DEF OfStatements, SaysTheSame
<1>5. voids' # 0 /\ voids' \in Nat
  BY <1>1 DEF BankInv, StillMatched
<1>6. Table(ledger)' /\ Amounts' /\ StillMatched'
  BY <1>1, <1>2, <1>3, <1>4, <1>5
  DEF BankInv, Table, Ids, Amounts, StillMatched, SaysTheSame, OfStatements
<1>7. \A r \in DOMAIN ledger : r \in DOMAIN ledger' /\ SaysTheSame(ledger[r], ledger'[r])
  BY <1>2, <1>3
<1>8. /\ LineCount(sheet)' /\ JobClaims'
      /\ \A v \in Uploads : entries'[v] = entries[v] => Claims(v)'
  BY <1>1, <1>7, ClaimsOn
<1>9. EntriesClaim'
  BY <1>1, <1>8 DEF BankInv, EntriesClaim
<1>10. voids' = 0 \/ deletes' = 0 => RowsOfLines' /\ JobRecordsNew'
  <2>1. SUFFICES ASSUME deletes = 0 PROVE RowsOfLines' /\ JobRecordsNew'
    BY <1>1, <1>5
  <2>2. job' = Null \/ (job # Null /\ job'.recon = job.recon)
    BY <1>1
  <2> QED
    BY <1>1, <1>4, <1>7, <2>1, <2>2, RowsOfLinesOn DEF BankInv
<1> QED
  BY <1>6, <1>8, <1>9, <1>10 DEF BankInv, Table

(* Two orders of a statement's lines that both settle a row write the same    *)
(* into it. Whichever order it is, the winner is not contested by the other  *)
(* line: one that won by day is contested by every line that reaches its row, *)
(* and one that won by reference by every line that bears the reference.     *)
LEMMA OrdersAgree ==
  ASSUME NEW lines, LineCount(lines), NEW others, LineCount(others), NEW table, Ids(DOMAIN table),
         NEW i \in DOMAIN lines, NEW j \in DOMAIN others,
         \E k \in DOMAIN lines : lines[k] = others[j],
         \E k \in DOMAIN others : others[k] = lines[i],
         Reconcile(lines, table).row[i] = Reconcile(others, table).row[j],
         Reconcile(lines, table).row[i] # NoRow
  PROVE  RefreshIdentity(lines[i]) = RefreshIdentity(others[j])
<1> DEFINE first(x) == ByReference(x, table)
           won(x) == ByDay(x, table, first(x))
           contested(x) == Contested(x, table, first(x), won(x))
           r == Reconcile(lines, table).row[i]
<1>1. ASSUME NEW x, LineCount(x), NEW k \in DOMAIN x, Reconcile(x, table).row[k] # NoRow
      PROVE  /\ Reconcile(x, table).row[k] = won(x)[k] /\ k \notin contested(x)
             /\ won(x)[k] \in Reach(x[k], table)
             /\ first(x)[k] # NoRow => won(x)[k] \in SameReference(x[k], table)
  <2>1. Reconcile(x, table).row = Kept(x, table, first(x), won(x))
    BY DEF Reconcile
  <2>2. Reconcile(x, table).row[k] = IF k \in contested(x) THEN NoRow ELSE won(x)[k]
    BY <2>1 DEF Kept
  <2>3. DOMAIN x = 1..Len(x)
    BY <1>1 DEF LineCount
  <2>4. /\ WonSoFar(first(x), x, table, Len(x))
        /\ \A n \in 1..Len(x) : first(x)[n] \in SameReference(x[n], table) \cup {NoRow}
    BY <1>1, ByReferenceWins
  <2> HIDE DEF first
  <2>5. /\ WonSoFar(won(x), x, table, Len(x))
        /\ \A n \in 1..Len(x) : first(x)[n] # NoRow => won(x)[n] = first(x)[n]
    BY <1>1, <2>4, ByDayWins
  <2> HIDE DEF won, contested
  <2>6. Reconcile(x, table).row[k] = won(x)[k] /\ k \notin contested(x)
    BY <1>1, <2>2
  <2>7. won(x)[k] \in Reach(x[k], table)
    BY <1>1, <2>3, <2>5, <2>6 DEF WonSoFar
  <2>8. first(x)[k] # NoRow => won(x)[k] \in SameReference(x[k], table)
    BY <2>3, <2>4, <2>5
  <2> QED
    BY <2>6, <2>7, <2>8
<1>2. ASSUME NEW x, NEW k \in DOMAIN x, k \notin contested(x), won(x)[k] # NoRow,
             NEW l \in DOMAIN x, RefreshIdentity(x[k]) # RefreshIdentity(x[l])
      PROVE  /\ won(x)[k] \notin SameReference(x[l], table)
             /\ first(x)[k] = NoRow => won(x)[k] \notin Reach(x[l], table)
  <2> HIDE DEF first, won
  <2>1. k # l
    BY <1>2
  <2>2. SameReference(x[l], table) \subseteq Reach(x[l], table)
    BY ReachRows
  <2> QED
    BY <1>2, <2>1, <2>2 DEF Contested
<1> HIDE DEF first, won, contested
<1>3. SUFFICES ASSUME RefreshIdentity(lines[i]) # RefreshIdentity(others[j]) PROVE FALSE
  OBVIOUS
<1>4. PICK k \in DOMAIN lines : lines[k] = others[j]
  OBVIOUS
<1>5. PICK l \in DOMAIN others : others[l] = lines[i]
  OBVIOUS
<1>6. /\ r = won(lines)[i] /\ i \notin contested(lines) /\ r \in Reach(lines[i], table)
      /\ r # NoRow
  BY <1>1
<1>7. /\ r = won(others)[j] /\ j \notin contested(others)
      /\ first(others)[j] # NoRow => r \in SameReference(others[j], table)
  BY <1>1
<1> HIDE DEF r
<1>8. r \notin SameReference(others[j], table)
  BY <1>2, <1>3, <1>4, <1>6
<1>9. first(others)[j] = NoRow
  BY <1>7, <1>8
<1>10. r \notin Reach(others[l], table)
  BY <1>2, <1>3, <1>5, <1>6, <1>7, <1>9
<1> QED
  BY <1>5, <1>6, <1>10

LEMMA OrderNeverTells == BankInv => OrderFree
<1> SUFFICES ASSUME BankInv PROVE OrderFree
  OBVIOUS
<1> DEFINE lines(p) == [i \in Lines |-> sheet[p[i]]]
           row(p) == Reconcile(lines(p), ledger).row
           written(p) == {<<row(p)[i], RefreshIdentity(lines(p)[i])>> : i \in {i \in Lines : row(p)[i] # NoRow}}
           orders == {p \in [Lines -> Lines] : IsInjective(p)}
<1>1. Len(sheet) \in Nat /\ Lines = 1..Len(sheet) /\ Ids(DOMAIN ledger)
  BY DEF BankInv, LineCount, Lines, Table
<1>2. IsFiniteSet(Lines)
  <2>1. 1 \in Int /\ Len(sheet) \in Int
    BY <1>1
  <2> QED
    BY <1>1, <2>1, FS_Interval
<1>3. ASSUME NEW p \in orders, NEW i \in Lines PROVE \E k \in Lines : p[k] = i
  <2>1. p \in Injection(Lines, Lines)
    BY DEF Injection
  <2>2. p \in Surjection(Lines, Lines)
    BY <1>2, <2>1, FS_Injection
  <2> QED
    BY <2>2 DEF Surjection
<1>4. ASSUME NEW p \in orders PROVE LineCount(lines(p)) /\ DOMAIN lines(p) = Lines
  <2> DEFINE n == Len(sheet)
             f == [i \in 1..n |-> sheet[p[i]]]
  <2>1. n \in Nat
    BY <1>1
  <2> HIDE DEF n
  <2>2. DOMAIN f = 1..n /\ Len(f) = n
    BY <2>1
  <2>3. lines(p) = f
    BY <1>1 DEF n
  <2> QED
    BY <1>1, <2>1, <2>2, <2>3 DEF LineCount, n
<1>5. ASSUME NEW p \in orders, NEW q \in orders, NEW i \in Lines, NEW j \in Lines,
             row(p)[i] # NoRow, row(p)[i] = row(q)[j]
      PROVE  RefreshIdentity(lines(p)[i]) = RefreshIdentity(lines(q)[j])
  <2>1. PICK k \in Lines : p[k] = q[j]
    BY <1>3
  <2>2. PICK l \in Lines : q[l] = p[i]
    BY <1>3
  <2>3. lines(p)[k] = lines(q)[j] /\ lines(q)[l] = lines(p)[i]
    BY <2>1, <2>2
  <2>4. LineCount(lines(p)) /\ DOMAIN lines(p) = Lines /\ LineCount(lines(q)) /\ DOMAIN lines(q) = Lines
    BY <1>4
  <2> HIDE DEF lines
  <2> QED
    BY <1>1, <1>5, <2>3, <2>4, OrdersAgree
<1> HIDE DEF lines, row
<1>6. \A w, x \in UNION {written(p) : p \in orders} : w[1] = x[1] => w[2] = x[2]
  <2>1. SUFFICES ASSUME NEW p \in orders, NEW q \in orders, NEW w \in written(p), NEW x \in written(q), w[1] = x[1]
                 PROVE  w[2] = x[2]
    OBVIOUS
  <2>2. PICK i \in Lines : row(p)[i] # NoRow /\ w = <<row(p)[i], RefreshIdentity(lines(p)[i])>>
    OBVIOUS
  <2>3. PICK j \in Lines : x = <<row(q)[j], RefreshIdentity(lines(q)[j])>>
    OBVIOUS
  <2> QED
    BY <1>5, <2>1, <2>2, <2>3
<1> QED
  BY <1>6 DEF OrderFree, lines, row

LEMMA BankInvStep == BankInv /\ [BankNext]_bankVars => BankInv'
<1> SUFFICES ASSUME BankInv, [BankNext]_bankVars PROVE BankInv'
  OBVIOUS
<1>1. ASSUME NEW row \in Postings, Post(row) PROVE BankInv'
  BY <1>1, PostKeeps
<1>2. ASSUME NEW how, NEW u, Begin(how, u) PROVE BankInv'
  BY <1>2, BeginKeeps
<1>3. ASSUME NEW u \in Uploads, StoreLocked(u) PROVE BankInv'
  BY <1>3, StoreLockedKeeps
<1>4. ASSUME NEW u \in Uploads, Delete(u) PROVE BankInv'
  BY <1>4, DeleteKeeps
<1>5. CASE EnrichMatched
  BY <1>5, EnrichMatchedKeeps
<1>6. CASE Import
  BY <1>6, ImportKeeps
<1>7. ASSUME NEW r \in DOMAIN ledger, Void(r) PROVE BankInv'
  BY <1>7, VoidKeeps
<1>8. CASE UNCHANGED bankVars
  <2>1. UNCHANGED <<sheet, ledger, entries, job, voids, deletes>>
    BY <1>8 DEF bankVars
  <2>2. OfStatements' = OfStatements
    BY <2>1 DEF OfStatements
  <2>3. RowsOfLines' = RowsOfLines /\ JobRecordsNew' = JobRecordsNew
    BY <2>1, <2>2 DEF RowsOfLines, JobRecordsNew
  <2>4. JobClaims' /\ EntriesClaim'
    BY <2>1 DEF BankInv, JobClaims, EntriesClaim, Claims
  <2> QED
    BY <2>1, <2>2, <2>3, <2>4 DEF BankInv, LineCount, Table, Amounts, StillMatched
<1> QED
  BY <1>1, <1>2, <1>3, <1>4, <1>5, <1>6, <1>7, <1>8 DEF BankNext

(* Each line counts once: a statement whose lines all have rows of the period, *)
(* and which leaves no such row over, tallies; and however often it comes, no *)
(* more rows stand recorded from it than it has lines.                       *)
THEOREM LinesAlwaysCountOnce == BankSpec => []LinesCountOnce
<1>1. BankInv => LinesCountOnce
  BY TallyHolds, OnceHolds DEF LinesCountOnce
<1> QED
  BY <1>1, BankInvInit, BankInvStep, PTL DEF BankSpec

(* The order of the lines of a statement never changes what is written into a *)
(* row of a bank account's ledger, whatever the ledger and the lines are.    *)
THEOREM OrderNeverMatters == BankSpec => []OrderFree
<1> QED
  BY OrderNeverTells, BankInvInit, BankInvStep, PTL DEF BankSpec

-----------------------------------------------------------------------------
(* Card statements. They have a ledger of their own here: an account is either *)
(* a card's or a bank's.                                                     *)

CONSTANTS CardSheets, CardPostings, Cards, NoMask, Rupee, SettlesAs, SameMerchant,
          NamesWhole, NamesGlued, MasksAgree

VARIABLES cardSheet, cardRows, cardEntries, cardJob, stray

Card == INSTANCE CardStatements WITH
  sheet <- cardSheet, rows <- cardRows, entries <- cardEntries, job <- cardJob, None <- Null,
  Sheets <- CardSheets, Postings <- CardPostings

-----------------------------------------------------------------------------
(* Which row a card's line takes in the greedy pass.                         *)

LEMMA CardWords ==
  /\ Card!NoRow = NoRow
  /\ \A S : Card!Cardinality(S) = Cardinality(S)
BY DEF Card!NoRow, NoRow, Card!Cardinality, Cardinality

LEMMA LeastOf ==
  ASSUME NEW S \in SUBSET Nat, S # {}
  PROVE  Card!Min(S) \in S
<1> DEFINE R == OpToRel(<, Nat)
<1>1. IsWellFoundedOn(R, Nat) /\ \A x, y \in Nat : y < x => <<y, x>> \in R
  BY NatLessThanWellFounded DEF OpToRel
<1> HIDE DEF R
<1>2. PICK x \in S : \A y \in S : ~(<<y, x>> \in R)
  BY <1>1, WFMin
<1>3. ASSUME NEW y \in S PROVE x <= y
  <2>1. ~(y < x)
    BY <1>1, <1>2
  <2> QED
    BY <2>1
<1> QED
  BY <1>3 DEF Card!Min

(* A card's line takes only a row of its amount.                             *)
LEMMA CardPickFits ==
  ASSUME NEW line, NEW table, NEW taken, Ids(DOMAIN table)
  PROVE  Card!Pick(line, table, Cards, taken) \in Card!ExactRows(line, table) \cup {NoRow}
<1> DEFINE open(offset) == {r \in Card!ExactRows(line, table) \ taken :
                              /\ table[r].day = line.day + offset
                              /\ Card!CardCompatible(table[r].mask, Cards)}
           pick == CASE open(0) # {} -> Card!Min(open(0))
                     [] open(0) = {} /\ open(-1) # {} -> Card!Min(open(-1))
                     [] open(0) = {} /\ open(-1) = {} /\ open(1) # {} -> Card!Min(open(1))
                     [] OTHER -> NoRow
<1>1. Card!Pick(line, table, Cards, taken) = pick
  BY CardWords DEF Card!Pick
<1>2. Card!ExactRows(line, table) \subseteq Nat
  BY DEF Card!ExactRows, Card!Eligible, Ids
<1>3. ASSUME NEW k, open(k) # {} PROVE Card!Min(open(k)) \in Card!ExactRows(line, table)
  <2>1. open(k) \in SUBSET Nat /\ open(k) \subseteq Card!ExactRows(line, table)
    BY <1>2
  <2> HIDE DEF open
  <2> QED
    BY <1>3, <2>1, LeastOf
<1> HIDE DEF open
<1> QED
  BY <1>1, <1>3

IsGreedy(f, lines, table, n) ==
  f = [k \in 0..n |-> IF k = 0 THEN <<>> ELSE Card!WonByPass(f[k - 1], lines[k], table, Cards)]

LEMMA GreedyRecursion ==
  ASSUME NEW lines, NEW table
  PROVE  Card!Greedy(lines, table, Cards) = (CHOOSE f : IsGreedy(f, lines, table, Len(lines)))[Len(lines)]
BY DEF Card!Greedy, IsGreedy

LEMMA GreedyExists ==
  ASSUME NEW lines, NEW table
  PROVE  \A n \in Nat : \E f : IsGreedy(f, lines, table, n)
<1> DEFINE S == {n \in Nat : \E f : IsGreedy(f, lines, table, n)}
<1>1. 0 \in S
  <2>1. IsGreedy([k \in 0..0 |-> <<>>], lines, table, 0)
    BY DEF IsGreedy
  <2> QED
    BY <2>1
<1>2. ASSUME NEW n \in S PROVE n + 1 \in S
  <2>1. PICK f : IsGreedy(f, lines, table, n)
    OBVIOUS
  <2> DEFINE g == [k \in 0..n + 1 |-> IF k = n + 1 THEN Card!WonByPass(f[n], lines[n + 1], table, Cards)
                                      ELSE f[k]]
  <2>2. n \in Nat /\ \A k \in 0..n : g[k] = f[k]
    OBVIOUS
  <2>3. ASSUME NEW k \in 0..n + 1
        PROVE  g[k] = IF k = 0 THEN <<>> ELSE Card!WonByPass(g[k - 1], lines[k], table, Cards)
    <3>1. CASE k = n + 1
      <4>1. k # 0 /\ k - 1 = n /\ g[k - 1] = f[n]
        BY <2>2, <3>1
      <4> QED
        BY <3>1, <4>1
    <3>2. CASE k # n + 1
      <4>1. k \in 0..n /\ (k # 0 => k - 1 \in 0..n)
        BY <3>2
      <4>2. f[k] = IF k = 0 THEN <<>> ELSE Card!WonByPass(f[k - 1], lines[k], table, Cards)
        BY <2>1, <4>1 DEF IsGreedy
      <4> QED
        BY <2>2, <4>1, <4>2
    <3> QED
      BY <3>1, <3>2
  <2>4. IsGreedy(g, lines, table, n + 1)
    BY <2>3 DEF IsGreedy
  <2> QED
    BY <2>4
<1> QED
  BY <1>1, <1>2, Numbers

(* The greedy pass gives each line a row of its amount, or none.             *)
LEMMA GreedyWins ==
  ASSUME NEW lines, LineCount(lines), NEW table, Ids(DOMAIN table)
  PROVE  \A i \in 1..Len(lines) :
           Card!Greedy(lines, table, Cards)[i] \in Card!ExactRows(lines[i], table) \cup {NoRow}
<1> DEFINE len == Len(lines)
           Taken(won, n) ==
             /\ won \in Seq(Nat) /\ Len(won) = n
             /\ \A i \in 1..n : won[i] \in Card!ExactRows(lines[i], table) \cup {NoRow}
<1>1. len \in Nat
  BY DEF LineCount
<1>2. PICK f : IsGreedy(f, lines, table, len) /\ Card!Greedy(lines, table, Cards) = f[len]
  BY <1>1, GreedyRecursion, GreedyExists
<1> DEFINE S == {n \in Nat : n <= len => Taken(f[n], n)}
<1>3. 0 \in S
  <2>1. f[0] = <<>>
    BY <1>1, <1>2 DEF IsGreedy
  <2>2. Taken(<<>>, 0)
    OBVIOUS
  <2> QED
    BY <2>1, <2>2
<1>4. ASSUME NEW n \in S PROVE n + 1 \in S
  <2>1. SUFFICES ASSUME n + 1 <= len PROVE Taken(f[n + 1], n + 1)
    OBVIOUS
  <2> DEFINE won == f[n]
             row == Card!Pick(lines[n + 1], table, Cards, Card!Range(won))
  <2>2. n \in Nat /\ Taken(won, n)
    BY <1>1, <2>1
  <2>3. n + 1 \in 0..len /\ n + 1 # 0 /\ (n + 1) - 1 = n
    BY <1>1, <2>1, <2>2
  <2>4. f[n + 1] = Card!WonByPass(f[(n + 1) - 1], lines[n + 1], table, Cards)
    BY <1>2, <2>3 DEF IsGreedy
  <2>5. f[n + 1] = Append(won, row)
    BY <2>3, <2>4 DEF Card!WonByPass
  <2>6. row \in Card!ExactRows(lines[n + 1], table) \cup {NoRow}
    BY CardPickFits
  <2>7. row \in Nat
    BY <2>6 DEF Card!ExactRows, Card!Eligible, Ids, NoRow
  <2> HIDE DEF row, won
  <2>8. /\ Append(won, row) \in Seq(Nat) /\ Len(Append(won, row)) = n + 1
        /\ \A i \in 1..n : Append(won, row)[i] = won[i]
        /\ Append(won, row)[n + 1] = row
    BY <2>2, <2>7
  <2>9. \A i \in 1..n + 1 : i \in 1..n \/ i = n + 1
    BY <2>2
  <2> QED
    BY <2>2, <2>5, <2>6, <2>8, <2>9
<1> HIDE DEF S, Taken
<1>5. S = Nat
  <2>1. S \subseteq Nat
    BY DEF S
  <2> QED
    BY <1>3, <1>4, <2>1, Numbers
<1>6. Taken(f[len], len)
  BY <1>1, <1>5 DEF S
<1> QED
  BY <1>2, <1>6 DEF Taken

-----------------------------------------------------------------------------
(* What a line settles: the row it won if nobody contests it, else the row it *)
(* alone names.                                                              *)
LEMMA CardSettles ==
  ASSUME NEW lines, LineCount(lines), NEW table, Ids(DOMAIN table), NEW i \in DOMAIN lines,
         Card!Settled(lines, table, Cards)[i] # NoRow
  PROVE  LET won == Card!Greedy(lines, table, Cards)
             row == Card!Settled(lines, table, Cards)[i]
             names(j) == Card!NamedRows(lines[j], table)
         IN /\ row \in Card!ExactRows(lines[i], table)
            /\ \/ row = won[i] /\ i \notin Card!Contested(lines, table, won, Cards)
               \/ row \in names(i) /\ Cardinality({j \in DOMAIN lines : row \in names(j)}) = 1
<1> DEFINE won == Card!Greedy(lines, table, Cards)
           names(j) == Card!NamedRows(lines[j], table)
           contested == Card!Contested(lines, table, won, Cards)
           tie == Card!TiedWith(i, contested, lines, table)
           byName == Card!ResolvedByName(tie, lines, table, won)
           row == Card!Settled(lines, table, Cards)[i]
<1>1. won[i] \in Card!ExactRows(lines[i], table) \cup {NoRow}
  BY GreedyWins DEF LineCount
<1> HIDE DEF won
<1>2. row = IF i \notin contested THEN won[i] ELSE IF byName THEN CHOOSE r \in names(i) : TRUE ELSE NoRow
  BY CardWords DEF Card!Settled, Card!Kept, won
<1> HIDE DEF contested
<1>3. ASSUME i \in contested, byName
      PROVE  /\ Cardinality(names(i)) = 1
             /\ \A r \in names(i) : Cardinality({j \in DOMAIN lines : r \in names(j)}) = 1
  <2>1. i \in tie
    BY <1>3 DEF Card!TiedWith
  <2> HIDE DEF tie
  <2> QED
    BY <1>3, <2>1, CardWords DEF Card!ResolvedByName
<1>4. \A r \in names(i) : r \in Card!ExactRows(lines[i], table)
  BY DEF Card!NamedRows
<1> HIDE DEF names, byName
<1>5. ASSUME i \in contested, byName PROVE row \in names(i)
  <2>1. names(i) # {}
    BY <1>3, <1>5, FS_EmptySet
  <2> QED
    BY <1>2, <1>5, <2>1
<1> HIDE DEF row
<1>6. row # NoRow
  BY DEF row
<1>7. CASE i \notin contested
  BY <1>1, <1>2, <1>6, <1>7 DEF won, contested, row
<1>8. CASE i \in contested
  <2>1. byName
    BY <1>2, <1>6, <1>8
  <2> QED
    BY <1>3, <1>4, <1>5, <1>8, <2>1 DEF names, row
<1> QED
  BY <1>7, <1>8

(* In a finite set of numbers there is one of each rank.                     *)
RankIn(x, S) == Cardinality({y \in S : y <= x})

LEMMA EachRank ==
  ASSUME NEW S \in SUBSET Nat, IsFiniteSet(S), NEW k \in 1..Cardinality(S)
  PROVE  \E r \in S : RankIn(r, S) = k
<1> DEFINE upTo(x) == {y \in S : y <= x}
           f == [x \in S |-> Cardinality(upTo(x))]
           n == Cardinality(S)
<1>1. n \in Nat
  BY FS_CardinalityType
<1>2. \A x \in S : /\ IsFiniteSet(upTo(x)) /\ Cardinality(upTo(x)) <= n /\ x \in upTo(x)
                   /\ Cardinality(upTo(x)) \in Nat
  <2>1. ASSUME NEW x \in S PROVE IsFiniteSet(upTo(x)) /\ Cardinality(upTo(x)) <= n
    BY FS_Subset
  <2> QED
    BY <2>1, FS_CardinalityType
<1>3. \A x \in S : Cardinality(upTo(x)) \in 1..n
  <2>1. ASSUME NEW x \in S PROVE Cardinality(upTo(x)) # 0
    BY <1>2, FS_EmptySet
  <2> HIDE DEF n, upTo
  <2> QED
    BY <1>1, <1>2, <2>1
<1>4. ASSUME NEW x \in S, NEW y \in S, x < y PROVE Cardinality(upTo(x)) # Cardinality(upTo(y))
  <2>0. x \in Nat /\ y \in Nat /\ ~(y <= x) /\ \A z \in S : z <= x => z <= y
    BY <1>4
  <2>1. upTo(x) \in SUBSET upTo(y) /\ y \notin upTo(x)
    BY <2>0
  <2>2. IsFiniteSet(upTo(y)) /\ y \in upTo(y)
    BY <1>2
  <2> HIDE DEF upTo
  <2> QED
    BY <2>1, <2>2, FS_Subset
<1>5. f \in Injection(S, 1..n)
  <2>1. f \in [S -> 1..n]
    BY <1>3
  <2>2. \A x, y \in S : f[x] = f[y] => x = y
    <3>1. ASSUME NEW x \in S, NEW y \in S, f[x] = f[y], x # y PROVE FALSE
      <4>1. x < y \/ y < x
        BY <3>1
      <4> HIDE DEF upTo
      <4>2. Cardinality(upTo(x)) = Cardinality(upTo(y))
        BY <3>1
      <4> QED
        BY <1>4, <4>1, <4>2
    <3> QED
      BY <3>1
  <2> HIDE DEF f
  <2> QED
    BY <2>1, <2>2 DEF Injection, IsInjective
<1>6. IsFiniteSet(1..n) /\ Cardinality(1..n) = n
  <2> HIDE DEF n
  <2>1. 1 \in Int /\ n \in Int /\ n >= 0
    BY <1>1
  <2>2. Cardinality(1..n) = IF 1 > n THEN 0 ELSE n - 1 + 1
    BY <2>1, FS_Interval
  <2> QED
    BY <1>1, <2>1, <2>2, FS_Interval
<1>7. f \in Surjection(S, 1..n)
  <2> HIDE DEF f
  <2> QED
    BY <1>5, <1>6, FS_Injection
<1>8. PICK r \in S : f[r] = k
  <2> HIDE DEF f
  <2> QED
    BY <1>7 DEF Surjection
<1> QED
  BY <1>8 DEF RankIn

(* A foreign spend pairs with a row that it names, and what any other line   *)
(* that could be of the row would write is the same.                         *)
LEMMA CardForeignFits ==
  ASSUME NEW lines, LineCount(lines), NEW table, Ids(DOMAIN table), NEW settled,
         NEW i \in DOMAIN Card!ForeignPairs(lines, table, Cards, settled)
  PROVE  LET r == Card!ForeignPairs(lines, table, Cards, settled)[i]
             taken == Card!Range(settled)
             links(j) == {q \in Card!ForeignRows(lines[j], table, taken) :
                            Card!CardCompatible(table[q].mask, Cards)}
         IN /\ r \in links(i)
            /\ \A j \in DOMAIN lines : r \in links(j) =>
                 /\ lines[i].amt = lines[j].amt
                 /\ Card!RefreshIdentity(lines[i]) = Card!RefreshIdentity(lines[j])
<1> DEFINE taken == Card!Range(settled)
           links == [j \in DOMAIN lines |->
                       {q \in Card!ForeignRows(lines[j], table, taken) :
                          Card!CardCompatible(table[q].mask, Cards)}]
           rank(x, S) == Card!Cardinality({y \in S : y <= x})
           free == {j \in DOMAIN lines : /\ settled[j] = Card!NoRow /\ links[j] # {}
                                         /\ Card!CandidateRows(lines[j], table) = {}}
           group(x) == {j \in free : links[j] = links[x]}
           pairs == [x \in {x \in free : Card!CertainGroup(group(x), links[x], links, lines, table)} |->
                       CHOOSE r \in links[x] : rank(r, links[x]) = rank(x, group(x))]
<1>1. Card!ForeignPairs(lines, table, Cards, settled) = pairs
  BY DEF Card!ForeignPairs
<1>2. i \in free /\ Card!CertainGroup(group(i), links[i], links, lines, table) /\ i \in DOMAIN lines
  BY <1>1
<1>3. links[i] \in SUBSET Nat /\ IsFiniteSet(links[i])
  <2>1. links[i] \subseteq DOMAIN table
    BY <1>2 DEF Card!ForeignRows, Card!Eligible
  <2> HIDE DEF links
  <2>2. links[i] \in SUBSET Nat
    BY <2>1 DEF Ids
  <2>3. PICK n \in Nat : \A r \in links[i] : r <= n
    BY <2>1 DEF Ids
  <2> QED
    BY <2>2, <2>3, FS_BoundedSetOfNaturals
<1>4. group(i) \in SUBSET Nat /\ IsFiniteSet(group(i)) /\ i \in group(i)
  <2>1. group(i) \in SUBSET (1..Len(lines)) /\ i \in group(i) /\ Len(lines) \in Nat
    BY <1>2 DEF LineCount
  <2> HIDE DEF group
  <2>2. IsFiniteSet(1..Len(lines))
    BY <2>1, FS_Interval
  <2> QED
    BY <2>1, <2>2, FS_Subset
<1>5. Cardinality(group(i)) = Cardinality(links[i])
  BY <1>2, CardWords DEF Card!CertainGroup
<1>6. RankIn(i, group(i)) \in 1..Cardinality(group(i))
  <2> DEFINE G == group(i)
             below == {y \in G : y <= i}
  <2>0. G \in SUBSET Nat /\ IsFiniteSet(G) /\ i \in G
    BY <1>4
  <2> HIDE DEF G
  <2>1. below \in SUBSET G /\ i \in below
    BY <2>0
  <2>2. IsFiniteSet(below) /\ Cardinality(below) <= Cardinality(G)
    BY <2>0, <2>1, FS_Subset
  <2>3. Cardinality(below) # 0
    BY <2>1, <2>2, FS_EmptySet
  <2>4. Cardinality(below) \in Nat /\ Cardinality(G) \in Nat
    BY <2>0, <2>2, FS_CardinalityType
  <2>5. Cardinality(below) \in 1..Cardinality(G)
    <3> HIDE DEF below
    <3> QED
      BY <2>2, <2>3, <2>4
  <2> QED
    BY <2>5 DEF RankIn, G
<1>7. \E r \in links[i] : RankIn(r, links[i]) = RankIn(i, group(i))
  <2> HIDE DEF links, group
  <2> QED
    BY <1>3, <1>5, <1>6, EachRank
<1>8. pairs[i] \in links[i]
  <2>1. pairs[i] = CHOOSE r \in links[i] : rank(r, links[i]) = rank(i, group(i))
    BY <1>2
  <2>2. \A x, S : rank(x, S) = RankIn(x, S)
    BY CardWords DEF RankIn
  <2> HIDE DEF pairs, links, group, rank
  <2> QED
    BY <1>7, <2>1, <2>2
<1>9. ASSUME NEW j \in DOMAIN lines, pairs[i] \in links[j]
      PROVE  /\ lines[i].amt = lines[j].amt
             /\ Card!RefreshIdentity(lines[i]) = Card!RefreshIdentity(lines[j])
  <2> HIDE DEF pairs, links, group, free
  <2>1. j \in group(i)
    BY <1>2, <1>8, <1>9 DEF Card!CertainGroup
  <2> QED
    BY <1>2, <1>4, <2>1 DEF Card!CertainGroup
<1> HIDE DEF pairs
<1> QED
  BY <1>1, <1>2, <1>8, <1>9

-----------------------------------------------------------------------------
(* A line keeps a row that another could be only from a line of another card. *)
LEMMA CardUncontested ==
  ASSUME NEW lines, NEW table, NEW won, NEW i \in DOMAIN lines, NEW k \in DOMAIN lines,
         won[i] # NoRow, i \notin Card!Contested(lines, table, won, Cards),
         won[i] \in Card!ExactRows(lines[k], table),
         Card!RefreshIdentity(lines[i]) # Card!RefreshIdentity(lines[k])
  PROVE  LET mask == table[won[i]].mask
         IN ~Card!OtherCard(lines[i], mask) /\ Card!OtherCard(lines[k], mask)
<1> DEFINE mask == table[won[i]].mask
<1>1. k # i /\ k \notin Card!Rivals(i, lines, table, won, Cards)
  BY CardWords DEF Card!Contested
<1>2. Card!SameCard(lines[i], mask, Cards) /\ Card!OtherCard(lines[k], mask)
  BY <1>1 DEF Card!Rivals
<1> QED
  BY <1>2 DEF Card!SameCard, Card!OtherCard

(* Two orders that settle a row by its amount settle it alike.               *)
LEMMA CardSettlesAlike ==
  ASSUME NEW table, Ids(DOMAIN table),
         NEW lines, LineCount(lines), NEW others, LineCount(others),
         NEW i \in DOMAIN lines, NEW j \in DOMAIN others,
         \E k \in DOMAIN lines : lines[k] = others[j],
         \E l \in DOMAIN others : others[l] = lines[i],
         NEW r, r # NoRow,
         r = Card!Settled(lines, table, Cards)[i], r = Card!Settled(others, table, Cards)[j]
  PROVE  /\ lines[i].amt = others[j].amt
         /\ Card!RefreshIdentity(lines[i]) = Card!RefreshIdentity(others[j])
<1> DEFINE won(x) == Card!Greedy(x, table, Cards)
           names(x, k) == Card!NamedRows(x[k], table)
           kept(x, k) == r = won(x)[k] /\ k \notin Card!Contested(x, table, won(x), Cards)
           named(x, k) == r \in names(x, k) /\ Cardinality({m \in DOMAIN x : r \in names(x, m)}) = 1
<1>a. ASSUME NEW x, LineCount(x), NEW k \in DOMAIN x, r = Card!Settled(x, table, Cards)[k]
      PROVE  r \in Card!ExactRows(x[k], table) /\ (kept(x, k) \/ named(x, k))
  BY <1>a, CardSettles
<1>1. /\ r \in Card!ExactRows(lines[i], table) /\ (kept(lines, i) \/ named(lines, i))
      /\ r \in Card!ExactRows(others[j], table) /\ (kept(others, j) \/ named(others, j))
  <2> HIDE DEF kept, named
  <2> QED
    BY <1>a
<1>2. lines[i].amt = others[j].amt
  BY <1>1 DEF Card!ExactRows
<1>3. PICK k \in DOMAIN lines : lines[k] = others[j]
  OBVIOUS
<1>4. PICK l \in DOMAIN others : others[l] = lines[i]
  OBVIOUS
<1>5. SUFFICES ASSUME Card!RefreshIdentity(lines[i]) # Card!RefreshIdentity(others[j]) PROVE FALSE
  BY <1>2
<1> DEFINE mask == table[r].mask
<1> HIDE DEF won
<1>6. kept(lines, i) => ~Card!OtherCard(lines[i], mask) /\ Card!OtherCard(others[j], mask)
  BY <1>1, <1>3, <1>5, CardUncontested
<1>7. kept(others, j) => ~Card!OtherCard(others[j], mask) /\ Card!OtherCard(lines[i], mask)
  BY <1>1, <1>4, <1>5, CardUncontested
<1>8. /\ named(lines, i) => ~Card!OtherCard(lines[i], mask)
      /\ named(others, j) => ~Card!OtherCard(others[j], mask)
  BY DEF Card!NamedRows
<1>9. named(lines, i) /\ named(others, j)
  BY <1>1, <1>6, <1>7, <1>8
<1>10. i = k
  <2> DEFINE namers == {m \in DOMAIN lines : r \in names(lines, m)}
  <2>1. i \in namers /\ k \in namers /\ Cardinality(namers) = 1
    BY <1>3, <1>9
  <2>2. IsFiniteSet(namers)
    <3>1. namers \in SUBSET (1..Len(lines)) /\ 1 \in Int /\ Len(lines) \in Int
      BY DEF LineCount
    <3> HIDE DEF namers
    <3> QED
      BY <3>1, FS_Interval, FS_Subset
  <2> HIDE DEF namers
  <2> QED
    BY <2>1, <2>2, FS_Singleton
<1> QED
  BY <1>3, <1>5, <1>10

(* Two orders that pair a row as a foreign spend pair it alike.              *)
LEMMA CardPairsAlike ==
  ASSUME NEW table, Ids(DOMAIN table),
         NEW lines, LineCount(lines), NEW others, LineCount(others),
         NEW s, NEW t, NEW j,
         NEW i \in DOMAIN Card!ForeignPairs(lines, table, Cards, s),
         j \in DOMAIN Card!ForeignPairs(others, table, Cards, t), j \in DOMAIN others,
         \E k \in DOMAIN lines : lines[k] = others[j],
         Card!ForeignPairs(lines, table, Cards, s)[i] = Card!ForeignPairs(others, table, Cards, t)[j]
  PROVE  /\ lines[i].amt = others[j].amt
         /\ Card!RefreshIdentity(lines[i]) = Card!RefreshIdentity(others[j])
<1> DEFINE r == Card!ForeignPairs(lines, table, Cards, s)[i]
           links(x, u) == {q \in Card!ForeignRows(x, table, Card!Range(u)) :
                             Card!CardCompatible(table[q].mask, Cards)}
<1>1. PICK k \in DOMAIN lines : lines[k] = others[j]
  OBVIOUS
<1>2. /\ r \in links(lines[i], s)
      /\ r \in links(lines[k], s) => /\ lines[i].amt = lines[k].amt
                                     /\ Card!RefreshIdentity(lines[i]) = Card!RefreshIdentity(lines[k])
  BY CardForeignFits
<1>3. r \in links(others[j], t)
  BY CardForeignFits
<1> HIDE DEF r
<1>4. r \in links(lines[k], s)
  BY <1>1, <1>2, <1>3 DEF Card!ForeignRows
<1> QED
  BY <1>1, <1>2, <1>4

LEMMA CardOrdersAgree ==
  ASSUME NEW table, Ids(DOMAIN table),
         NEW lines, LineCount(lines), NEW others, LineCount(others),
         NEW i \in DOMAIN lines, NEW j \in DOMAIN others,
         \E k \in DOMAIN lines : lines[k] = others[j],
         \E l \in DOMAIN others : others[l] = lines[i],
         Card!Reconcile(lines, table, Cards).row[i] # NoRow,
         Card!Reconcile(lines, table, Cards).row[i] = Card!Reconcile(others, table, Cards).row[j]
  PROVE  \/ /\ lines[i].amt = others[j].amt
            /\ Card!RefreshIdentity(lines[i]) = Card!RefreshIdentity(others[j])
         \/ /\ (i \in Card!Reconcile(lines, table, Cards).foreign)
                 # (j \in Card!Reconcile(others, table, Cards).foreign)
            /\ table[Card!Reconcile(lines, table, Cards).row[i]].manual
<1> DEFINE settled(x) == Card!Settled(x, table, Cards)
           foreign(x) == Card!ForeignPairs(x, table, Cards, settled(x))
           recon(x) == Card!Reconcile(x, table, Cards)
           r == recon(lines).row[i]
<1>1. ASSUME NEW x, NEW k \in DOMAIN x
      PROVE  /\ recon(x).foreign = DOMAIN foreign(x)
             /\ k \in DOMAIN foreign(x) => recon(x).row[k] = foreign(x)[k]
             /\ k \notin DOMAIN foreign(x) => recon(x).row[k] = settled(x)[k]
  BY DEF Card!Reconcile
<1>2. ASSUME NEW x, LineCount(x), NEW k \in DOMAIN x, k \notin DOMAIN foreign(x),
             recon(x).row[k] # NoRow
      PROVE  table[recon(x).row[k]].cur = Rupee
  <2>1. settled(x)[k] \in Card!ExactRows(x[k], table)
    BY <1>1, <1>2, CardSettles
  <2> QED
    BY <1>1, <1>2, <2>1 DEF Card!ExactRows
<1>3. ASSUME NEW x, LineCount(x), NEW k \in DOMAIN x, k \in DOMAIN foreign(x)
      PROVE  table[recon(x).row[k]].cur # Rupee \/ table[recon(x).row[k]].manual
  <2>1. foreign(x)[k] \in Card!ForeignRows(x[k], table, Card!Range(settled(x)))
    <3> HIDE DEF settled
    <3> QED
      BY <1>3, CardForeignFits
  <2> QED
    BY <1>1, <1>3, <2>1 DEF Card!ForeignRows
<1>4. CASE i \in DOMAIN foreign(lines) /\ j \in DOMAIN foreign(others)
  <2>1. foreign(lines)[i] = foreign(others)[j]
    BY <1>1, <1>4
  <2> HIDE DEF settled
  <2> QED
    BY <1>4, <2>1, CardPairsAlike
<1>5. CASE i \notin DOMAIN foreign(lines) /\ j \notin DOMAIN foreign(others)
  <2>1. settled(lines)[i] = settled(others)[j] /\ settled(lines)[i] # NoRow
    BY <1>1, <1>5
  <2> QED
    BY <2>1, CardSettlesAlike
<1>6. CASE i \in DOMAIN foreign(lines) /\ j \notin DOMAIN foreign(others)
  <2>1. table[r].manual
    BY <1>2, <1>3, <1>6
  <2> QED
    BY <1>1, <1>6, <2>1
<1>7. CASE i \notin DOMAIN foreign(lines) /\ j \in DOMAIN foreign(others)
  <2>1. table[r].manual
    BY <1>2, <1>3, <1>7
  <2> QED
    BY <1>1, <1>7, <2>1
<1> QED
  BY <1>4, <1>5, <1>6, <1>7

-----------------------------------------------------------------------------
(* Card statements: the sheet's lines are numbered, and so are the rows.     *)

CardInv == LineCount(cardSheet) /\ Ids(DOMAIN cardRows)

LEMMA CardAdded ==
  ASSUME NEW table, Ids(DOMAIN table), NEW row
  PROVE  Ids(DOMAIN Card!Extended(table, Card!NewId(table), row))
<1>1. \A S : Card!Max(S) = Max(S)
  BY DEF Card!Max, Max
<1>2. Card!NewId(table) = NewId(table)
  BY <1>1 DEF Card!NewId, NewId
<1>3. DOMAIN Card!Extended(table, Card!NewId(table), row) = DOMAIN table \cup {Card!NewId(table)}
  BY DEF Card!Extended
<1> QED
  BY <1>2, <1>3, FreshId

IsCardImport(f, n) ==
  f = [k \in 0..n |-> IF k = 0 THEN [entries |-> <<>>, rows |-> cardRows, taken |-> {}]
                      ELSE Card!ImportLine(f[k - 1], k)]

LEMMA CardImportRecursion ==
  Card!ImportLines = (CHOOSE f : IsCardImport(f, Len(cardSheet)))[Len(cardSheet)]
BY DEF Card!ImportLines, IsCardImport

LEMMA CardImportExists ==
  \A n \in Nat : \E f : IsCardImport(f, n)
<1> DEFINE S == {n \in Nat : \E f : IsCardImport(f, n)}
           start == [entries |-> <<>>, rows |-> cardRows, taken |-> {}]
<1> HIDE DEF start
<1>0. \A f, n : IsCardImport(f, n) <=> f = [k \in 0..n |-> IF k = 0 THEN start ELSE Card!ImportLine(f[k - 1], k)]
  BY DEF IsCardImport, start
<1>1. 0 \in S
  <2> DEFINE f == [k \in 0..0 |-> start]
  <2>1. f = [k \in 0..0 |-> IF k = 0 THEN start ELSE Card!ImportLine(f[k - 1], k)]
    OBVIOUS
  <2> HIDE DEF f
  <2>2. IsCardImport(f, 0)
    BY <1>0, <2>1
  <2> QED
    BY <2>2
<1>2. ASSUME NEW n \in S PROVE n + 1 \in S
  <2>1. PICK f : IsCardImport(f, n)
    OBVIOUS
  <2> DEFINE g == [k \in 0..n + 1 |-> IF k = n + 1 THEN Card!ImportLine(f[n], n + 1) ELSE f[k]]
  <2>2. n \in Nat /\ \A k \in 0..n : g[k] = f[k]
    OBVIOUS
  <2>3. ASSUME NEW k \in 0..n + 1
        PROVE  g[k] = IF k = 0 THEN start ELSE Card!ImportLine(g[k - 1], k)
    <3>1. CASE k = n + 1
      <4>1. k # 0 /\ k - 1 = n /\ g[k - 1] = f[n]
        BY <2>2, <3>1
      <4> QED
        BY <3>1, <4>1
    <3>2. CASE k # n + 1
      <4>1. k \in 0..n /\ (k # 0 => k - 1 \in 0..n)
        BY <3>2
      <4>2. f[k] = IF k = 0 THEN start ELSE Card!ImportLine(f[k - 1], k)
        BY <1>0, <2>1, <4>1
      <4> QED
        BY <2>2, <4>1, <4>2
    <3> QED
      BY <3>1, <3>2
  <2>4. IsCardImport(g, n + 1)
    BY <1>0, <2>3
  <2> QED
    BY <2>4
<1> QED
  BY <1>1, <1>2, Numbers

(* What a line records or takes keeps the rows numbered.                     *)
LEMMA CardLineKeeps ==
  ASSUME NEW acc, NEW i, acc = [entries |-> acc.entries, rows |-> acc.rows, taken |-> acc.taken],
         Ids(DOMAIN acc.rows)
  PROVE  LET next == Card!ImportLine(acc, i)
         IN /\ next = [entries |-> next.entries, rows |-> next.rows, taken |-> next.taken]
            /\ Ids(DOMAIN next.rows)
<1> DEFINE next == Card!ImportLine(acc, i)
<1>1. /\ next = [entries |-> next.entries, rows |-> next.rows, taken |-> next.taken]
      /\ \/ DOMAIN next.rows = DOMAIN acc.rows
         \/ next.rows = Card!Extended(acc.rows, Card!NewId(acc.rows), Card!Recorded(i, cardJob.upload))
  BY DEF Card!ImportLine
<1> HIDE DEF next
<1>2. Ids(DOMAIN next.rows)
  BY <1>1, CardAdded
<1> QED
  BY <1>1, <1>2 DEF next

LEMMA CardImportKeeps ==
  ASSUME CardInv
  PROVE  Ids(DOMAIN Card!ImportLines.rows)
<1> DEFINE len == Len(cardSheet)
           Kind(acc) == acc = [entries |-> acc.entries, rows |-> acc.rows, taken |-> acc.taken]
<1>1. len \in Nat
  BY DEF CardInv, LineCount
<1>2. PICK f : IsCardImport(f, len) /\ Card!ImportLines = f[len]
  BY <1>1, CardImportRecursion, CardImportExists
<1> DEFINE S == {n \in Nat : n <= len => Kind(f[n]) /\ Ids(DOMAIN f[n].rows)}
<1>3. 0 \in S
  <2>1. f[0] = [entries |-> <<>>, rows |-> cardRows, taken |-> {}]
    BY <1>1, <1>2 DEF IsCardImport
  <2> QED
    BY <2>1 DEF CardInv
<1>4. ASSUME NEW n \in S PROVE n + 1 \in S
  <2>1. SUFFICES ASSUME n + 1 <= len PROVE Kind(f[n + 1]) /\ Ids(DOMAIN f[n + 1].rows)
    OBVIOUS
  <2>2. n \in Nat /\ Kind(f[n]) /\ Ids(DOMAIN f[n].rows)
    BY <1>1, <2>1
  <2>3. n + 1 \in 0..len /\ n + 1 # 0 /\ (n + 1) - 1 = n
    BY <1>1, <2>1, <2>2
  <2>4. f[n + 1] = Card!ImportLine(f[(n + 1) - 1], n + 1)
    BY <1>2, <2>3 DEF IsCardImport
  <2>5. f[n + 1] = Card!ImportLine(f[n], n + 1)
    BY <2>3, <2>4
  <2> QED
    BY <2>2, <2>5, CardLineKeeps
<1> HIDE DEF S
<1>5. S = Nat
  <2>1. S \subseteq Nat
    BY DEF S
  <2> QED
    BY <1>3, <1>4, <2>1, Numbers
<1>6. Ids(DOMAIN f[len].rows)
  <2>1. len \in S /\ len <= len
    BY <1>1, <1>5
  <2> HIDE DEF Kind, len
  <2> QED
    BY <2>1 DEF S
<1> QED
  BY <1>2, <1>6

LEMMA CardInvStep == CardInv /\ [Card!Next]_(Card!vars) => CardInv'
<1> SUFFICES ASSUME CardInv, [Card!Next]_(Card!vars) PROVE CardInv'
  OBVIOUS
<1>1. ASSUME NEW row, Card!Post(row) PROVE CardInv'
  BY <1>1, CardAdded DEF CardInv, LineCount, Card!Post
<1>2. ASSUME NEW how, NEW u, Card!Begin(how, u) PROVE CardInv'
  BY <1>2 DEF CardInv, LineCount, Card!Begin
<1>3. CASE Card!Enrich
  BY <1>3 DEF CardInv, LineCount, Card!Enrich
<1>4. CASE Card!Import
  <2>1. cardSheet' = cardSheet /\ cardRows' \in {cardRows, Card!ImportLines.rows}
    BY <1>4 DEF Card!Import
  <2> QED
    BY <2>1, CardImportKeeps DEF CardInv, LineCount
<1>5. ASSUME NEW u, NEW i, NEW r, Card!Answer(u, i, r) PROVE CardInv'
  <2>1. cardSheet' = cardSheet /\ DOMAIN cardRows' \subseteq DOMAIN cardRows
    BY <1>5 DEF Card!Answer
  <2> QED
    BY <2>1 DEF CardInv, LineCount, Ids
<1>6. ASSUME NEW u, Card!Delete(u) PROVE CardInv'
  BY <1>6 DEF CardInv, LineCount, Card!Delete
<1>7. ASSUME NEW r \in DOMAIN cardRows, Card!Void(r) PROVE CardInv'
  <2>1. cardSheet' = cardSheet /\ DOMAIN cardRows' = DOMAIN cardRows
    BY <1>7 DEF Card!Void
  <2> QED
    BY <2>1 DEF CardInv, LineCount
<1>8. CASE UNCHANGED Card!vars
  BY <1>8 DEF CardInv, LineCount, Card!vars
<1> QED
  BY <1>1, <1>2, <1>3, <1>4, <1>5, <1>6, <1>7, <1>8 DEF Card!Next

LEMMA CardOrderNeverTells == CardInv => Card!OrderFree
<1> SUFFICES ASSUME CardInv PROVE Card!OrderFree
  OBVIOUS
<1> DEFINE Ls == DOMAIN cardSheet
           lines(p) == [i \in Ls |-> cardSheet[p[i]]]
           recon(p) == Card!Reconcile(lines(p), cardRows, Cards)
           writes(line) == <<Card!RefreshIdentity(line), line.amt>>
           written(p) == {[row |-> recon(p).row[i], foreign |-> i \in recon(p).foreign,
                           as |-> writes(lines(p)[i])] : i \in {i \in Ls : recon(p).row[i] # Card!NoRow}}
           orders == {p \in [Ls -> Ls] : Card!IsInjective(p)}
<1>1. Len(cardSheet) \in Nat /\ Ls = 1..Len(cardSheet) /\ Ids(DOMAIN cardRows)
  BY DEF CardInv, LineCount
<1>2. IsFiniteSet(Ls)
  <2>1. 1 \in Int /\ Len(cardSheet) \in Int
    BY <1>1
  <2> QED
    BY <1>1, <2>1, FS_Interval
<1>3. ASSUME NEW p \in orders, NEW i \in Ls PROVE \E k \in Ls : p[k] = i
  <2>1. p \in Injection(Ls, Ls)
    BY DEF Injection, IsInjective, Card!IsInjective
  <2>2. p \in Surjection(Ls, Ls)
    BY <1>2, <2>1, FS_Injection
  <2> QED
    BY <2>2 DEF Surjection
<1>4. ASSUME NEW p \in orders PROVE LineCount(lines(p)) /\ DOMAIN lines(p) = Ls
  <2> DEFINE n == Len(cardSheet)
             f == [i \in 1..n |-> cardSheet[p[i]]]
  <2>1. n \in Nat
    BY <1>1
  <2> HIDE DEF n
  <2>2. DOMAIN f = 1..n /\ Len(f) = n
    BY <2>1
  <2>3. lines(p) = f
    BY <1>1 DEF n
  <2> QED
    BY <1>1, <2>1, <2>2, <2>3 DEF LineCount, n
<1>5. ASSUME NEW p \in orders, NEW q \in orders, NEW i \in Ls, NEW j \in Ls,
             recon(p).row[i] # NoRow, recon(p).row[i] = recon(q).row[j]
      PROVE  \/ writes(lines(p)[i]) = writes(lines(q)[j])
             \/ /\ (i \in recon(p).foreign) # (j \in recon(q).foreign)
                /\ cardRows[recon(p).row[i]].manual
  <2>1. PICK k \in Ls : p[k] = q[j]
    BY <1>3
  <2>2. PICK l \in Ls : q[l] = p[i]
    BY <1>3
  <2>3. lines(p)[k] = lines(q)[j] /\ lines(q)[l] = lines(p)[i]
    BY <2>1, <2>2
  <2>4. LineCount(lines(p)) /\ DOMAIN lines(p) = Ls /\ LineCount(lines(q)) /\ DOMAIN lines(q) = Ls
    BY <1>4
  <2> HIDE DEF lines
  <2>5. \/ /\ lines(p)[i].amt = lines(q)[j].amt
           /\ Card!RefreshIdentity(lines(p)[i]) = Card!RefreshIdentity(lines(q)[j])
        \/ /\ (i \in recon(p).foreign) # (j \in recon(q).foreign)
           /\ cardRows[recon(p).row[i]].manual
    BY <1>1, <1>5, <2>3, <2>4, CardOrdersAgree
  <2> QED
    BY <2>5
<1> HIDE DEF lines, recon, writes
<1>6. \A w, x \in UNION {written(p) : p \in orders} :
        w.row = x.row => w.as = x.as \/ (w.foreign # x.foreign /\ cardRows[w.row].manual)
  <2>1. SUFFICES ASSUME NEW p \in orders, NEW q \in orders, NEW w \in written(p), NEW x \in written(q),
                        w.row = x.row
                 PROVE  w.as = x.as \/ (w.foreign # x.foreign /\ cardRows[w.row].manual)
    OBVIOUS
  <2>2. PICK i \in Ls : /\ recon(p).row[i] # Card!NoRow
                        /\ w = [row |-> recon(p).row[i], foreign |-> i \in recon(p).foreign,
                                as |-> writes(lines(p)[i])]
    OBVIOUS
  <2>3. PICK j \in Ls : x = [row |-> recon(q).row[j], foreign |-> j \in recon(q).foreign,
                             as |-> writes(lines(q)[j])]
    OBVIOUS
  <2> QED
    BY <1>5, <2>1, <2>2, <2>3, CardWords
<1> QED
  BY <1>6 DEF Card!OrderFree, Card!Lines, lines, recon, writes

(* The order of the lines of a card's statement never changes what is written *)
(* into a row, whatever the ledger, the lines and what their names and masks  *)
(* have in common: the greedy pass, the contests, the names and the pairing   *)
(* of foreign spends settle a row alike or leave it alone. Only a row whose   *)
(* amount was typed by hand can be an exact match in one order and a foreign  *)
(* spend in another.                                                         *)
THEOREM CardOrderNeverMatters ==
  (\A lines \in CardSheets : LineCount(lines)) => (Card!Spec => []Card!OrderFree)
<1> SUFFICES ASSUME \A lines \in CardSheets : LineCount(lines) PROVE Card!Spec => []Card!OrderFree
  OBVIOUS
<1>1. Card!Init => CardInv
  BY DEF Card!Init, CardInv, Ids
<1> QED
  BY <1>1, CardInvStep, CardOrderNeverTells, PTL DEF Card!Spec
=============================================================================
