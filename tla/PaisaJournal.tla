---------------------------- MODULE PaisaJournal ----------------------------
(* The projection of the dashboard onto a journal (services/paisa/          *)
(* projection.py, accounting.py, renderers/base.py) and the balances   *)
(* it arrives at (reconciliation.py).  Both only read: what they compute is a *)
(* function of the tables and of the settings.                               *)
(*                                                                           *)
(* A table is a record "db" of sets: accounts (id -> type), cards, rows,     *)
(* snaps, cas, manual (labels of the active items).  The settings are a      *)
(* record "cfg".  Metadata, payees and the text of the file are left out.    *)
EXTENDS Integers, FiniteSets, Sequences, SequencesExt, FiniteSetsExt

CONSTANT Null

(***************************************************************************)
(* Accounting policy                                                        *)
(***************************************************************************)
INR == "INR"
IncomeSlugs     == {"salary", "interest", "other_income", "tax_refund"}
InvestmentSlugs == {"investment", "investment_redemption"}
ContraSlugs     == {"refund", "cashback_rewards"}
OwedSlugs       == {"personal_loan", "passthrough"}

AccountKind(type) == IF type = "credit_card" THEN "liability" ELSE "asset"

\* Names are their root and the rest; an override of the operator wins.
NameOf(cfg, db, acct) ==
  IF acct \in DOMAIN cfg.names THEN cfg.names[acct]
  ELSE IF AccountKind(db.accounts[acct]) = "liability"
       THEN <<"Liabilities", "Card", acct>> ELSE <<"Assets", "Bank", acct>>

Unallocated  == <<"Assets", "Investments", "Unallocated">>
TransfersIn  == <<"Equity", "Transfers In">>
Revaluation  == <<"Equity", "Revaluation">>
CardClearing(cfg) == IF "credit_card_payment" \in DOMAIN cfg.cats
                     THEN cfg.cats["credit_card_payment"]
                     ELSE <<"Liabilities", "Credit Card">>

CategoryKind(slug) ==
  CASE slug \in IncomeSlugs          -> "income"
    [] slug \in ContraSlugs          -> "contra_expense"
    [] slug \in InvestmentSlugs      -> "investment"
    [] slug = "repayment"            -> "repayment"
    [] slug \in OwedSlugs            -> "liability"
    [] slug \in {Null, "unknown", "misc"} -> "unknown"
    [] OTHER                         -> "expense"

\* The other side of a row follows from its category, never from its
\* direction: a credit on an expense is money back, not income.
ContraAccount(cfg, slug) ==
  IF slug \in DOMAIN cfg.cats THEN cfg.cats[slug]
  ELSE CASE CategoryKind(slug) = "investment" -> Unallocated
         [] CategoryKind(slug) = "repayment"  -> TransfersIn
         [] CategoryKind(slug) = "liability"  -> <<"Liabilities", slug>>
         [] CategoryKind(slug) = "income"     -> <<"Income", slug>>
         [] CategoryKind(slug) = "unknown"    -> <<"Expenses", "Unknown">>
         [] OTHER                             -> <<"Expenses", slug>>

Sign(dir) == IF dir = "credit" THEN 1 ELSE -1

(***************************************************************************)
(* Currency: a row is shown in its own or not at all                        *)
(***************************************************************************)
\* _normalize_fx_currency: spellings of one symbol meet, a value that is no
\* symbol is Null.
Symbol(raw) == CASE raw = "usd" -> "USD" [] raw = "?" -> Null [] OTHER -> raw

Commodity(r) == IF r.ccy = Null THEN INR ELSE Symbol(r.ccy)

\* fx_rate_for: the latest configured rate on or before the day.
RatesFor(cfg, ccy, day) == {q \in cfg.rates : q.ccy = ccy /\ q.day =< day}
FxRate(cfg, ccy, day) ==
  (CHOOSE q \in RatesFor(cfg, ccy, day) :
     \A p \in RatesFor(cfg, ccy, day) : p.day =< q.day).rate

FxSkip(cfg, r) ==
  CASE Commodity(r) = INR -> Null
    [] Commodity(r) = Null -> "invalid_currency"
    [] cfg.policy # "priced" -> "non_inr"
    [] RatesFor(cfg, Commodity(r), r.day) = {} -> "missing_fx_rate"
    [] OTHER -> Null

(***************************************************************************)
(* Openings at the cutover                                                  *)
(***************************************************************************)
Newest(table) == CHOOSE s \in table :
                   \A t \in table \ {s} : t.day < s.day
                                            \/ (t.day = s.day /\ t.id < s.id)

SnapshotsBefore(cfg, db, acct) ==
  {s \in db.snaps : s.acct = acct /\ s.day =< cfg.cutover /\ s.ccy = INR}

\* The running balance of the last row before the cutover that has one.
RunningBefore(cfg, db, acct) ==
  {r \in db.rows : /\ r.acct = acct /\ r.day # Null /\ r.bal # Null
                   /\ r.day =< cfg.cutover /\ r.ccy \in {Null, INR}}

Opening(cfg, db, acct) ==
  LET snaps == SnapshotsBefore(cfg, db, acct)
      rows  == RunningBefore(cfg, db, acct)
      side  == IF AccountKind(db.accounts[acct]) = "liability" THEN -1 ELSE 1
  IN  CASE snaps # {} -> side * Newest(snaps).value
        [] snaps = {} /\ rows # {} -> side * Newest(rows).bal
        [] OTHER -> Null

(***************************************************************************)
(* The rows in scope and what becomes of each                               *)
(***************************************************************************)
Known(cfg, db) == cfg.selected \cap DOMAIN db.accounts

InScope(cfg, db) ==
  {r \in db.rows : r.acct \in cfg.selected /\ r.day # Null /\ r.day > cfg.cutover}

Eligible(cfg, db) == {r \in InScope(cfg, db) : FxSkip(cfg, r) = Null}

\* _pair_self_transfers
Transfers(cfg, db) == {r \in Eligible(cfg, db) : r.cat = "self_transfer"}
Group(cfg, db, ref) == {r \in Transfers(cfg, db) : r.ref = ref}
Side(group, dir) == {r \in group : r.dir = dir}

\* The one debit and the one credit of a reference, of the same amount and
\* currency and both on known accounts; anything else is not guessed.
CleanPair(cfg, db, ref) ==
  LET group == Group(cfg, db, ref)
  IN  /\ ref # Null
      /\ Cardinality(Side(group, "debit")) = 1
      /\ Cardinality(Side(group, "credit")) = 1
      /\ \A r, s \in group : r.amt = s.amt /\ Commodity(r) = Commodity(s)
      /\ \A r \in group : r.acct \in Known(cfg, db)

PairedRefs(cfg, db) ==
  {ref \in {r.ref : r \in Transfers(cfg, db)} : CleanPair(cfg, db, ref)}

\* The selected cards by id and by mask; a mask two of them share is none's.
SelectedCards(cfg, db) ==
  {c \in db.cards : /\ c.acct \in Known(cfg, db)
                    /\ AccountKind(db.accounts[c.acct]) = "liability"}

ResolveCard(cfg, db, r) ==
  LET byId   == {c \in SelectedCards(cfg, db) : c.id = r.card}
      byMask == {c \in SelectedCards(cfg, db) : r.mask # Null /\ c.mask = r.mask}
  IN  CASE r.card # Null /\ byId # {} -> CHOOSE c \in byId : TRUE
        [] ~ (r.card # Null /\ byId # {}) /\ Cardinality(byMask) = 1
             -> CHOOSE c \in byMask : TRUE
        [] OTHER -> Null

IsPayment(r) == r.cat = "credit_card_payment"
OnCard(db, r) == AccountKind(db.accounts[r.acct]) = "liability"

\* The rows of the linear pass: what pairing left.
Linear(cfg, db) == Eligible(cfg, db) \ Transfers(cfg, db)

Emitted(cfg, db) ==
  {r \in Linear(cfg, db) : /\ r.acct \in DOMAIN db.accounts
                           /\ ~ (IsPayment(r) /\ OnCard(db, r))}

Skipped(cfg, db) ==
     {<<r.id, FxSkip(cfg, r)>> : r \in {s \in InScope(cfg, db) : FxSkip(cfg, s) # Null}}
  \cup {<<r.id, "unmatched_self_transfer">> :
          r \in {s \in Transfers(cfg, db) : s.ref \notin PairedRefs(cfg, db)}}
  \cup {<<r.id, "orphan">> :
          r \in {s \in Linear(cfg, db) : s.acct \notin DOMAIN db.accounts}}
  \cup {<<r.id, "card_side_payment">> :
          r \in {s \in Linear(cfg, db) : /\ s.acct \in DOMAIN db.accounts
                                         /\ IsPayment(s) /\ OnCard(db, s)}}

(***************************************************************************)
(* Entries                                                                  *)
(***************************************************************************)
Posting(account, amount, ccy) == [account |-> account, amount |-> amount, ccy |-> ccy]

Entry(day, rows, kind, from, to, amount, ccy) ==
  [day |-> day, rows |-> rows, kind |-> kind, ccy |-> ccy,
   postings |-> <<Posting(from, amount, ccy), Posting(to, -amount, ccy)>>]

TransferEntry(cfg, db, ref) ==
  LET group  == Group(cfg, db, ref)
      debit  == CHOOSE r \in group : r.dir = "debit"
      credit == CHOOSE r \in group : r.dir = "credit"
  IN  Entry(Min({debit.day, credit.day}), {debit.id, credit.id}, "self_transfer",
            NameOf(cfg, db, debit.acct), NameOf(cfg, db, credit.acct),
            -debit.amt, Commodity(debit))

\* A redemption has no projected lot to retire: unless the operator mapped its
\* category, it does not make the unallocated purchases negative.
RedemptionUnallocated(cfg, r) ==
  /\ cfg.invest /\ r.cat \in InvestmentSlugs /\ r.cat \notin DOMAIN cfg.cats
  /\ r.dir = "credit"

\* Mutant: the amount of a card payment never turns its sign.
PaymentOneWay(cfg, db, r) ==
  IF ResolveCard(cfg, db, r) = Null THEN <<CardClearing(cfg), -r.amt>>
  ELSE <<NameOf(cfg, db, ResolveCard(cfg, db, r).acct), -r.amt>>

\* The liability a payment from the bank settles, and what it moves there.
PaymentTo(cfg, db, r) ==
  IF ResolveCard(cfg, db, r) = Null
  THEN <<CardClearing(cfg), Sign(r.dir) * r.amt>>
  ELSE <<NameOf(cfg, db, ResolveCard(cfg, db, r).acct), Sign(r.dir) * r.amt>>

RowEntry(cfg, db, r) ==
  LET name == NameOf(cfg, db, r.acct)
      ccy  == Commodity(r)
  IN  CASE IsPayment(r) ->
             Entry(r.day, {r.id}, "card_payment", name, PaymentTo(cfg, db, r)[1],
                   PaymentTo(cfg, db, r)[2], ccy)
        [] ~ IsPayment(r) /\ RedemptionUnallocated(cfg, r) ->
             Entry(r.day, {r.id}, "investment", name, TransfersIn,
                   Sign(r.dir) * r.amt, ccy)
        [] OTHER ->
             Entry(r.day, {r.id}, CategoryKind(r.cat), name,
                   ContraAccount(cfg, r.cat), Sign(r.dir) * r.amt, ccy)

(***************************************************************************)
(* CAS portfolios: their value over time, and nothing else                  *)
(***************************************************************************)
PortfolioRows(db) == {s \in db.snaps : s.category = "investment" /\ s.cas # Null}

\* The row that stands for a portfolio on a day; the currency is looked at
\* only then, and another than INR counts as nothing.
Winners(db, key) ==
  LET rows == {s \in PortfolioRows(db) : s.key = key}
  IN  {s \in rows : \A t \in rows : t.day = s.day => t.id =< s.id}

Worth(s) == IF s.ccy = INR THEN s.value ELSE 0

\* The account of a portfolio: a token of its key; without a key or without
\* the secret of the installation, the shared account.
PortfolioName(cfg, key) ==
  IF key = Null \/ ~ cfg.secret THEN <<"Assets", "Investments", "Valuation">>
  ELSE <<"Assets", "Investments", "Valuation", key>>

\* An opening at the cutover, then the change each later statement brings.
ValuationEntries(cfg, db, key) ==
  LET points  == SetToSortSeq(Winners(db, key), LAMBDA s, t : s.day < t.day)
      before  == SelectSeq(points, LAMBDA s : s.day =< cfg.cutover)
      later   == SelectSeq(points, LAMBDA s : s.day > cfg.cutover)
      opening == IF before = <<>> THEN 0 ELSE Worth(Last(before))
      Running(i) == IF i = 0 THEN opening ELSE Worth(later[i])
      Value(day, amount) == Entry(day, {}, "investment_valuation",
                                  PortfolioName(cfg, key), Revaluation, amount, INR)
  IN  (IF opening = 0 THEN {} ELSE {<<<<"value", key>>, Value(cfg.cutover, opening)>>})
      \cup {<<<<"value", key>>, Value(later[i].day, Running(i) - Running(i - 1))>> :
              i \in {j \in DOMAIN later : Running(j) # Running(j - 1)}}

CasSources(db) == {u.key : u \in db.cas} \cup {s.key : s \in PortfolioRows(db)}
Projected(cfg, db) == cfg.invest /\ CasSources(db) # {}

Valuations(cfg, db) ==
  IF ~ Projected(cfg, db) THEN {}
  ELSE UNION {ValuationEntries(cfg, db, s.key) : s \in PortfolioRows(db)}

\* Uploads no snapshot stands for.
Unrepresented(db) ==
  {u \in db.cas : u.id \notin UNION {{s.cas : s \in Winners(db, t.key)} :
                                       t \in PortfolioRows(db)}}

CasScope(cfg, db) ==
  CASE CasSources(db) = {} -> "none"
    [] CasSources(db) # {} /\ ~ cfg.invest -> "excluded"
    [] OTHER -> IF Unrepresented(db) = {} THEN "included" ELSE "partial"

\* The journal leaves nothing of the net worth out.
ScopeComplete(cfg, db) ==
  /\ db.manual = {}
  /\ CasScope(cfg, db) \in {"none", "included"}
  /\ ~ \E r \in Emitted(cfg, db) : /\ ~ IsPayment(r) /\ cfg.invest
                                   /\ r.cat \in InvestmentSlugs
                                   /\ r.cat \notin DOMAIN cfg.cats

(***************************************************************************)
(* The journal                                                              *)
(***************************************************************************)
\* Each entry with what it came from, so that equal ones stay two.
Entries(cfg, db) ==
     {<<<<"pair", ref>>, TransferEntry(cfg, db, ref)>> : ref \in PairedRefs(cfg, db)}
  \cup {<<<<"row", r.id>>, RowEntry(cfg, db, r)>> : r \in Emitted(cfg, db)}
  \cup Valuations(cfg, db)

\* Only rows that are shown bring a price, one for a day and a currency.
Prices(cfg, db) ==
  {[day |-> r.day, ccy |-> Commodity(r), rate |-> FxRate(cfg, Commodity(r), r.day)] :
     r \in {s \in Emitted(cfg, db)
                    \cup {t \in Transfers(cfg, db) : t.ref \in PairedRefs(cfg, db)} :
              Commodity(s) # INR}}

\* check_balanced: an entry that does not sum to zero is never written.
Balanced(entry) ==
  \A ccy \in {entry.postings[i].ccy : i \in DOMAIN entry.postings} :
    FoldLeft(LAMBDA sum, p : IF p.ccy = ccy THEN sum + p.amount ELSE sum,
             0, entry.postings) = 0

Moved(entries, names, ccy) ==
  LET Of(e) == FoldLeft(LAMBDA sum, p :
                 IF p.ccy = ccy /\ p.account \in names THEN sum + p.amount ELSE sum,
                 0, e[2].postings)
  IN  MapThenSumSet(Of, entries)

(***************************************************************************)
(* Reconciliation: the balance of an account that the journal arrives at     *)
(***************************************************************************)
\* _balance_by_posting_account and build_reconciliation: the opening of the
\* account and what was posted on its name, in INR, with the sign of the
\* native balance.
ProjectedBalance(cfg, db, acct) ==
  LET base == IF Opening(cfg, db, acct) = Null THEN 0 ELSE Opening(cfg, db, acct)
      sum  == base + Moved(Entries(cfg, db), {NameOf(cfg, db, acct)}, INR)
  IN  IF AccountKind(db.accounts[acct]) = "liability" THEN -sum ELSE sum

=============================================================================
