----------------------------- MODULE CashReport -----------------------------
(* The cash-basis report (services/cashflow): the account scopes, the        *)
(* buckets, the summary of a range with the lists its lines link to, the      *)
(* monthly trend, and the bridge from the opening to the closing balance.     *)
(* All of it only reads: operators over a record "db" of the tables accounts  *)
(* (id -> type), rows, uploads (bank statements) and snaps.                   *)
EXTENDS Integers, FiniteSets, Sequences, SequencesExt, FiniteSetsExt, Functions

CONSTANTS
  Null,
  UserExpense,   \* slugs of categories a user created, by their stored bucket
  UserIncome,
  MonthDays      \* days are integers; a month is so many of them

SumOf(Amount(_), set) == SumFunctionOnSet([x \in set |-> Amount(x)], set)

(***************************************************************************)
(* Account scope and buckets                                                *)
(***************************************************************************)
BankTypes == {"bank_account", "debit_card"}

ScopeOf(db, r) ==
  CASE r.acct \in DOMAIN db.accounts /\ db.accounts[r.acct] \in BankTypes -> "bank"
    [] r.acct \in DOMAIN db.accounts /\ db.accounts[r.acct] = "credit_card" -> "card"
    [] OTHER -> "unaccounted"

ExpenseGuard ==
  {"expense", "bill_payment", "groceries", "dining", "cafe", "fuel", "car_maintenance",
   "transport", "shopping", "utilities", "subscriptions", "rent", "emi_loan",
   "insurance", "healthcare", "entertainment", "travel", "education", "personal_care",
   "fees_charges", "laundry", "professional_services", "tax", "cash_withdrawal",
   "charity_gift", "gift"}
IncomeGuard ==
  {"salary", "interest", "refund", "cashback_rewards", "other_income", "repayment",
   "investment_redemption", "tax_refund"}

MoneyBack        == {"refund", "cashback_rewards", "reimbursement"}
InvestmentBucket == {"investment", "investment_redemption"}
IncomeBucket     == IncomeGuard \ (MoneyBack \cup {"investment_redemption", "repayment"})
ExpenseBucket    == ExpenseGuard \cup MoneyBack \cup {"cash_withdrawal", "misc"}
BankInternal     == {"self_transfer", "passthrough", "personal_loan"}

\* Mutant: the list knows one set of internal categories only.
AlwaysAll(scope) == BankInternal \cup {"credit_card_payment"}

InternalSlugs(scope) ==
  IF scope = "bank" THEN BankInternal ELSE BankInternal \cup {"credit_card_payment"}

Mapped == IncomeBucket \cup ExpenseBucket \cup InvestmentBucket
            \cup InternalSlugs(Null) \cup {"repayment", "family"}

Blank == {Null, ""}

\* The map decides for a built-in slug, the stored bucket for a user's.
BucketForSlug(slug, scope, dir) ==
  IF slug \in Blank \cup {"unknown"} THEN "uncategorized"
  ELSE IF scope = "bank" /\ slug = "credit_card_payment" THEN "expense"
  ELSE IF slug = "gift" THEN IF dir = "credit" THEN "income" ELSE "expense"
  ELSE IF slug \in InternalSlugs(scope) THEN "internal"
  ELSE IF slug = "repayment" THEN "transfers_in"
  ELSE IF slug = "family" THEN "family"
  ELSE IF slug \in InvestmentBucket THEN "investment"
  ELSE IF slug \in IncomeBucket THEN "income"
  ELSE IF slug \in ExpenseBucket \cup (UserExpense \ Mapped) THEN "expense"
  ELSE IF slug \in UserIncome \ Mapped THEN "income"
  ELSE "uncategorized"

(***************************************************************************)
(* Populations                                                              *)
(***************************************************************************)
Flow(r) == IF r.dir = "credit" THEN r.amt ELSE -r.amt

Rupees(r)        == r.ccy \in {Null, "INR"}
Included(r)      == ~ r.excluded /\ ~ r.voided
Excluded(r)      == r.excluded /\ ~ r.voided
Dated(r)         == r.day # Null
InRange(r, from, to) == Dated(r) /\ from =< r.day /\ r.day =< to

Uncategorized(r) == \/ r.cat \in Blank \cup {"unknown"}
                    \/ r.cat \notin Mapped \cup UserExpense \cup UserIncome

(***************************************************************************)
(* The list of transactions and its filters (web/transactions.py)           *)
(***************************************************************************)
\* An absent filter is Null.
AnyRow == [cat |-> Null, dir |-> Null, party |-> Null, from |-> Null, to |-> Null,
           uncategorized |-> FALSE, noCategory |-> FALSE, internal |-> FALSE,
           rupees |-> Null, undated |-> FALSE, excluded |-> Null, scope |-> Null]

Listed(db, q) ==
  {r \in db.rows :
     /\ q.cat = Null \/ r.cat = q.cat
     /\ q.dir = Null \/ r.dir = q.dir
     \* a blank counterparty asks for the rows without one
     /\ q.party = Null \/ r.party = q.party \/ (q.party = "" /\ r.party = Null)
     /\ q.from = Null \/ (Dated(r) /\ r.day >= q.from)
     /\ q.to = Null \/ (Dated(r) /\ r.day =< q.to)
     /\ q.uncategorized => Uncategorized(r)
     /\ q.noCategory => r.cat \in Blank
     /\ q.internal => r.cat \in InternalSlugs(q.scope)
     /\ q.rupees = Null \/ q.rupees = Rupees(r)
     /\ q.undated => ~ Dated(r) /\ ~ r.voided
     /\ q.excluded = Null \/ (IF q.excluded THEN Excluded(r) ELSE Included(r))
     /\ q.scope = Null \/ ScopeOf(db, r) = q.scope}

\* The query strings the page builds its links from (cashflow/index.html).
RangeQuery(from, to)  == [AnyRow EXCEPT !.from = from, !.to = to]
BankQuery(from, to)   == [RangeQuery(from, to) EXCEPT !.scope = "bank", !.excluded = FALSE]
CoreQuery(from, to)   == [BankQuery(from, to) EXCEPT !.rupees = TRUE]
DetailQuery(from, to) == [RangeQuery(from, to) EXCEPT !.rupees = TRUE, !.excluded = FALSE]

(***************************************************************************)
(* The summary of a range                                                   *)
(***************************************************************************)
\* The rows of the headline buckets, and of one bucket.
Headline(db, from, to) ==
  {r \in db.rows : InRange(r, from, to) /\ Rupees(r) /\ Included(r)
                     /\ ScopeOf(db, r) = "bank"}
InBucket(db, from, to, bucket) ==
  {r \in Headline(db, from, to) : BucketForSlug(r.cat, "bank", r.dir) = bucket}

TransfersIn(db, from, to) ==
  {r \in Headline(db, from, to) : r.cat = "repayment"}
UncategorizedRows(db, from, to) ==
  {r \in db.rows : InRange(r, from, to) /\ Included(r) /\ Uncategorized(r)
                     /\ ScopeOf(db, r) = "bank"}
\* What was bought: every account, where a card bill is internal again.
Bought(db, from, to) ==
  {r \in db.rows : InRange(r, from, to) /\ Rupees(r) /\ Included(r)
                     /\ BucketForSlug(r.cat, Null, r.dir) = "expense"}

InternalRows(db, from, to) ==
  {r \in db.rows : InRange(r, from, to) /\ Included(r) /\ r.cat \in BankInternal
                     /\ ScopeOf(db, r) = "bank"}
ForeignRows(db, from, to) ==
  {r \in db.rows : InRange(r, from, to) /\ Included(r) /\ ~ Rupees(r)
                     /\ ScopeOf(db, r) = "bank"}
UnaccountedRows(db, from, to) ==
  {r \in db.rows : InRange(r, from, to) /\ Included(r) /\ ScopeOf(db, r) = "unaccounted"}
FamilyRows(db, from, to) ==
  {r \in db.rows : InRange(r, from, to) /\ Included(r) /\ r.cat = "family"}
ExcludedRows(db, from, to) ==
  {r \in db.rows : InRange(r, from, to) /\ Excluded(r)}
UndatedRows(db) == {r \in db.rows : ~ Dated(r) /\ ~ r.voided}

Earned(db, from, to)   == SumOf(Flow, InBucket(db, from, to, "income"))
Spent(db, from, to)    == -SumOf(Flow, InBucket(db, from, to, "expense"))
Invested(db, from, to) == -SumOf(Flow, InBucket(db, from, to, "investment"))
NetCashRetained(db, from, to) ==
  Earned(db, from, to) + SumOf(Flow, TransfersIn(db, from, to))
    - Spent(db, from, to) - Invested(db, from, to)

\* The lines of the page: the rows each counts and the list it links to.
ByCategory(rows, link) ==
  {[rows |-> {s \in rows : s.cat = r.cat}, link |-> [link EXCEPT !.cat = r.cat]] :
     r \in {s \in rows : s.cat # "gift"}}
\* A gift is spent or received by its direction, and so is its link.
GiftLines(rows, dir, link) ==
  {[rows |-> {s \in rows : s.cat = "gift"},
    link |-> [link EXCEPT !.cat = "gift", !.dir = dir]] :
     r \in {s \in rows : s.cat = "gift"}}

Lines(db, from, to) ==
  LET core   == CoreQuery(from, to)
      bank   == BankQuery(from, to)
      gains  == InBucket(db, from, to, "income")
      spend  == InBucket(db, from, to, "expense")
      moved  == InBucket(db, from, to, "investment")
      backed == TransfersIn(db, from, to)
      loose  == UncategorizedRows(db, from, to)
      bought == Bought(db, from, to)
  IN  ByCategory(gains, core) \cup GiftLines(gains, "credit", core)
      \cup ByCategory(spend, core) \cup GiftLines(spend, "debit", core)
      \cup {[rows |-> {s \in moved : s.cat = r.cat /\ s.dir = r.dir},
             link |-> [core EXCEPT !.cat = r.cat, !.dir = r.dir]] : r \in moved}
      \cup {[rows |-> {s \in backed : s.party = r.party},
             link |-> [core EXCEPT !.cat = "repayment",
                         !.party = IF r.party = Null THEN "" ELSE r.party]] : r \in backed}
      \cup ByCategory({r \in loose : r.cat \notin Blank}, bank)
      \cup {[rows |-> {r \in loose : r.cat \in Blank},
             link |-> [bank EXCEPT !.noCategory = TRUE]]}
      \cup ByCategory(bought, DetailQuery(from, to))
      \cup GiftLines(bought, "debit", DetailQuery(from, to))
      \cup {[rows |-> loose, link |-> [bank EXCEPT !.uncategorized = TRUE]],
            [rows |-> InternalRows(db, from, to), link |-> [bank EXCEPT !.internal = TRUE]],
            [rows |-> ForeignRows(db, from, to), link |-> [bank EXCEPT !.rupees = FALSE]],
            [rows |-> UndatedRows(db), link |-> [AnyRow EXCEPT !.undated = TRUE]],
            [rows |-> FamilyRows(db, from, to),
             link |-> [RangeQuery(from, to) EXCEPT !.cat = "family", !.excluded = FALSE]],
            [rows |-> UnaccountedRows(db, from, to),
             link |-> [RangeQuery(from, to) EXCEPT !.scope = "unaccounted", !.excluded = FALSE]],
            [rows |-> ExcludedRows(db, from, to),
             link |-> [RangeQuery(from, to) EXCEPT !.excluded = TRUE]]}

(***************************************************************************)
(* The monthly trend: one scan, grouped by month                            *)
(***************************************************************************)
Month(day) == day \div MonthDays

\* The range a click on a month selects; the last month ends today.
TrendRange(month, today) ==
  <<month * MonthDays, Min({month * MonthDays + MonthDays - 1, today})>>

TrendPoint(db, months, today, month) ==
  LET window == (Month(today) - months + 1) * MonthDays
      rows(bucket) == {r \in Headline(db, window, today) :
                         Month(r.day) = month
                           /\ BucketForSlug(r.cat, "bank", r.dir) = bucket}
  IN  [income   |-> SumOf(Flow, rows("income")),
       expense  |-> -SumOf(Flow, rows("expense")),
       invested |-> -SumOf(Flow, rows("investment"))]

(***************************************************************************)
(* The bridge: balances                                                     *)
(***************************************************************************)
BankRows(db) == {r \in db.rows : ScopeOf(db, r) = "bank" /\ ~ r.voided /\ Dated(r)}

FlowBetween(db, acct, after, upto) ==
  SumOf(Flow, {r \in BankRows(db) : r.acct = acct /\ after < r.day /\ r.day =< upto})

\* The order of the rows of a day; a row without a time comes first.
Earlier(r, s) ==
  LET Time(x) == IF x.at = Null THEN -1 ELSE x.at
  IN  Time(r) < Time(s) \/ (Time(r) = Time(s) /\ r.id < s.id)

\* _bank_flows: the running balance of a day's last row that has one, moved on
\* by the rows behind it.
Spoken(db, acct, day) ==
  {r \in BankRows(db) : r.acct = acct /\ r.day = day /\ r.bal # Null}
DayEnd(db, acct, day) ==
  LET last == CHOOSE r \in Spoken(db, acct, day) :
                \A s \in Spoken(db, acct, day) \ {r} : Earlier(s, r)
  IN  last.bal + SumOf(Flow, {r \in BankRows(db) : /\ r.acct = acct /\ r.day = day
                                                   /\ Earlier(last, r)})

\* Mutant: the statement's closing balance is taken as it is.
NothingLate(db, u) == 0

\* The rows of a statement, imported or matched, that are dated after its end.
LateFlow(db, u) ==
  SumOf(Flow, {r \in BankRows(db) : (r.upload = u.id \/ r.id \in u.names) /\ r.day > u.end})

Anchor(day, value, kind) == [day |-> day, value |-> value, kind |-> kind]

HasClosing(u) == u.end # Null /\ u.closing # Null
HasOpening(u) == u.start # Null /\ u.opening # Null

Closing(db, u) == Anchor(u.end, u.closing - LateFlow(db, u), "statement")

\* The next statement's opening has the late rows of the newest statement that
\* ends on that day in it.
Opening(db, u) ==
  LET before == {v \in db.uploads : v.acct = u.acct /\ HasClosing(v) /\ v.end = u.start - 1}
      late   == IF before = {} THEN 0
                ELSE LateFlow(db, CHOOSE v \in before : \A w \in before : w.id =< v.id)
  IN  Anchor(u.start - 1, u.opening - late, "statement")

\* Statements newest first, with their opening before their closing.
Statements(db, acct) ==
  SetToSortSeq({u \in db.uploads : u.acct = acct}, LAMBDA u, v : u.id > v.id)

StatementAnchors(db, acct) ==
  FlattenSeq([i \in DOMAIN Statements(db, acct) |->
    LET u == Statements(db, acct)[i]
    IN  (IF HasOpening(u) THEN <<Opening(db, u)>> ELSE <<>>)
          \o (IF HasClosing(u) THEN <<Closing(db, u)>> ELSE <<>>)])

SnapshotAnchors(db, acct) ==
  LET snaps == SetToSortSeq({s \in db.snaps : s.acct = acct /\ s.category = "bank_balance"},
                            LAMBDA s, t : s.id < t.id)
  IN  [i \in DOMAIN snaps |-> Anchor(snaps[i].day, snaps[i].value, "snapshot")]

\* Days in the order in which the scan meets their first balance.
DayEndAnchors(db, acct) ==
  LET spoken == {r \in BankRows(db) : r.acct = acct /\ r.bal # Null}
      firsts == {r \in spoken : \A s \in spoken \ {r} : s.day = r.day => Earlier(r, s)}
      days   == SetToSortSeq(firsts, Earlier)
  IN  [i \in DOMAIN days |->
         Anchor(days[i].day, DayEnd(db, acct, days[i].day), "transaction")]

Anchors(db, acct) ==
  StatementAnchors(db, acct) \o SnapshotAnchors(db, acct) \o DayEndAnchors(db, acct)

Distance(a, b) == IF a < b THEN b - a ELSE a - b

\* The balance a statement that covers the day implies, from its nearer end.
FromPeriod(db, u, day) ==
  IF day - (u.start - 1) =< u.end - day
  THEN Opening(db, u).value + FlowBetween(db, u.acct, u.start - 1, day)
  ELSE Closing(db, u).value - FlowBetween(db, u.acct, day, u.end)

\* The newest statement that covers the day, or else the nearest anchor.
BalanceAt(db, acct, day) ==
  LET covering == SelectSeq(Statements(db, acct),
                    LAMBDA u : HasOpening(u) /\ HasClosing(u)
                                 /\ u.start - 1 =< day /\ day =< u.end)
      anchors  == Anchors(db, acct)
      nearest  == CHOOSE i \in DOMAIN anchors :
                    \A j \in DOMAIN anchors \ {i} :
                      \/ Distance(anchors[i].day, day) < Distance(anchors[j].day, day)
                      \/ /\ Distance(anchors[i].day, day) = Distance(anchors[j].day, day)
                         /\ i < j
      best     == anchors[nearest]
  IN  CASE covering # <<>> -> FromPeriod(db, covering[1], day)
        [] covering = <<>> /\ anchors = <<>> -> Null
        [] OTHER -> IF best.day =< day
                    THEN best.value + FlowBetween(db, acct, best.day, day)
                    ELSE best.value - FlowBetween(db, acct, day, best.day)

(***************************************************************************)
(* The bridge: terms and gaps                                               *)
(***************************************************************************)
\* What the summary does not sum over the bank.
FlowKind(r) ==
  CASE Excluded(r) -> "excluded"
    [] ~ Excluded(r) /\ r.cat = "family" -> "family"
    [] ~ Excluded(r) /\ r.cat # "family" /\ ~ Rupees(r)
         /\ r.cat \notin BankInternal /\ ~ Uncategorized(r) -> "non_inr"
    [] OTHER -> "report"

Extra(db, from, to, kind) ==
  SumOf(Flow, {r \in BankRows(db) : InRange(r, from, to) /\ FlowKind(r) = kind})

BankAccounts(db) == {a \in DOMAIN db.accounts : db.accounts[a] \in BankTypes}
NetFlow(db, acct, from, to) == FlowBetween(db, acct, from - 1, to)
KnownAccounts(db) == {a \in BankAccounts(db) : Anchors(db, a) # <<>>}

AccountGap(db, acct, from, to) ==
  BalanceAt(db, acct, to) - BalanceAt(db, acct, from - 1) - NetFlow(db, acct, from, to)

ExpectedClosing(db, from, to) ==
  SumOf(LAMBDA a : BalanceAt(db, a, from - 1), KnownAccounts(db))
    + NetCashRetained(db, from, to)
    + SumOf(Flow, InternalRows(db, from, to))
    + SumOf(Flow, UncategorizedRows(db, from, to))
    + Extra(db, from, to, "family") + Extra(db, from, to, "excluded")
    + Extra(db, from, to, "non_inr")
    - SumOf(LAMBDA a : NetFlow(db, a, from, to), BankAccounts(db) \ KnownAccounts(db))

BridgeGap(db, from, to) ==
  SumOf(LAMBDA a : BalanceAt(db, a, to), KnownAccounts(db)) - ExpectedClosing(db, from, to)

(***************************************************************************)
(* The figures agree with each other                                        *)
(***************************************************************************)
\* Each line of the cash report links to a list of just the rows it counts.
LinesLeadToTheirRows(db, from, to) ==
  \A line \in Lines(db, from, to) : line.rows = Listed(db, line.link)

\* A month of the trend is the summary of the range that clicking it selects.
TrendIsSummary(db, months, today) ==
  \A month \in Month(today) - months + 1 .. Month(today) :
    LET range == TrendRange(month, today)
    IN  TrendPoint(db, months, today, month)
          = [income   |-> Earned(db, range[1], range[2]),
             expense  |-> Spent(db, range[1], range[2]),
             invested |-> Invested(db, range[1], range[2])]

\* The terms of the bridge cover every dated bank row of the range once: what
\* they leave open is what the accounts leave open (bridge.py).
BridgeAddsUp(db, from, to) ==
  BridgeGap(db, from, to)
    = SumOf(LAMBDA a : AccountGap(db, a, from, to), KnownAccounts(db))

=============================================================================
