------------------------------ MODULE Reports ------------------------------
(* What is computed from the tables, over the tables: rows that alerts post  *)
(* and the operator edits, statements of the bank accounts, and the          *)
(* snapshots of NetWorth.  The bank is a ghost: a row is "real" if its money  *)
(* moved, and "late" if the bank prints it in the statement before its date.  *)
EXTENDS NetWorth

CONSTANTS
  AccountType,               \* account id -> type
  Cards,                     \* cards: [id, acct, mask]
  RowShapes,                 \* rows an alert can post
  Categories,                \* categories the operator can choose
  Periods,                   \* statement periods: <<first day, last day>>
  Configs,                   \* settings of the journal
  Base,                      \* balance of every account before the first day
  UserExpense, UserIncome, MonthDays,
  MaxRows, MaxEdits          \* bounds on a behaviour

VARIABLES
  rows,      \* transactions
  uploads,   \* bank_statement_uploads
  edits

allVars == <<vars, rows, uploads, edits>>

Cash    == INSTANCE CashReport
Journal == INSTANCE PaisaJournal

db == [accounts |-> AccountType, rows |-> rows, uploads |-> uploads, snaps |-> snaps,
       cas |-> cas, cards |-> Cards,
       manual |-> {i \in DOMAIN items : items[i].active}]

(***************************************************************************)
(* The bank                                                                 *)
(***************************************************************************)
Moves(acct) == {r \in rows : r.acct = acct /\ r.real /\ r.day # Null}

TrueBalance(acct, day) ==
  Base + MapThenSumSet(Cash!Flow, {r \in Moves(acct) : r.day =< day})

PrintDay(r) == IF r.late THEN r.day - 1 ELSE r.day
PrintedUpTo(acct, day) == {r \in Moves(acct) : PrintDay(r) =< day}

Post(shape) ==
  LET row == [shape EXCEPT !.id = NewId(rows)]
      on  == {r \in rows : r.acct = shape.acct /\ r.day # Null}
  IN  /\ Cardinality(rows) < MaxRows
      \* alerts come in the order of their times, before their statement
      /\ shape.day # Null =>
           /\ \A r \in on : r.day < shape.day
                             \/ (r.day = shape.day /\ Cash!Earlier(r, row))
           /\ \A u \in uploads : u.acct = shape.acct => u.end < PrintDay(shape)
      /\ rows' = rows \cup
           {[row EXCEPT !.bal = IF shape.told
                                THEN TrueBalance(shape.acct, shape.day) + Cash!Flow(shape)
                                ELSE Null]}
      /\ UNCHANGED <<vars, uploads, edits>>

\* A statement that is imported: its rows are the ones it matched and the ones
\* it posted itself, and its closing balance becomes a snapshot.
UploadStatement(acct, period, posted) ==
  LET printed == {r \in PrintedUpTo(acct, period[2]) : PrintDay(r) >= period[1]}
      Printed(day) == Base + MapThenSumSet(Cash!Flow, PrintedUpTo(acct, day))
      upload  == [id |-> NewId(uploads), acct |-> acct,
                  start |-> period[1], end |-> period[2],
                  opening |-> Printed(period[1] - 1), closing |-> Printed(period[2]),
                  names |-> {r.id : r \in printed}]
  IN  /\ uploads' = uploads \cup {upload}
      /\ rows' = {IF posted /\ r \in printed /\ r.upload = Null
                  THEN [r EXCEPT !.upload = upload.id] ELSE r : r \in rows}
      /\ snaps' = AccountSnapshot(snaps, acct, "asset", "bank_balance", period[2],
                                  upload.closing)
      /\ UNCHANGED <<holdings, cas, lots, items, writes>>

Edit(r, new) ==
  /\ edits < MaxEdits /\ new # r
  /\ rows' = (rows \ {r}) \cup {new}
  /\ edits' = edits + 1
  /\ UNCHANGED <<vars, uploads>>

\* check_voidable: only a debit, and none that pays a receivable.
SetVoided(r, voided) == (voided => r.dir = "debit") /\ Edit(r, [r EXCEPT !.voided = voided])
SetExcluded(r, excluded) == Edit(r, [r EXCEPT !.excluded = excluded])
SetCategory(r, category) == Edit(r, [r EXCEPT !.cat = category])

BankOnes == {a \in DOMAIN AccountType : AccountType[a] \in Cash!BankTypes}

RowsNext ==
  \/ \E shape \in RowShapes : Post(shape)
  \/ \E a \in BankOnes, p \in Periods, posted \in BOOLEAN :
        /\ edits < MaxEdits /\ edits' = edits + 1
        /\ UploadStatement(a, p, posted)
  \/ \E r \in rows, b \in BOOLEAN : SetVoided(r, b)
  \/ \E r \in rows, b \in BOOLEAN : SetExcluded(r, b)
  \/ \E r \in rows, c \in Categories : SetCategory(r, c)

RowsInit == rows = {} /\ uploads = {} /\ edits = 0

(***************************************************************************)
Ranges == {p \in Days \X Days : p[1] =< p[2]}

(* The figures of the cash report agree with each other, although queries of *)
(* their own compute them: the lines and the lists, the trend and the         *)
(* summary, the bridge and the balances of its accounts, for any rows.        *)
FiguresAgree ==
  /\ \A p \in Ranges : /\ Cash!LinesLeadToTheirRows(db, p[1], p[2])
                        /\ Cash!BridgeAddsUp(db, p[1], p[2])
  /\ \A months \in 1 .. 2 : Cash!TrendIsSummary(db, months, Today)

\* The operator voided just the charges that never settled; the dashboard has a
\* date and rupees for every movement, and the statement before a late row.
Complete(acct) ==
  /\ \A r \in rows : r.acct = acct =>
       r.voided = ~ r.real /\ r.day # Null /\ r.ccy \in {Null, "INR"}
  /\ \A u \in uploads, r \in Moves(acct) :
       u.acct = acct /\ r.late /\ r.day = u.start =>
         \E v \in uploads : v.acct = acct /\ v.end = u.start - 1

\* The opening of the journal is the balance at the end of the cutover.
OpensAtCutover(cfg, acct) ==
  LET snapshots == Journal!SnapshotsBefore(cfg, db, acct)
      spoken    == Journal!RunningBefore(cfg, db, acct)
      upto(day) == {r \in Moves(acct) : r.day =< day}
  IN  IF snapshots # {}
      THEN /\ Journal!Newest(snapshots).day = cfg.cutover
           /\ PrintedUpTo(acct, cfg.cutover) = upto(cfg.cutover)
      ELSE \E r \in spoken : r.day = cfg.cutover
                             /\ upto(cfg.cutover) \subseteq {s \in rows : s.id =< r.id}

\* From there the entries lead to the balance the bank has, if no row is voided.
JournalReachesBank(acct) ==
  \A cfg \in Configs :
    /\ acct \in Journal!Known(cfg, db)
    /\ OpensAtCutover(cfg, acct)
    /\ ~ \E r \in rows : r.acct = acct /\ r.voided
    => Journal!ProjectedBalance(cfg, db, acct) = TrueBalance(acct, Today)

(* With nothing missing the bridge closes on every range, on the balance the *)
(* bank had: rows that a statement prints after its end, statements uploaded *)
(* twice or out of order, holes between them, running balances of alerts and *)
(* rows left out of the cash flow open no gap (bridge.py _known, balance_at). *)
(* The journal, with its opening at the cutover, arrives there as well        *)
(* (projection.py _opening_for_account, reconciliation.py).                   *)
NoGapWhenComplete ==
  \A a \in Cash!KnownAccounts(db) :
    Complete(a) =>
      /\ \A p \in Ranges :
           /\ Cash!BalanceAt(db, a, p[1] - 1) = TrueBalance(a, p[1] - 1)
           /\ Cash!AccountGap(db, a, p[1], p[2]) = 0
      /\ JournalReachesBank(a)

-----------------------------------------------------------------------------
\* Every row in scope is in one entry or skipped for one reason.
RowsAccountedFor(cfg) ==
  \A r \in Journal!InScope(cfg, db) :
    Cardinality({e \in Journal!Entries(cfg, db) : r.id \in e[2].rows})
      + Cardinality({s \in Journal!Skipped(cfg, db) : s[1] = r.id}) = 1

Shown(cfg) ==
  {r \in Journal!InScope(cfg, db) :
     \E e \in Journal!Entries(cfg, db) : r.id \in e[2].rows}

\* An account moves by its own rows, and a card by the bills the bank paid for
\* it; the card's own side of a bill is not counted again.
AccountsMoveByRows(cfg) ==
  \A a \in Journal!Known(cfg, db), ccy \in {"INR", "USD"} :
    LET own   == {r \in Shown(cfg) : r.acct = a /\ Journal!Commodity(r) = ccy}
        bills == {r \in Shown(cfg) :
                    /\ Journal!Commodity(r) = ccy /\ r.cat = "credit_card_payment"
                    /\ Journal!ResolveCard(cfg, db, r) # Null
                    /\ Journal!ResolveCard(cfg, db, r).acct = a}
    IN  Journal!Moved(Journal!Entries(cfg, db), {Journal!NameOf(cfg, db, a)}, ccy)
          = MapThenSumSet(Cash!Flow, own) - MapThenSumSet(Cash!Flow, bills)

PostedOn(cfg) ==
  UNION {{p.account : p \in Range(e[2].postings)} : e \in Journal!Entries(cfg, db)}

\* Income and expenses are the rows that are either: no transfer between own
\* accounts, no bill, no loan and no investment is among them.
ResultIsIncomeAndExpenses(cfg) ==
  \A ccy \in {"INR", "USD"} :
    Journal!Moved(Journal!Entries(cfg, db),
                  {n \in PostedOn(cfg) : n[1] \in {"Income", "Expenses"}}, ccy)
      = -MapThenSumSet(Cash!Flow,
           {r \in Shown(cfg) :
              /\ Journal!Commodity(r) = ccy
              /\ r.cat \notin {"self_transfer", "credit_card_payment"}
              /\ Journal!CategoryKind(r.cat)
                   \in {"income", "contra_expense", "expense", "unknown"}})

\* An entry in another currency has one price on its day.
EntriesPriced(cfg) ==
  \A e \in {x \in Journal!Entries(cfg, db) : x[2].ccy # "INR"} :
    Cardinality({p \in Journal!Prices(cfg, db) : p.day = e[2].day /\ p.ccy = e[2].ccy}) = 1

(* The journal shows every row once: none is lost or counted twice, whatever *)
(* pairing, card resolution, currencies and the settings decide, and every    *)
(* entry sums to zero, and has its price if it is foreign (projection.py).    *)
JournalAddsUp ==
  \A cfg \in Configs :
    /\ RowsAccountedFor(cfg)
    /\ AccountsMoveByRows(cfg)
    /\ ResultIsIncomeAndExpenses(cfg)
    /\ EntriesPriced(cfg)
    /\ \A e \in Journal!Entries(cfg, db) : Journal!Balanced(e[2])

JournalWorth(cfg, day) ==
  -Journal!Moved({e \in Journal!Valuations(cfg, db) : e[2].day =< day},
                 {Journal!Revaluation}, "INR")

Portfolios(day) ==
  {s \in LatestPerSource(snaps, day) : s.category = "investment" /\ s.cas # Null}

(* The value of the portfolios in the journal is, on every day from the       *)
(* cutover, the value the net worth counts: although one adds the changes up  *)
(* and the other takes the latest snapshot.  And a journal that says its      *)
(* scope is complete has all of the net worth beyond the accounts             *)
(* (projection.py, networth.py).                                              *)
ValuationsFollowNetWorth ==
  \A cfg \in Configs, day \in Days :
    day >= cfg.cutover =>
      /\ cfg.invest =>
           JournalWorth(cfg, day)
             = MapThenSumSet(LAMBDA s : s.value,
                             {s \in Portfolios(day) : s.ccy = "INR"})
      /\ Journal!ScopeComplete(cfg, db) =>
           JournalWorth(cfg, day)
             = Total({s \in LatestPerSource(Counted, day) : s.acct = Null})

(* "A voided row never counts as money" (db/models.py).                       *)
VoidedIsNoMoney ==
  \A cfg \in Configs :
    Journal!Entries(cfg, db)
      = Journal!Entries(cfg, [db EXCEPT !.rows = {r \in rows : ~ r.voided}])

=============================================================================
