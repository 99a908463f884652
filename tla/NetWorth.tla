------------------------------ MODULE NetWorth ------------------------------
(* Net worth (services/networth.py): balance snapshots of accounts,         *)
(* portfolios and manual items, written by statements (snapshots.py), by CAS *)
(* imports (cas_ingestion.py, investments.py) and by hand (manual_items.py,  *)
(* web/networth.py), and the total, the breakdown and the monthly trend that *)
(* are computed from them.                                                   *)
EXTENDS Integers, FiniteSets, Sequences, SequencesExt, FiniteSetsExt

CONSTANTS
  Null,
  Accounts,   \* accounts with statements
  Closed,     \* accounts that are not active
  Days,       \* days are integers; a month is two days
  Today,
  Values,     \* amounts a statement or a form can bring
  Payloads,   \* CAS statements that can be uploaded
  Legacy,     \* snapshots an earlier version or an import left
  Unlotted,   \* CAS uploads stored before lots were extracted
  MaxWrites   \* bound on the writes of a behaviour

VARIABLES
  snaps,     \* balance_snapshots
  holdings,  \* snapshot_holdings
  cas,       \* cas_uploads
  lots,      \* investment_lots
  items,     \* manual_items: id -> [kind, active]
  writes

vars == <<snaps, holdings, cas, lots, items, writes>>

\* INTEGER PRIMARY KEY: the id after the largest in the table.
NewId(table) == Max({0} \cup {row.id : row \in table}) + 1

(***************************************************************************)
(* Snapshots: one for a source and a day                                    *)
(***************************************************************************)
Upsert(table, same, row) ==
  LET id == IF same = {} THEN NewId(table) ELSE (CHOOSE s \in same : TRUE).id
  IN  (table \ same) \cup {[row EXCEPT !.id = id]}

Snapshot == [id |-> Null, acct |-> Null, cas |-> Null, item |-> Null,
             key |-> Null, kind |-> "asset", category |-> Null, day |-> Null,
             value |-> 0, ccy |-> "INR"]

AccountSnapshot(table, acct, kind, category, day, value) ==
  Upsert(table,
         {s \in table : s.acct = acct /\ s.category = category /\ s.day = day},
         [Snapshot EXCEPT !.acct = acct, !.kind = kind, !.day = day,
                          !.category = category, !.value = value])

ManualSnapshot(table, item, kind, day, value) ==
  Upsert(table,
         {s \in table : s.item = item /\ s.day = day},
         [Snapshot EXCEPT !.item = item, !.kind = kind, !.day = day,
                          !.category = <<"manual", kind>>, !.value = value])

Write == writes < MaxWrites /\ writes' = writes + 1

\* emit_bank_snapshot: the closing balance at the end of the period.
EmitBank(acct, day, value) ==
  /\ Write
  /\ snaps' = AccountSnapshot(snaps, acct, "asset", "bank_balance", day, value)
  /\ UNCHANGED <<holdings, cas, lots, items>>

\* emit_cc_snapshot: what is left of the amount due, at the day the upload
\* was made; a paid statement leaves nothing.
Outstanding(due, paid, isPaid) ==
  IF isPaid \/ due =< 0 THEN 0 ELSE Max({due - paid, 0})

EmitCard(acct, day, due, paid, isPaid) ==
  /\ Write
  /\ snaps' = AccountSnapshot(snaps, acct, "liability", "cc_outstanding", day,
                              Outstanding(due, paid, isPaid))
  /\ UNCHANGED <<holdings, cas, lots, items>>

(***************************************************************************)
(* Manual items                                                             *)
(***************************************************************************)
CreateItem(kind, day, value) ==
  LET id == Cardinality(DOMAIN items) + 1
  IN  /\ Write
      /\ items' = [i \in DOMAIN items \cup {id} |->
                     IF i = id THEN [kind |-> kind, active |-> TRUE]
                               ELSE items[i]]
      /\ snaps' = ManualSnapshot(snaps, id, kind, day, value)
      /\ UNCHANGED <<holdings, cas, lots>>

UpdateValue(item, day, value) ==
  /\ Write
  /\ item \in DOMAIN items
  /\ snaps' = ManualSnapshot(snaps, item, items[item].kind, day, value)
  /\ UNCHANGED <<holdings, cas, lots, items>>

\* The day is the item's natural key: a move onto another entry is refused.
EditSnapshot(s, day, value) ==
  /\ Write
  /\ s \in snaps /\ s.item # Null
  /\ ~ \E t \in snaps \ {s} : t.item = s.item /\ t.day = day
  /\ snaps' = (snaps \ {s}) \cup {[s EXCEPT !.day = day, !.value = value]}
  /\ UNCHANGED <<holdings, cas, lots, items>>

DeleteSnapshot(s) ==
  /\ Write
  /\ s \in snaps /\ s.item # Null
  /\ snaps' = snaps \ {s}
  /\ holdings' = {h \in holdings : h.snap # s.id}
  /\ UNCHANGED <<cas, lots, items>>

Deactivate(item) ==
  /\ Write
  /\ item \in DOMAIN items
  /\ items' = [items EXCEPT ![item].active = FALSE]
  /\ UNCHANGED <<snaps, holdings, cas, lots>>

(***************************************************************************)
(* CAS statements                                                           *)
(***************************************************************************)
\* _classify_transaction: only a complete mutual fund purchase is a lot.
IsLot(move) ==
  /\ move.scope = "mf"
  /\ move.type = "purchase"
  /\ move.units > 0 /\ move.nav > 0 /\ move.amount > 0
  /\ move.day # Null /\ move.isin # Null
  /\ move.units * move.nav = move.amount

LotKey(move) == <<move.ref, move.isin, move.day>>

\* extract_lots_from_payload: repeated rows are numbered within their key.
ExtractLots(payload) ==
  LET moves == payload.moves
      Before(i) == {j \in 1 .. i - 1 : /\ IsLot(moves[j])
                                       /\ LotKey(moves[j]) = LotKey(moves[i])}
  IN  {<<LotKey(moves[i]), moves[i].amount, Cardinality(Before(i))>> :
         i \in {j \in DOMAIN moves : IsLot(moves[j])}}

\* create_investment_lots: inserts the facts the upload does not have yet.
WithLots(table, upload, payload) ==
  table \cup {[cas |-> upload, fact |-> f] : f \in ExtractLots(payload)}

\* The holdings by asset class; what no class explains is "other".
Classes(payload) ==
  LET named == {c \in DOMAIN payload.classes : TRUE}
      left  == payload.total - MapThenSumSet(LAMBDA c : payload.classes[c], named)
  IN  [c \in named \cup (IF left > 0 THEN {"other"} ELSE {}) |->
         (IF c \in named THEN payload.classes[c] ELSE 0)
           + (IF c = "other" /\ left > 0 THEN left ELSE 0)]

\* NSDL embeds CDSL: replacing the one by the other needs the override.
CasRefused(prior, payload, force) ==
  ~ force /\ payload.source = "cdsl" /\ \E u \in prior : u.source = "nsdl"

DropHoldings(gone) == {h \in holdings : h.snap \notin {s.id : s \in gone}}

IngestCas(payload, force) ==
  LET prior  == {u \in cas : u.key = payload.key /\ u.day = payload.day}
      ids    == {u.id : u \in prior}
      gone   == {s \in snaps : s.cas \in ids}
      kept   == snaps \ gone
      upload == [id |-> NewId(cas \ prior), key |-> payload.key,
                 day |-> payload.day, source |-> payload.source,
                 payload |-> payload]
      snap   == [Snapshot EXCEPT !.id = NewId(kept), !.cas = upload.id,
                   !.key = payload.key, !.category = "investment",
                   !.day = payload.day, !.value = payload.total]
  IN  /\ Write
      /\ ~ CasRefused(prior, payload, force)
      \* the unique index of a portfolio and a day
      /\ ~ \E s \in kept : s.key = payload.key /\ s.day = payload.day
      /\ cas' = (cas \ prior) \cup {upload}
      /\ snaps' = kept \cup {snap}
      /\ holdings' = DropHoldings(gone)
                       \cup {[snap |-> snap.id, upload |-> upload.id, class |-> c,
                              value |-> Classes(payload)[c]] :
                               c \in DOMAIN Classes(payload)}
      /\ lots' = WithLots({l \in lots : l.cas \notin ids}, upload.id, payload)
      /\ UNCHANGED items

\* backfill_investment_lots: every stored payload that can be read, at a start.
Backfill ==
  /\ Write
  /\ lots' = lots \cup UNION {WithLots({}, u.id, u.payload) :
                                u \in {v \in cas : v.payload # Null}}
  /\ UNCHANGED <<snaps, holdings, cas, items>>

(***************************************************************************)
(* What is computed from them                                               *)
(***************************************************************************)
SourceKey(s) ==
  IF s.acct # Null THEN <<"acct", s.acct, s.category>>
  ELSE IF s.key # Null THEN <<"inv", s.key, s.category>>
  ELSE <<"man", s.item>>

Precedes(s, t) == s.day < t.day \/ (s.day = t.day /\ s.id < t.id)

LatestPerSource(table, asOf) ==
  LET seen == {s \in table : s.day =< asOf}
  IN  {s \in seen : ~ \E t \in seen : SourceKey(t) = SourceKey(s)
                                        /\ Precedes(s, t)}

\* The sources that count: active accounts and items, and every portfolio.
Counted == {s \in snaps : /\ s.acct # Null => s.acct \notin Closed
                          /\ s.item # Null => items[s.item].active}

Total(latest) ==
  LET Of(kind) == {s \in latest : s.ccy = "INR" /\ s.kind = kind}
  IN  MapThenSumSet(LAMBDA s : s.value, Of("asset"))
        - MapThenSumSet(LAMBDA s : s.value, Of("liability"))

NetWorthOn(day) == Total(LatestPerSource(Counted, day))

\* investment_breakdown of current_networth, summed over its classes.
Invested(day) == {s \in LatestPerSource(Counted, day) :
                    s.category = "investment" /\ s.ccy = "INR"}
BreakdownTotal(day) ==
  MapThenSumSet(LAMBDA h : h.value,
                {h \in holdings : h.snap \in {s.id : s \in Invested(day)}})

\* monthly_trend: one walk through the snapshots in order of day and id, that
\* keeps the last of each source; a point for each month up to this one.
Month(day) == day \div 2
MonthEnd(month) == 2 * month + 1

\* Mutant: the walk stops before the last day of the month.
WalkedBefore(cutoff) == {s \in Counted : s.day < cutoff}

Walked(cutoff) == {s \in Counted : s.day =< cutoff}

BestAfter(cutoff) ==
  LET walk == SetToSortSeq(Walked(cutoff), Precedes)
      Keep(best, s) == {t \in best : SourceKey(t) # SourceKey(s)} \cup {s}
  IN  FoldLeft(Keep, {}, walk)

MonthlyTrend ==
  LET earliest == Min({s.day : s \in Counted})
  IN  IF Counted = {} \/ earliest > Today THEN <<>>
      ELSE [i \in 1 .. Month(Today) - Month(earliest) + 1 |->
              LET cutoff == Min({MonthEnd(Month(earliest) + i - 1), Today})
              IN  [day |-> cutoff, value |-> Total(BestAfter(cutoff))]]

(***************************************************************************)
Init ==
  /\ snaps \in SUBSET Legacy
  /\ holdings = {}
  /\ cas = Unlotted
  /\ lots = {}
  /\ items = <<>>
  /\ writes = 0

Next ==
  \/ \E a \in Accounts, d \in Days, v \in Values : EmitBank(a, d, v)
  \/ \E a \in Accounts, d \in Days, v \in Values, p \in Values \cup {0},
        b \in BOOLEAN : EmitCard(a, d, v, p, b)
  \/ \E k \in {"asset", "liability"}, d \in Days, v \in Values :
        CreateItem(k, d, v)
  \/ \E i \in DOMAIN items, d \in Days, v \in Values : UpdateValue(i, d, v)
  \/ \E s \in snaps, d \in Days, v \in Values : EditSnapshot(s, d, v)
  \/ \E s \in snaps : DeleteSnapshot(s)
  \/ \E i \in DOMAIN items : Deactivate(i)
  \/ \E p \in Payloads, f \in BOOLEAN : IngestCas(p, f)
  \/ Backfill

Spec == Init /\ [][Next]_vars

(***************************************************************************)
\* The monthly trend, one walk that never looks back, is the net worth of the
\* end of each month: also with entries moved, deleted, of items put aside, of
\* the future, in another currency or of a replaced CAS statement.
TrendIsNetWorth ==
  \A i \in DOMAIN MonthlyTrend :
    MonthlyTrend[i].value = NetWorthOn(MonthlyTrend[i].day)

\* What is shown below the investments adds up to them: no holding of a replaced
\* upload comes back under the id that is used again, and none is lost.
BreakdownAddsUp ==
  LET Payload(s) == (CHOOSE u \in cas : u.id = s.cas).payload
      stated == {s \in Invested(Today) : s \notin Legacy}
  IN  BreakdownTotal(Today) =
        MapThenSumSet(
          LAMBDA s : MapThenSumSet(LAMBDA c : Classes(Payload(s))[c],
                                   DOMAIN Classes(Payload(s))), stated)

\* Every lot is a purchase that the upload it belongs to states.
LotsAreStated ==
  \A l \in lots : \E u \in cas : u.id = l.cas /\ l.fact \in ExtractLots(u.payload)

(* The figures that are derived from the net worth add up to it, although    *)
(* statements are replaced, ids used again and entries edited (networth.py,   *)
(* cas_ingestion.py).                                                        *)
WealthAddsUp == TrendIsNetWorth /\ BreakdownAddsUp /\ LotsAreStated

=============================================================================
