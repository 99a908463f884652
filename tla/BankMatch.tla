----------------------------- MODULE BankMatch -----------------------------
(* How the lines of a bank account's statement find their rows in the        *)
(* ledger: by reference first, then by day and amount.                       *)
(*                                                                           *)
(* A line is [day, amt, dir, ref, party, text, upi]; a row is [day, amt,     *)
(* dir, ref, name, text, upi, shot, voided, stmt]: shot says a screenshot    *)
(* recorded it, stmt that a statement did. What the code reads out of two    *)
(* strings (a reference in a narration, a shared word) is a constant.        *)
EXTENDS Integers, SequencesExt

CONSTANTS
  NoRef,            \* no reference
  NoParty,          \* the parser named no counterparty
  NoText,           \* a row without a narration
  Garbled,          \* an amount or a date that does not parse
  KeyOf,            \* a reference without its leading zeros; NoRef when all are
  Utr,              \* the references of twelve digits
  AppearsIn,        \* pairs of a reference and a text that holds it as a word
  SharesWord        \* pairs of texts that share a distinctive word

NoRow == 0

-----------------------------------------------------------------------------
\* Whether a row could be a line's transaction. Balances never refuse: an
\* alert shows the available balance, a statement the book balance.

SameKey(line, row) == KeyOf[line.ref] # NoRef /\ KeyOf[line.ref] = KeyOf[row.ref]

Narration(row) == IF row.text = NoText THEN row.name ELSE row.text

\* One of the references stands in the other side's narration.
Embedded(line, row) == <<row.ref, line.text>> \in AppearsIn \/ <<line.ref, Narration(row)>> \in AppearsIn

\* References that differ are excused on the exact day only. Two UTRs of which
\* a screenshot read one are two payments, whoever they name.
Compatible(line, row) ==
  \/ SameKey(line, row)
  \/ KeyOf[line.ref] = NoRef \/ KeyOf[row.ref] = NoRef
  \/ /\ line.day = row.day
     /\ \/ Embedded(line, row)
        \/ /\ ~(row.shot /\ row.ref \in Utr /\ line.ref \in Utr)
           /\ line.upi /\ row.upi /\ <<line.text, Narration(row)>> \in SharesWord

Eligible(rows) == {r \in DOMAIN rows : ~rows[r].voided \/ rows[r].stmt}

\* The rows that bear a line's reference, and those of them with its amount.
ReferenceRows(line, rows) ==
  {r \in Eligible(rows) : SameKey(line, rows[r]) /\ rows[r].dir = line.dir /\ line.amt # Garbled}

SameReference(line, rows) == {r \in ReferenceRows(line, rows) : rows[r].amt = line.amt}

\* The rows of a line's amount and direction within a day.
DayRows(line, rows) ==
  {r \in Eligible(rows) :
     /\ rows[r].dir = line.dir /\ line.amt # Garbled /\ rows[r].amt = line.amt
     /\ rows[r].day - line.day \in -1..1 /\ Compatible(line, rows[r])}

\* All a line could be, and what it contends for: a reference on a row of
\* another amount holds the line back, but contends for nothing.
CandidateRows(line, rows) == ReferenceRows(line, rows) \cup DayRows(line, rows)
Reach(line, rows) == SameReference(line, rows) \cup DayRows(line, rows)

-----------------------------------------------------------------------------
\* Two passes in statement order. A line takes a row only where it is the only
\* one: by reference; then by day, the exact one first, rows with an embedded
\* reference before the others.

Sole(S) == IF Cardinality(S) = 1 THEN CHOOSE r \in S : TRUE ELSE NoRow

WonByReference(won, line, rows) == Append(won, Sole(SameReference(line, rows) \ Range(won)))

ByReference(lines, rows) ==
  LET won[n \in 0..Len(lines)] ==
        IF n = 0 THEN <<>> ELSE WonByReference(won[n - 1], lines[n], rows)
  IN won[Len(lines)]

\* The day among these that a line prefers: its own, the day before, the day after.
Preferred(days, day) ==
  IF day \in days THEN day ELSE IF day - 1 \in days THEN day - 1 ELSE day + 1

OnDay(S, day, rows) == {r \in S : rows[r].day = day}

BestOf(S, line, rows) ==
  LET strong == {r \in S : Embedded(line, rows[r])}
  IN Sole(IF strong # {} THEN strong ELSE S)

PickByDayAgain(line, rows, taken) ==
  LET near == DayRows(line, rows)
      days == {day \in {rows[r].day : r \in near} : Sole(OnDay(near, day, rows)) # NoRow}
  IN IF days = {} THEN NoRow ELSE Sole(OnDay(near, Preferred(days, line.day), rows))

PickByDay(line, rows, taken) ==
  LET near == DayRows(line, rows) \ taken
      days == {day \in {rows[r].day : r \in near} : BestOf(OnDay(near, day, rows), line, rows) # NoRow}
  IN IF days = {} THEN NoRow
     ELSE BestOf(OnDay(near, Preferred(days, line.day), rows), line, rows)

WonByDay(won, i, lines, rows) ==
  IF won[i] # NoRow THEN won ELSE [won EXCEPT ![i] = PickByDay(lines[i], rows, Range(won))]

ByDay(lines, rows, first) ==
  LET won[n \in 0..Len(lines)] == IF n = 0 THEN first ELSE WonByDay(won[n - 1], n, lines, rows)
  IN won[Len(lines)]

-----------------------------------------------------------------------------
\* Two lines with equal identities write the same into a row.
RefreshIdentity(line) == <<IF line.party = NoParty THEN line.text ELSE line.party, line.upi>>

\* A winner is contested by any line that reaches its row and would write
\* something else. A winner by a reference no other row bears is final: only
\* lines that reach its row by reference rival it.
Contested(lines, rows, first, won) ==
  LET final(i) == first[i] # NoRow /\ Cardinality(ReferenceRows(lines[i], rows)) = 1
      reach(i, j) == IF final(i) THEN SameReference(lines[j], rows) ELSE Reach(lines[j], rows)
  IN {i \in DOMAIN lines :
        /\ won[i] # NoRow
        /\ \E j \in DOMAIN lines \ {i} :
             /\ won[i] \in reach(i, j)
             /\ RefreshIdentity(lines[i]) # RefreshIdentity(lines[j])}

\* What each line keeps of what it won.
Kept(lines, rows, first, won) ==
  LET contested == Contested(lines, rows, first, won)
  IN [i \in DOMAIN lines |-> IF i \in contested THEN NoRow ELSE won[i]]

Reconcile(lines, rows) ==
  LET first == ByReference(lines, rows)
      row == Kept(lines, rows, first, ByDay(lines, rows, first))
  IN [row |-> row,
      held |-> {i \in DOMAIN lines : row[i] = NoRow /\ CandidateRows(lines[i], rows) # {}}]
=============================================================================
