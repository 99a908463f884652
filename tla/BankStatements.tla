-------------------------- MODULE BankStatements ---------------------------
(* Statements of a bank account meet the ledger: each line finds its row, is *)
(* held back when some row could be it, or is recorded. A held line is never *)
(* recorded, and nobody is asked: the tally of the balances tells.           *)
(*                                                                           *)
(* A handler reads the ledger, enriches in a session of its own and imports  *)
(* in a third, awaiting between them. The job is what it carries.            *)
EXTENDS BankMatch, TLC

CONSTANTS
  Null,             \* SQL NULL
  Generic,          \* a counterparty that names nobody
  Uploads,          \* the uploads of the sheet: by mail, by hand, once more
  Sheets,           \* the statements, as sequences of lines
  Period,           \* the days the statement covers
  Postings,         \* the rows that alerts and screenshots may post
  MaxPosts,         \* bound on the rows posted
  MaxReparses,      \* bound on the reparses
  MaxEdits          \* bound on the rows voided and the uploads deleted

RowFields ==
  {"day", "amt", "dir", "ref", "name", "text", "upi", "shot", "voided", "stmt", "made", "upload"}

\* How a line of a stored reconciliation stands, and its row.
Hows == {"matched", "held", "unread", "duplicate", "recorded", "forgotten"}
Entries == [how : Hows, row : Nat]

ASSUME BankAssumption ==
  /\ Null \notin Nat \cup Seq(Entries)
  /\ \A lines \in Sheets :
       /\ Len(lines) \in Nat /\ DOMAIN lines = 1..Len(lines)
       /\ \A i \in DOMAIN lines : lines[i].day \in Int /\ lines[i].amt \in Int \cup {Garbled}
  /\ \A row \in Postings : DOMAIN row = RowFields /\ row.amt \in Int /\ row.made # "statement"

VARIABLES
  sheet,            \* the lines of the statement
  ledger,           \* transactions of the account, by id
  entries,          \* reconciliation_data of each upload: one entry per line
  job,              \* the handler in progress, or Null
  posts, reparses, voids, deletes    \* counters for the bounds

bankVars == <<sheet, ledger, entries, job, posts, reparses, voids, deletes>>

Lines == DOMAIN sheet
Stored(u) == entries[u] # Null
Entry(how, row) == [how |-> how, row |-> row]

BankInit ==
  /\ sheet \in Sheets
  /\ ledger = <<>>
  /\ entries = [u \in Uploads |-> Null]
  /\ job = Null
  /\ posts = 0 /\ reparses = 0 /\ voids = 0 /\ deletes = 0

-----------------------------------------------------------------------------
\* SQLite gives the id of a deleted newest row to the next one. One reference
\* stands once per direction.
NewId(table) == Max({0} \cup DOMAIN table) + 1

Extended(table, id, row) ==
  [r \in DOMAIN table \cup {id} |-> IF r = id THEN row ELSE table[r]]

Duplicate(row, table) ==
  row.ref # NoRef /\ \E r \in DOMAIN table : table[r].ref = row.ref /\ table[r].dir = row.dir

Post(row) ==
  /\ posts < MaxPosts /\ posts' = posts + 1 /\ ~Duplicate(row, ledger)
  /\ ledger' = Extended(ledger, NewId(ledger), row)
  /\ UNCHANGED <<sheet, entries, job, reparses, voids, deletes>>

-----------------------------------------------------------------------------
\* Handlers. The same sheet may come by mail and by hand; a retry needs an
\* upload. All reconcile with the rows as they are now.
Begin(how, u) ==
  /\ job = Null
  /\ how = "retry" <=> Stored(u)
  /\ how = "retry" => reparses < MaxReparses
  /\ reparses' = IF how = "retry" THEN reparses + 1 ELSE reparses
  /\ job' = [how |-> how, upload |-> u, recon |-> Reconcile(sheet, ledger), enriched |-> FALSE]
  /\ UNCHANGED <<sheet, ledger, entries, posts, voids, deletes>>

\* A PDF that no password opens is stored, to be retried.
StoreLocked(u) ==
  /\ job = Null /\ ~Stored(u)
  /\ entries' = [entries EXCEPT ![u] = <<>>]
  /\ UNCHANGED <<sheet, ledger, job, posts, reparses, voids, deletes>>

\* A matched line names a row that has no name, and tells what it was.
Enriched(row, line) ==
  [row EXCEPT !.name = IF line.party # NoParty /\ @ = Generic THEN line.party ELSE @,
              !.text = IF @ = NoText THEN line.text ELSE @]

EnrichMatched ==
  /\ job # Null /\ ~job.enriched
  /\ ledger' = [r \in DOMAIN ledger |->
                LET line == {i \in Lines : job.recon.row[i] = r}
                IN IF line = {} THEN ledger[r] ELSE Enriched(ledger[r], sheet[CHOOSE i \in line : TRUE])]
  /\ job' = [job EXCEPT !.enriched = TRUE]
  /\ UNCHANGED <<sheet, entries, posts, reparses, voids, deletes>>

\* The row a line records.
Recorded(line) ==
  [day |-> line.day, amt |-> line.amt, dir |-> line.dir, ref |-> line.ref,
   name |-> IF line.party # NoParty THEN line.party ELSE line.text, text |-> line.text,
   upi |-> line.upi, shot |-> FALSE, voided |-> FALSE, stmt |-> TRUE,
   made |-> "statement", upload |-> job.upload]

\* One line of the import, each in a savepoint of its own.
ImportLine(acc, i) ==
  LET line == sheet[i]
      how == IF job.recon.row[i] # NoRow THEN "matched"
             ELSE IF i \in job.recon.held THEN "held"
             ELSE IF line.amt = Garbled THEN "unread"
             ELSE IF Duplicate(line, acc.ledger) THEN "duplicate"
             ELSE "recorded"
      row == IF how = "recorded" THEN NewId(acc.ledger) ELSE job.recon.row[i]
  IN [entries |-> Append(acc.entries, Entry(how, row)),
      ledger |-> IF how = "recorded" THEN Extended(acc.ledger, row, Recorded(line)) ELSE acc.ledger]

ImportLines ==
  LET upTo[n \in 0..Len(sheet)] ==
        IF n = 0 THEN [entries |-> <<>>, ledger |-> ledger] ELSE ImportLine(upTo[n - 1], n)
  IN upTo[Len(sheet)]

\* A retry whose upload is gone by then imports nothing.
Import ==
  LET end == ImportLines
  IN /\ job # Null /\ job.enriched
     /\ IF job.how = "retry" /\ ~Stored(job.upload) THEN UNCHANGED <<ledger, entries>>
        ELSE /\ ledger' = end.ledger
             /\ entries' = [entries EXCEPT ![job.upload] = end.entries]
     /\ job' = Null
     /\ UNCHANGED <<sheet, posts, reparses, voids, deletes>>

-----------------------------------------------------------------------------
\* The user. Deleting an upload leaves its rows, without the link.
Delete(u) ==
  /\ Stored(u) /\ voids + deletes < MaxEdits /\ deletes' = deletes + 1
  /\ entries' = [entries EXCEPT ![u] = Null]
  /\ ledger' = [r \in DOMAIN ledger |->
                IF ledger[r].upload = u THEN [ledger[r] EXCEPT !.upload = Null, !.stmt = FALSE] ELSE ledger[r]]
  /\ UNCHANGED <<sheet, job, posts, reparses, voids>>

\* The bank cancelled a charge before it settled, or did not after all.
Void(r) ==
  /\ voids + deletes < MaxEdits /\ ledger[r].dir = "debit"
  /\ ledger' = [ledger EXCEPT ![r].voided = ~@]
  /\ voids' = voids + 1
  /\ UNCHANGED <<sheet, entries, job, posts, reparses, deletes>>

BankNext ==
  \/ \E row \in Postings : Post(row)
  \/ \E how \in {"email", "upload", "retry"}, u \in Uploads : Begin(how, u)
  \/ \E u \in Uploads : StoreLocked(u) \/ Delete(u)
  \/ EnrichMatched
  \/ Import
  \/ \E r \in DOMAIN ledger : Void(r)

BankSpec == BankInit /\ [][BankNext]_bankVars

-----------------------------------------------------------------------------
\* The tally: what the rows of the period add up to, less what the balances of
\* the statement say they moved.

Signed(x) == IF x.dir = "credit" THEN x.amt ELSE -x.amt

InPeriod(r) == ledger[r].day \in Period /\ ~ledger[r].voided

\* The sum of a function on row ids or line numbers.
SumOf(f) ==
  LET last == Max({0} \cup DOMAIN f)
      upTo[n \in 0..last] ==
        IF n = 0 THEN 0 ELSE upTo[n - 1] + (IF n \in DOMAIN f THEN f[n] ELSE 0)
  IN upTo[last]

Gap ==
  SumOf([r \in {r \in DOMAIN ledger : InPeriod(r)} |-> Signed(ledger[r])])
    - SumOf([i \in Lines |-> Signed(sheet[i])])

-----------------------------------------------------------------------------
\* PROPERTIES

\* A statement whose lines all have rows of the period, and which leaves no row
\* of the period without a line, tallies: matches share no row and change no
\* amount, so the note about a gap is never a false alarm there.
CompleteTallies ==
  \A u \in Uploads :
    LET claimed == {e.row : e \in Range(entries[u])} IN
    Stored(u) /\ Len(entries[u]) = Len(sheet) /\ claimed = {r \in DOMAIN ledger : InPeriod(r)}
      => Gap = 0

\* However often a sheet is mailed, uploaded, retried, deleted and mailed again,
\* no more rows stand recorded from it than it has lines. (Where a row was voided
\* and its upload deleted, the line is recorded anew, and two rows stand once the
\* void is lifted.)
RecordedOnce ==
  voids = 0 \/ deletes = 0 =>
    Cardinality({r \in DOMAIN ledger : ledger[r].made = "statement"}) <= Len(sheet)

\* A line counts once: in the tally of a complete statement, and in the ledger.
LinesCountOnce == CompleteTallies /\ RecordedOnce

\* The order of a statement's lines never changes what it writes into a row,
\* only whether it writes: what two orders both settle, they settle alike.
OrderFree ==
  LET orders == {p \in [Lines -> Lines] : IsInjective(p)}
      lines(p) == [i \in Lines |-> sheet[p[i]]]
      written(p) == LET row == Reconcile(lines(p), ledger).row
                    IN {<<row[i], RefreshIdentity(lines(p)[i])>> : i \in {i \in Lines : row[i] # NoRow}}
      all == UNION {written(p) : p \in orders}
  IN \A w, x \in all : w[1] = x[1] => w[2] = x[2]
=============================================================================
