-------------------------- MODULE CardStatements ---------------------------
(* Card statements meet the ledger: a sheet is reconciled with the rows the  *)
(* alerts left, enriches those it matched, records the lines it did not, and *)
(* asks the user about the lines that may already be there.                  *)
(*                                                                           *)
(* A handler reads the ledger in one session, enriches in a second and       *)
(* imports in a third, awaiting between them. The job is what it carries.    *)
EXTENDS CardMatch

CONSTANTS
  None,             \* SQL NULL
  Generic,          \* a counterparty that names nobody
  Uploads,          \* the uploads of the sheet: by mail, by hand, once more
  Sheets,           \* the statements, as sequences of lines
  Postings,         \* the rows that alerts may post
  Cards,            \* the masks of the account's cards
  MaxPosts,         \* bound on the rows posted
  MaxReparses,      \* bound on the reparses
  MaxEdits          \* bound on the rows voided and the uploads deleted

VARIABLES
  sheet,            \* the lines of the statement
  rows,             \* transactions of the account, by id
  entries,          \* reconciliation_data of each upload: one entry per line
  job,              \* the handler in progress, or None
  posts, reparses, voids, deletes,   \* counters for the bounds
  stray             \* history: an answer folded a row that was no copy of its line

vars == <<sheet, rows, entries, job, posts, reparses, voids, deletes, stray>>

Lines == DOMAIN sheet
Imported(u) == entries[u] # None

\* An entry: how the line stands, its row, and the rows offered to the user.
Entry(how, row, offered) == [how |-> how, row |-> row, offered |-> offered]
HeldEntry(e) == e.how = "held" /\ e.row # NoRow

Init ==
  /\ sheet \in Sheets
  /\ rows = <<>>
  /\ entries = [u \in Uploads |-> None]
  /\ job = None
  /\ posts = 0 /\ reparses = 0 /\ voids = 0 /\ deletes = 0 /\ stray = FALSE

-----------------------------------------------------------------------------
\* SQLite gives the id of a deleted newest row to the next one.
NewId(table) == Max({0} \cup DOMAIN table) + 1
Extended(table, id, row) == [r \in DOMAIN table \cup {id} |-> IF r = id THEN row ELSE table[r]]

\* An alert posts a row; the alerts of a payment may come after its statement.
Post(row) ==
  /\ posts < MaxPosts /\ posts' = posts + 1
  /\ rows' = Extended(rows, NewId(rows), row)
  /\ UNCHANGED <<sheet, entries, job, reparses, voids, deletes, stray>>

-----------------------------------------------------------------------------
\* Handlers. A mail is ignored when the cycle has an upload; a reparse needs
\* one. All reconcile with the rows as they are now.

Begin(how, u) ==
  /\ job = None
  /\ how = "email" => \A v \in Uploads : ~Imported(v)
  /\ how # "reparse" <=> ~Imported(u)
  /\ how = "reparse" => reparses < MaxReparses
  /\ reparses' = IF how = "reparse" THEN reparses + 1 ELSE reparses
  /\ job' = [how |-> how, upload |-> u, recon |-> Reconcile(sheet, rows, Cards),
             next |-> IF how = "email" THEN <<"import", "enrich">> ELSE <<"enrich", "import">>]
  /\ UNCHANGED <<sheet, rows, entries, posts, voids, deletes, stray>>

JobDone == IF Len(job.next) = 1 THEN None ELSE [job EXCEPT !.next = Tail(@)]

\* What a matched line writes: the rupees it was billed, a name where the row
\* has none of its own, the holder.
TakesRupees(row, i) == row.manual \/ (i \in job.recon.foreign /\ row.cur # Rupee)

Enriched(row, i) ==
  [row EXCEPT !.amt = IF TakesRupees(row, i) THEN sheet[i].amt ELSE @,
              !.cur = IF TakesRupees(row, i) THEN Rupee ELSE @,
              !.manual = FALSE,
              !.name = IF @ = Generic THEN sheet[i].text ELSE @,
              !.holder = IF sheet[i].who = None THEN @ ELSE sheet[i].who]

Enrich ==
  /\ job # None /\ Head(job.next) = "enrich"
  /\ rows' = [r \in DOMAIN rows |->
                LET line == {i \in Lines : job.recon.row[i] = r}
                IN IF line = {} THEN rows[r] ELSE Enriched(rows[r], CHOOSE i \in line : TRUE)]
  /\ job' = JobDone
  /\ UNCHANGED <<sheet, entries, posts, reparses, voids, deletes, stray>>

\* The copies of a line that statements recorded before, as the ledger is now.
IsCopy(r, i) ==
  /\ rows[r].made = "statement" /\ rows[r].amt = sheet[i].amt /\ rows[r].day = sheet[i].day
  /\ rows[r].dir = sheet[i].dir /\ rows[r].name = sheet[i].text

CopiesOfUpload(i) == {r \in DOMAIN rows : IsCopy(r, i) /\ rows[r].upload = job.upload}

Copies(i) == {r \in DOMAIN rows : IsCopy(r, i) /\ rows[r].upload # None}

\* The copy a held line takes: the one of its holder, else one of nobody.
TakeCopy(i, free) ==
  LET own == {r \in free : rows[r].holder = sheet[i].who}
      nobody == {r \in free : rows[r].holder = None}
  IN Min(IF own # {} THEN own ELSE IF nobody # {} THEN nobody ELSE free)

\* The row a line records.
Recorded(i, u) ==
  [day |-> sheet[i].day, amt |-> sheet[i].amt, dir |-> sheet[i].dir, name |-> sheet[i].text,
   mask |-> sheet[i].card, cur |-> Rupee, manual |-> FALSE, voided |-> FALSE, stmt |-> TRUE,
   made |-> "statement", upload |-> u, holder |-> sheet[i].who]

\* One line of the import: a held one that was recorded before takes its copy,
\* any other that has no row is recorded, in the order of the sheet.
ImportLine(acc, i) ==
  LET u == job.upload
      recon == job.recon
      held == i \in recon.held
      free == Copies(i) \ (Range(recon.row) \cup acc.taken)
      copy == TakeCopy(i, free)
  IN IF recon.row[i] # NoRow
       THEN [acc EXCEPT !.entries = Append(@, Entry("matched", recon.row[i], {}))]
     ELSE IF held /\ free # {}
       THEN [acc EXCEPT !.entries = Append(@, Entry("held", copy, recon.candidates[i])),
                        !.taken = @ \cup {copy},
                        !.rows = [@ EXCEPT ![copy].holder = IF sheet[i].who = None THEN @ ELSE sheet[i].who]]
     ELSE IF sheet[i].amt = Garbled
       THEN [acc EXCEPT !.entries = Append(@, Entry("unread", NoRow, {}))]
     ELSE [acc EXCEPT !.entries = Append(@, Entry(IF held THEN "held" ELSE "recorded",
                                                  NewId(acc.rows), recon.candidates[i])),
                      !.rows = Extended(@, NewId(@), Recorded(i, u))]

ImportLines ==
  LET acc[n \in 0..Len(sheet)] ==
        IF n = 0 THEN [entries |-> <<>>, rows |-> rows, taken |-> {}]
        ELSE ImportLine(acc[n - 1], n)
  IN acc[Len(sheet)]

\* A reparse whose upload is gone by then imports nothing.
Import ==
  /\ job # None /\ Head(job.next) = "import"
  /\ IF job.how = "reparse" /\ ~Imported(job.upload) THEN UNCHANGED <<rows, entries>>
     ELSE /\ rows' = ImportLines.rows
          /\ entries' = [entries EXCEPT ![job.upload] = ImportLines.entries]
  /\ job' = JobDone
  /\ UNCHANGED <<sheet, posts, reparses, voids, deletes, stray>>

-----------------------------------------------------------------------------
\* The user.

Claimed(u) == {e.row : e \in Range(entries[u])} \ {NoRow}

\* The answer folds a held line's copy into the row the user chose.
Answer(u, i, target) ==
  LET e == entries[u][i] IN
  /\ Imported(u) /\ HeldEntry(e)
  /\ target \notin {f.row : f \in {f \in Range(entries[u]) : f.how # "unread"}}
  /\ target \in e.offered
  /\ e.row \in DOMAIN rows /\ target \in DOMAIN rows
  /\ rows' = [r \in DOMAIN rows \ {e.row} |->
                IF r # target THEN rows[r]
                ELSE [rows[r] EXCEPT !.amt = sheet[i].amt, !.day = sheet[i].day, !.manual = FALSE,
                                     !.name = sheet[i].text, !.upload = u, !.stmt = TRUE,
                                     !.holder = IF sheet[i].who = None THEN @ ELSE sheet[i].who]]
  /\ entries' = [entries EXCEPT ![u][i] = Entry("answered", target, e.offered)]
  /\ stray' = (stray \/ ~IsCopy(e.row, i))
  /\ UNCHANGED <<sheet, job, posts, reparses, voids, deletes>>

\* Deleting an upload leaves its rows, without the link.
Delete(u) ==
  /\ Imported(u) /\ voids + deletes < MaxEdits /\ deletes' = deletes + 1
  /\ entries' = [entries EXCEPT ![u] = None]
  /\ rows' = [r \in DOMAIN rows |->
                IF rows[r].upload = u THEN [rows[r] EXCEPT !.upload = None, !.stmt = FALSE] ELSE rows[r]]
  /\ UNCHANGED <<sheet, job, posts, reparses, voids, stray>>

\* The bank cancelled a charge before it settled, or did not after all.
Void(r) ==
  /\ voids + deletes < MaxEdits /\ rows[r].dir = "debit"
  /\ rows' = [rows EXCEPT ![r].voided = ~@]
  /\ voids' = voids + 1
  /\ UNCHANGED <<sheet, entries, job, posts, reparses, deletes, stray>>

Next ==
  \/ \E row \in Postings : Post(row)
  \/ \E how \in {"email", "upload", "reparse"}, u \in Uploads : Begin(how, u)
  \/ Enrich
  \/ Import
  \/ \E u \in Uploads, i \in Lines, r \in DOMAIN rows : Answer(u, i, r)
  \/ \E u \in Uploads : Delete(u)
  \/ \E r \in DOMAIN rows : Void(r)

Spec == Init /\ [][Next]_vars

-----------------------------------------------------------------------------
\* PROPERTIES

\* The order of a statement's lines never changes what it writes into a row (its
\* name, holder and amount), only whether it writes: what two orders both settle,
\* they settle alike. A rupee row whose amount was typed by hand is the exception:
\* one order may settle it as an exact match, and another as a foreign spend.
OrderFree ==
  LET orders == {p \in [Lines -> Lines] : IsInjective(p)}
      lines(p) == [i \in Lines |-> sheet[p[i]]]
      writes(line) == <<RefreshIdentity(line), line.amt>>
      written(p) == LET recon == Reconcile(lines(p), rows, Cards)
                    IN {[row |-> recon.row[i], foreign |-> i \in recon.foreign,
                         as |-> writes(lines(p)[i])] : i \in {i \in Lines : recon.row[i] # NoRow}}
      all == UNION {written(p) : p \in orders}
  IN \A w, x \in all :
       w.row = x.row => w.as = x.as \/ (w.foreign # x.foreign /\ rows[w.row].manual)

\* However often a sheet is mailed, uploaded and reparsed, and whatever the user
\* answers or cancels, no more rows are recorded than it has lines. A deleted upload
\* and a voided row take a line's row away, for a time, and another line may take
\* its copy; an answer that folds a row which is no copy takes another line's.
RecordedOnce ==
  deletes = 0 /\ voids = 0 /\ ~stray =>
    Cardinality({r \in DOMAIN rows : rows[r].made = "statement"}) <= Len(sheet)

\* An answer deletes the copy its statement recorded for the line, no other row.
FoldsOwnCopy ==
  [][\A r \in DOMAIN rows \ DOMAIN rows' : rows[r].made = "statement"]_vars
=============================================================================
