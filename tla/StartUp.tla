------------------------------ MODULE StartUp ------------------------------
(* The start of the service on the database of any earlier version           *)
(* (db/init_db.py). There is no version number: a missing column is added,    *)
(* and some are then filled once; other changes are made once because they   *)
(* leave a marker; the table of lots is rebuilt if it has its old form.       *)
(* SQLite's driver begins a transaction with the first statement that        *)
(* changes rows: a change of the schema before that is final at once. The    *)
(* process may die after any statement, and starts again. In between the     *)
(* service runs, with Paisa or without.                                      *)
EXTENDS Naturals, Sequences

CONSTANTS
  Script,          \* the statements of a start, in their order
  Columns,         \* columns that a database may lack
  Changes,         \* changes that leave a marker
  MaxStarts        \* bound on starts

Kinds == {"create tables", "drop triggers", "add", "fill", "change", "mark", "seed",
          "rename lots", "create lots", "copy lots", "drop lots",
          "sync row", "triggers", "commit"}

Lines == 1 .. Len(Script)
Does(i, kind) == i \in Lines /\ Script[i].do = kind
DoesTo(i, kind, x) == i \in Lines /\ Script[i] = [do |-> kind, of |-> x]

\* Columns that are filled when they are added.
Filled == {c \in Columns : \E i \in Lines : DoesTo(i, "fill", c)}

\* A transaction has begun for certain: a seed came since the last commit.
InTransaction(i) ==
  \E j \in 1 .. i - 1 : Does(j, "seed") /\ \A k \in j .. i - 1 : ~ Does(k, "commit")

\* Columns that are filled where that is not certain.
Early == {c \in Filled : \E i \in Lines : DoesTo(i, "fill", c) /\ ~ InTransaction(i)}

\* Where the table of lots is rebuilt.
RebuildLine == CHOOSE i \in Lines : Does(i, "rename lots")

\* How a start is written.
ASSUME StartUpAssumption ==
  /\ MaxStarts \in Nat
  /\ "lots" \notin Columns \cup Changes /\ Columns \cap Changes = {}
  /\ Script \in Seq([do : Kinds, of : Columns \cup Changes \cup {"none"}])
  /\ Does(Len(Script), "commit")
  /\ \A i \in Lines : /\ Script[i].do \in {"add", "fill"} => Script[i].of \in Columns
                      /\ Script[i].do \in {"change", "mark"} => Script[i].of \in Changes
  /\ \A c \in Columns : \E i \in Lines : DoesTo(i, "add", c)
  /\ \A x \in Changes : \E i \in Lines : DoesTo(i, "mark", x)
  \* a column is filled next to the one place that adds it
  /\ \A c \in Filled : \E i \in Lines : \A j \in Lines :
       (DoesTo(j, "add", c) <=> j = i) /\ (DoesTo(j, "fill", c) <=> j = i + 1)
  \* a change is made next to its marker
  /\ \A i \in Lines, x \in Changes : DoesTo(i, "change", x) <=> DoesTo(i + 1, "mark", x)
  /\ \A x \in Changes : ~ DoesTo(1, "mark", x)
  \* the lots are rebuilt at one place, in a transaction
  /\ RebuildLine \in Lines /\ InTransaction(RebuildLine)
  /\ \A i \in Lines : /\ Does(i, "rename lots") <=> i = RebuildLine
                      /\ Does(i, "create lots") <=> i = RebuildLine + 1
                      /\ Does(i, "copy lots")   <=> i = RebuildLine + 2
                      /\ Does(i, "drop lots")   <=> i = RebuildLine + 3
  \* the row and the triggers are there in the end
  /\ \E i \in Lines : Does(i, "sync row")
  /\ \E i \in Lines : Does(i, "triggers") /\ \A j \in i .. Len(Script) : ~ Does(j, "drop triggers")

VARIABLES
  stored,          \* the committed database
  view,            \* the database as the start sees it
  begun,           \* a transaction has begun
  line,            \* the next statement: 0 is down, and after the last the service runs
  missing,         \* columns (or "lots") that this start found missing
  withPaisa,       \* Paisa is enabled in this deployment
  torn,            \* history: columns added for good by a start that did not fill them
  starts           \* counter for the bound

startVars == <<stored, view, begun, line, missing, withPaisa, torn, starts>>

\* A database: its columns and markers, how often each change was made to its
\* rows, its lots, the triggers that track writes, the row of the sync state,
\* and whether there are writes that Paisa was not told of.
Databases == [has : SUBSET (Columns \cup Changes), times : [Columns \cup Changes -> Nat],
              lots : {"old", "renamed", "empty", "copied", "new"},
              triggers : BOOLEAN, row : {"none", "clean", "dirty"}, unseen : BOOLEAN]

\* The database of a version that did what it has, once.
Version(has, lots, row, unseen) ==
  [has |-> has, times |-> [x \in Columns \cup Changes |-> IF x \in has THEN 1 ELSE 0],
   lots |-> lots, triggers |-> row # "none", row |-> row, unseen |-> unseen]

StartsFrom(database) ==
  /\ stored = database /\ view = database /\ begun = FALSE /\ line = 0
  /\ missing = {} /\ withPaisa = FALSE /\ torn = {} /\ starts = 0

StartInit ==
  \E has \in SUBSET (Columns \cup Changes), lots \in {"old", "new"},
     row \in {"none", "clean", "dirty"}, unseen \in BOOLEAN :
    (unseen => row # "clean") /\ StartsFrom(Version(has, lots, row, unseen))

Running == line = Len(Script) + 1

-----------------------------------------------------------------------------
\* Statements.

Takes == line' = line + 1 /\ UNCHANGED <<withPaisa, torn, starts>>
Skips == Takes /\ UNCHANGED <<stored, view, begun, missing>>

\* A change of the schema is final at once if no transaction has begun.
Schema(db) == Takes /\ view' = db /\ stored' = (IF begun THEN stored ELSE db) /\ UNCHANGED begun

\* A change of rows begins one.
Rows(db) == Takes /\ view' = db /\ begun' = TRUE /\ UNCHANGED stored

MadeTo(db, x) == [db EXCEPT !.times[x] = @ + 1]

\* A change of a tracked table, with the triggers installed or not.
Touched(db) == IF db.triggers /\ db.row = "clean" THEN "dirty" ELSE db.row

-----------------------------------------------------------------------------
\* What a start does.

Boot(enabled) ==
  /\ line = 0 /\ starts < MaxStarts
  /\ line' = 1 /\ starts' = starts + 1 /\ withPaisa' = enabled /\ missing' = {}
  /\ UNCHANGED <<stored, view, begun, torn>>

\* Tables that are missing; the lots are, if a rebuild was left after its rename.
CreateTables ==
  /\ Does(line, "create tables") /\ UNCHANGED missing
  /\ Schema([view EXCEPT !.lots = IF @ = "renamed" THEN "empty" ELSE @])

DropTriggers ==
  /\ Does(line, "drop triggers") /\ UNCHANGED missing
  /\ Schema([view EXCEPT !.triggers = FALSE])

AddColumn(c) ==
  /\ DoesTo(line, "add", c)
  /\ \/ c \in view.has /\ Skips
     \/ /\ c \notin view.has /\ missing' = missing \cup {c}
        /\ Schema([view EXCEPT !.has = @ \cup {c}])

\* Filled by the start that added it, and by no other.
FillColumn(c) ==
  /\ DoesTo(line, "fill", c)
  /\ \/ c \notin missing /\ Skips
     \/ c \in missing /\ Rows(MadeTo(view, c)) /\ UNCHANGED missing

\* The marker is written after the change, in the same transaction.
MakeChange(x) ==
  /\ DoesTo(line, "change", x)
  /\ \/ x \in view.has /\ Skips
     \/ /\ x \notin view.has /\ UNCHANGED missing
        /\ Rows([MadeTo(view, x) EXCEPT !.row = Touched(view)])

Mark(x) ==
  /\ DoesTo(line, "mark", x)
  /\ \/ x \in view.has /\ Skips
     \/ x \notin view.has /\ Rows([view EXCEPT !.has = @ \cup {x}]) /\ UNCHANGED missing

\* Rows that are inserted if they are missing.
SeedRows == Does(line, "seed") /\ Rows(view) /\ UNCHANGED missing

RenameLots ==
  /\ Does(line, "rename lots")
  /\ \/ view.lots # "old" /\ Skips
     \/ /\ view.lots = "old" /\ missing' = missing \cup {"lots"}
        /\ Schema([view EXCEPT !.lots = "renamed"])

\* The rest of the rebuild, by the start that began it.
Rebuilds(kind) == Does(line, kind) /\ "lots" \in missing /\ UNCHANGED missing

CreateLots == Rebuilds("create lots") /\ Schema([view EXCEPT !.lots = "empty"])
CopyLots   == Rebuilds("copy lots") /\ Rows([view EXCEPT !.lots = "copied"])
DropLots   == Rebuilds("drop lots") /\ Schema([view EXCEPT !.lots = "new"])

NoRebuild ==
  /\ line \in Lines /\ Script[line].do \in {"create lots", "copy lots", "drop lots"}
  /\ "lots" \notin missing /\ Skips

RowStays(enabled, row) == IF enabled /\ row = "none" THEN "dirty" ELSE row

\* With Paisa the row is there, a new one dirty; without, it goes.
KeptRow(enabled, row) ==
  IF ~ enabled THEN "none" ELSE IF row = "none" THEN "dirty" ELSE row

SyncRow ==
  /\ Does(line, "sync row") /\ UNCHANGED missing
  /\ Rows([view EXCEPT !.row = KeptRow(withPaisa, @)])

InstallTriggers ==
  /\ Does(line, "triggers")
  /\ \/ ~ withPaisa /\ Skips
     \/ withPaisa /\ Schema([view EXCEPT !.triggers = TRUE]) /\ UNCHANGED missing

CommitStart ==
  /\ Does(line, "commit") /\ Takes /\ stored' = view /\ begun' = FALSE
  /\ UNCHANGED <<view, missing>>

-----------------------------------------------------------------------------
\* The service, and its end at any time.

Runs(db) == Running /\ view' = db /\ stored' = db
              /\ UNCHANGED <<begun, line, missing, withPaisa, torn, starts>>

WriteTracked == Runs([view EXCEPT !.unseen = TRUE, !.row = Touched(view)])

ReconcileAll == view.row = "dirty" /\ Runs([view EXCEPT !.unseen = FALSE, !.row = "clean"])

Down ==
  /\ line # 0 /\ line' = 0 /\ view' = stored /\ begun' = FALSE
  /\ torn' = torn \cup {c \in missing \cap stored.has \cap Filled : stored.times[c] = 0}
  /\ UNCHANGED <<stored, missing, withPaisa, starts>>

StartNext ==
  \/ \E enabled \in BOOLEAN : Boot(enabled)
  \/ \E c \in Columns : AddColumn(c) \/ FillColumn(c)
  \/ \E x \in Changes : MakeChange(x) \/ Mark(x)
  \/ CreateTables \/ DropTriggers \/ SeedRows
  \/ RenameLots \/ CreateLots \/ CopyLots \/ DropLots \/ NoRebuild
  \/ SyncRow \/ InstallTriggers \/ CommitStart
  \/ WriteTracked \/ ReconcileAll \/ Down

StartSpec == StartInit /\ [][StartNext]_startVars

-----------------------------------------------------------------------------
\* The statements of init_db, in their order. Columns that are only added are
\* one column, "plain": each is added if it is missing, on its own.

Plain == <<[do |-> "add", of |-> "plain"]>>
Statement(kind) == <<[do |-> kind, of |-> "none"]>>
AddAndFill(c) == <<[do |-> "add", of |-> c], [do |-> "fill", of |-> c]>>
Once(x) == <<[do |-> "change", of |-> x], [do |-> "mark", of |-> x]>>

\* Rules that ever brought a mail have done their backfill.
FirstColumns == Plain \o AddAndFill("initial_backfill_done_at")

\* One statement of each account is the active one.
StatementColumns == Plain \o AddAndFill("is_active") \o Plain

\* A category from before the sweeps is the user's.
CategoryColumns == Plain \o Once("category_method_backfill")

SeedCategories == Statement("seed")

Indexes == Once("categorization_identifier_rename") \o Plain
             \o Once("uq_ref_includes_direction") \o Once("ix_transactions_category_date")
             \o Once("nach_ref_nullified")

\* All rows are from before SMS: they came by email.
SmsColumns == Plain \o AddAndFill("source") \o AddAndFill("notified_channel") \o Plain

InvestmentLots == Statement("rename lots") \o Statement("create lots") \o Statement("copy lots")
                    \o Statement("drop lots") \o Plain \o Once("investment_lots_backfill")

DirtyTracking == Statement("sync row") \o Statement("triggers")

MerchantRules == Once("retire_supermoney") \o Once("card_holder_backfill")
                   \o Once("card_holder_addon_labels") \o Statement("seed")

InitDb ==
  Statement("create tables") \o Statement("commit")
    \o Statement("drop triggers") \o FirstColumns \o StatementColumns \o CategoryColumns
    \o SeedCategories \o Indexes \o SmsColumns \o InvestmentLots \o DirtyTracking
    \o Statement("commit") \o MerchantRules \o Statement("commit")

-----------------------------------------------------------------------------
\* PROPERTIES

(* Each change of the rows of an earlier version is made once, however often  *)
(* a start dies, but for a column that is filled before the transaction has   *)
(* begun.                                                                     *)
MadeOnce ==
  /\ \A x \in Columns \cup Changes : view.times[x] <= 1
  /\ Running => \A x \in Filled \cup Changes : view.times[x] = 1 \/ x \in torn \cap Early

(* No start loses the lots that it rebuilds the table of.                     *)
LotsKept == Running => view.lots = "new"

(* While the service runs with Paisa, what Paisa was not told of is marked,   *)
(* whatever was written while it ran without.                                 *)
WritesTracked ==
  Running /\ withPaisa => view.triggers /\ (view.unseen => view.row = "dirty")

StartsHold == MadeOnce /\ LotsKept /\ WritesTracked
=============================================================================
