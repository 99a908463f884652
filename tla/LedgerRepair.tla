--------------------------- MODULE LedgerRepair ----------------------------
(* Repairs of a bank account's ledger: two rows that show one event merge,   *)
(* and a phantom, a row that today's parse of its statement no longer holds, *)
(* goes. Alerts, statements and uploads come and go meanwhile, and a new     *)
(* parser may read a stored statement anew. What the repairs must not leave  *)
(* behind is a reparse, of an alert or of a statement, that records again.   *)
EXTENDS BankStatements

CONSTANTS
  Sources,          \* the alerts, each an SMS or an email
  SlotOf,           \* source -> the slot of a row that names it
  PostedBy,         \* source -> the row it posts
  Shortened,        \* pairs of references, one of which begins or ends the other
  Upgrades,         \* pairs of sheets, as the old and the new parser read one PDF
  MaxRepairs        \* bound on the merges and deletes

ASSUME RepairAssumption ==
  /\ \A pair \in Upgrades : Len(pair[2]) \in Nat /\ DOMAIN pair[2] = 1..Len(pair[2])
  /\ \A s \in Sources : DOMAIN PostedBy[s] = RowFields /\ PostedBy[s].amt \in Int

VARIABLES
  owner,            \* source -> the row that names it, or Null before it posts
  stored,           \* upload -> Null, or its last import: the lines as read then,
                    \* and which rows each unmatched line could have been
  check,            \* Null, or a delete that was checked but not yet made
  gone,             \* history: rows that went while a handler had read them, and rows
                    \* that took over what may have named one of those
  repairs           \* counter

repairVars == <<owner, stored, check, gone, repairs>>

RepairInit ==
  /\ BankInit
  /\ owner = [s \in Sources |-> Null]
  /\ stored = [u \in Uploads |-> Null]
  /\ check = Null /\ gone = {} /\ repairs = 0

Owns(r) == {s \in Sources : owner[s] = r}
FromStatement(r) == ledger[r].upload # Null
\* A row that a statement imported; a row that one matched only bears the link.
StatementRow(r) == ledger[r].made = "statement" /\ FromStatement(r)

-----------------------------------------------------------------------------
\* Alerts and statements, which know nothing of repairs.

Arrive(s) ==
  /\ owner[s] = Null
  /\ Post(PostedBy[s])
  /\ owner' = [owner EXCEPT ![s] = NewId(ledger)]
  /\ UNCHANGED <<stored, check, gone, repairs>>

\* An import that another handler overtook names rows as it had read them.
Imported ==
  /\ Import
  /\ stored' = [u \in Uploads |->
       IF entries'[u] = entries[u] /\ u # job.upload THEN stored[u]
       ELSE IF entries'[u] = Null THEN Null
       ELSE [lines |-> sheet,
             could |-> [i \in Lines |-> IF i \in job.recon.held THEN job.could[i] ELSE {}]]]
  /\ UNCHANGED <<owner, check, gone, repairs>>

Began(how, u) ==
  /\ job = Null
  /\ how = "retry" <=> Stored(u)
  /\ how = "retry" => reparses < MaxReparses
  /\ reparses' = IF how = "retry" THEN reparses + 1 ELSE reparses
  /\ job' = [how |-> how, upload |-> u, recon |-> Reconcile(sheet, ledger), enriched |-> FALSE,
             could |-> [i \in Lines |-> CandidateRows(sheet[i], ledger)]]
  /\ UNCHANGED <<sheet, ledger, entries, posts, voids, deletes, repairVars>>

Deleted(u) ==
  /\ Delete(u)
  /\ stored' = [stored EXCEPT ![u] = Null]
  /\ UNCHANGED <<owner, check, gone, repairs>>

\* A new release reads the PDF in its own way. What was under way is lost.
Upgrade ==
  /\ \E pair \in Upgrades : pair[1] = sheet /\ sheet' = pair[2]
  /\ job' = Null /\ check' = Null
  /\ UNCHANGED <<ledger, entries, posts, reparses, voids, deletes, owner, stored, gone, repairs>>

-----------------------------------------------------------------------------
\* Every row that names the one that goes names the one that stays, or nothing.

Repoint(u, old, new) ==
  LET named(e) == IF e.row # old THEN e
                  ELSE IF new = NoRow THEN Entry("forgotten", NoRow) ELSE [e EXCEPT !.row = new]
  IN IF entries[u] = Null THEN Null ELSE [i \in DOMAIN entries[u] |-> named(entries[u][i])]

MoveReferences(old, new) ==
  /\ entries' = [u \in Uploads |-> Repoint(u, old, new)]
  /\ stored' = [u \in Uploads |->
       IF stored[u] = Null THEN Null
       ELSE [stored[u] EXCEPT !.could =
               [i \in DOMAIN @ |-> IF old \in @[i] THEN (@[i] \ {old}) \cup ({new} \ {NoRow}) ELSE @[i]]]]

-----------------------------------------------------------------------------
\* Merges.

WithinADay(keep, dup) == ledger[keep].day - ledger[dup].day \in -1..1

ProveDistinct(r, s) ==
  LET a == KeyOf[ledger[r].ref]  b == KeyOf[ledger[s].ref]
  IN NoRef \notin {a, b} /\ a # b /\ {<<a, b>>, <<b, a>>} \cap Shortened = {}

NeverOther(keep, dup) == FALSE
OwnsOther(keep, dup) ==
  \E s \in Owns(keep), t \in Owns(dup) : SlotOf[s] = SlotOf[t]

\* What no person may lift.
Mergeable(keep, dup) ==
  /\ {keep, dup} \subseteq DOMAIN ledger /\ keep # dup
  /\ ledger[keep].dir = ledger[dup].dir /\ ledger[keep].amt = ledger[dup].amt
  /\ ~OwnsOther(keep, dup)
  /\ ~(FromStatement(keep) /\ FromStatement(dup)
       /\ NoRef \notin {ledger[keep].ref, ledger[dup].ref} /\ ledger[keep].ref # ledger[dup].ref)

\* A statement's reparse pairs rows a day apart on an equal reference only, so
\* the reference of its row survives; otherwise the longer form does.
KeepersReference(keep, dup) == ledger[keep].ref
SurvivingReference(keep, dup) ==
  LET longer == <<KeyOf[ledger[keep].ref], KeyOf[ledger[dup].ref]>> \in Shortened
                \/ KeyOf[ledger[keep].ref] = NoRef
  IN IF ledger[dup].ref # NoRef /\ ~FromStatement(keep) /\ (FromStatement(dup) \/ longer)
       THEN ledger[dup].ref ELSE ledger[keep].ref

\* The keeper with what it lacked.
Folded(keep, dup, ref) ==
  [ledger[keep] EXCEPT !.ref = ref,
     !.text = IF @ = NoText THEN ledger[dup].text ELSE @,
     !.upload = IF @ = Null THEN ledger[dup].upload ELSE @,
     !.stmt = @ \/ ledger[dup].stmt]

\* The ledger after a merge.
MergedRows(keep, dup, ref) ==
  [r \in DOMAIN ledger \ {dup} |-> IF r = keep THEN Folded(keep, dup, ref) ELSE ledger[r]]

\* A line that could be the row by date, amount and direction; an unreadable one
\* could be any row of its direction.
CouldBe(row, line) ==
  /\ line.dir = row.dir
  /\ line.amt = Garbled \/ (line.amt = row.amt /\ line.day - row.day \in -1..1)

\* What the merge of a pair that a person lifted a refusal of must show: today's
\* parse gives the keeper a line, and leaves none that could be one of the two.
Backed(keep, dup, merged) ==
  LET of == IF StatementRow(dup) \/ FromStatement(dup) THEN dup ELSE keep
      found == Reconcile(sheet, merged).row
      unresolved == {sheet[i] : i \in {j \in Lines : found[j] = NoRow}}
      keys == {KeyOf[ledger[keep].ref], KeyOf[ledger[dup].ref]} \ {NoRef}
  IN /\ StatementRow(of) /\ stored[ledger[of].upload] # Null
     /\ Len(sheet) >= Len(stored[ledger[of].upload].lines)
     /\ \E i \in Lines : found[i] = keep
     /\ ~\E line \in unresolved :
           CouldBe(ledger[keep], line) \/ CouldBe(ledger[dup], line) \/ KeyOf[line.ref] \in keys

Merge(keep, dup, lifted) ==
  \E ref \in {IF lifted THEN ledger[keep].ref ELSE SurvivingReference(keep, dup)} :
    /\ repairs < MaxRepairs /\ repairs' = repairs + 1
    /\ Mergeable(keep, dup)
    /\ lifted <=> ~WithinADay(keep, dup) \/ ProveDistinct(keep, dup)
    /\ ledger' = MergedRows(keep, dup, ref)
    /\ lifted => Backed(keep, dup, ledger')
    /\ MoveReferences(dup, keep)
    /\ owner' = [s \in Sources |-> IF owner[s] = dup THEN keep ELSE owner[s]]
    /\ gone' = gone \cup {r \in {keep} : dup \in gone} \cup {r \in {dup} : job # Null}
    /\ UNCHANGED <<sheet, job, posts, reparses, voids, deletes, check>>

-----------------------------------------------------------------------------
\* A delete. Its check reads the ledger before the lock.

\* Rows that no line of today's parse can claim.
NotMatched == DOMAIN ledger \ Range(Reconcile(sheet, ledger).row)
Unheld ==
  {r \in NotMatched : ~\E i \in Lines : CouldBe(ledger[r], sheet[i]) \/ r \in CandidateRows(sheet[i], ledger)}

CheckPhantom(r) ==
  /\ check = Null /\ r \in DOMAIN ledger /\ StatementRow(r) /\ repairs < MaxRepairs
  /\ stored[ledger[r].upload] # Null
  /\ Lines # {} /\ Len(sheet) + 1 >= Len(stored[ledger[r].upload].lines)
  /\ r \in Unheld
  /\ check' = [row |-> r, as |-> ledger[r]]
  /\ UNCHANGED <<bankVars, owner, stored, gone, repairs>>

Unchanged(r) == r \in DOMAIN ledger /\ ledger[r] = check.as

\* Another upload's stored reconciliation that could claim the row again.
NamedElsewhere(r) ==
  \E u \in Uploads \ {ledger[r].upload} :
    /\ stored[u] # Null
    /\ \/ \E e \in Range(entries[u]) : e.row = r
       \/ \E i \in DOMAIN stored[u].could : r \in stored[u].could[i]
       \/ \E i \in DOMAIN stored[u].lines :
            /\ i \in DOMAIN entries[u] /\ entries[u][i].how \in {"held", "unread", "duplicate"}
            /\ CouldBe(ledger[r], stored[u].lines[i])

DeletePhantom ==
  /\ check # Null /\ check' = Null
  /\ \E r \in {check.row} :
       IF Unchanged(r) /\ Owns(r) = {} /\ ~NamedElsewhere(r)
         THEN /\ ledger' = [o \in DOMAIN ledger \ {r} |-> ledger[o]]
              /\ MoveReferences(r, NoRow)
              /\ repairs' = repairs + 1
              /\ gone' = gone \cup {o \in {r} : job # Null}
         ELSE UNCHANGED <<ledger, entries, stored, repairs, gone>>
  /\ UNCHANGED <<sheet, job, posts, reparses, voids, deletes, owner>>

-----------------------------------------------------------------------------
RepairNext ==
  \/ \E s \in Sources : Arrive(s)
  \/ \E how \in {"email", "upload", "retry"}, u \in Uploads : Began(how, u)
  \/ EnrichMatched /\ UNCHANGED repairVars
  \/ Imported
  \/ \E u \in Uploads : Deleted(u)
  \/ Upgrade
  \/ \E keep, dup \in DOMAIN ledger, lifted \in BOOLEAN : Merge(keep, dup, lifted)
  \/ \E r \in DOMAIN ledger : CheckPhantom(r)
  \/ DeletePhantom

RepairSpec == RepairInit /\ [][RepairNext]_<<bankVars, repairVars>>

-----------------------------------------------------------------------------
\* PROPERTIES

\* The lines that a reparse would record now.
Missing(lines, table) ==
  LET recon == Reconcile(lines, table)
  IN {i \in DOMAIN lines : recon.row[i] = NoRow /\ i \notin recon.held /\ lines[i].amt # Garbled
                           /\ ~Duplicate(lines[i], table)}

\* No merge and no delete brings a row back: a reparse right after it records no
\* line that it would not have recorded right before. A line matched to a row a
\* day off is excepted: a keeper yet a day further is out of its reach.
Adrift(i) == \E r \in {Reconcile(sheet, ledger).row[i]} : r # NoRow /\ ledger[r].day # sheet[i].day
NothingComesBack ==
  [][repairs' > repairs =>
       \A i \in Missing(sheet, ledger') : i \in Missing(sheet, ledger) \/ Adrift(i)]_<<bankVars, repairVars>>

\* Nothing is left pointing nowhere: an alert that was posted has a row in its
\* slot, alone there, and a stored reconciliation names rows that exist and are of
\* the line's amount and direction, but for rows that went while an import that
\* had read them was under way, and those that merges put in their place.
ReferencesHold ==
  /\ \A s \in Sources : owner[s] # Null =>
       owner[s] \in DOMAIN ledger /\ ~\E t \in Sources \ {s} : owner[t] = owner[s] /\ SlotOf[t] = SlotOf[s]
  /\ \A u \in Uploads : stored[u] # Null =>
       \A i \in DOMAIN entries[u] : \E r \in {entries[u][i].row} :
         r \notin {NoRow} \cup gone =>
           /\ r \in DOMAIN ledger
           /\ ledger[r].amt = stored[u].lines[i].amt /\ ledger[r].dir = stored[u].lines[i].dir
=============================================================================
