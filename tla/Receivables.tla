---------------------------- MODULE Receivables ----------------------------
(* The ledger of receivables and payables, called claims here: what is owed, *)
(* the rows that caused it and pay it, the questions a sweep sends to        *)
(* Telegram when a row may pay a claim, and the names by which it knows whom *)
(* a row names. Requests read a claim before they take the write lock.       *)
EXTENDS Integers, Sequences, FiniteSets, FiniteSetsExt

CONSTANTS
  None,
  Claims, KindOf,             \* claim -> "receivable" or "payable"
  Rows, Amount, Direction,    \* row -> its amount; "debit" or "credit"
  People, Names,
  DebtorsOf,                  \* claim -> the people it may be created for
  Carries, Teaches,           \* row -> names in its text; names its payment teaches
  FullName,                   \* person -> the words of the person's own name
  PartOf,                     \* pairs of names, the first inside the second
  Twins,                      \* pairs of rows that show one payment
  Amounts, Requests,          \* amounts of claims; slots for requests under way
  MaxEdits, MaxAsked          \* bounds on the user's requests and on questions

VARIABLES
  live, voided,     \* rows that exist, rows that count as no money
  claims,           \* claim -> None or [amount, status, person]
  links,            \* set of [claim, row, role]
  known,            \* person -> the names stored for the person
  prompts,          \* id -> None or [row, candidates, status, message, by]
  messages,         \* the messages in the outbox, by delivery id
  request,          \* slot -> None or what it read
  sweep,            \* None or the questions a sweep will write
  overtaken,        \* history: claims written by what another request made stale
  reopened,         \* history: claims the user keeps open whatever is paid
  edits             \* counter

vars == <<live, voided, claims, links, known, prompts, messages, request, sweep,
          overtaken, reopened, edits>>

Statuses == {"open", "settled", "written_off"}
Roles == {"charge", "payment"}
Links == [claim : Claims, row : Rows, role : Roles]

\* Amounts are not negative. Rows that show one payment agree on its direction.
ASSUME ReceivablesAssumption ==
  /\ IsFiniteSet(Claims) /\ IsFiniteSet(Rows)
  /\ Amount \in [Rows -> Nat] /\ Amounts \subseteq Nat /\ MaxAsked \in Nat
  /\ DebtorsOf \in [Claims -> SUBSET People] /\ Teaches \in [Rows -> SUBSET Names]
  /\ \A pair \in Twins : pair[1] # pair[2] /\ Direction[pair[1]] = Direction[pair[2]]
  /\ None \notin Amounts /\ None \notin People /\ None \notin Statuses
  /\ None \notin [amount : Amounts, status : Statuses, person : People]

PromptIds == 1..MaxAsked
RoleDirection(c, role) ==
  IF (role = "payment") = (KindOf[c] = "receivable") THEN "credit" ELSE "debit"

Init ==
  /\ live = Rows /\ voided = {}
  /\ claims = [c \in Claims |-> None] /\ links = {}
  /\ known = [p \in People |-> {}]
  /\ prompts = [i \in PromptIds |-> None] /\ messages = <<>>
  /\ request = [r \in Requests |-> None] /\ sweep = None
  /\ overtaken = {} /\ reopened = {} /\ edits = 0

-----------------------------------------------------------------------------
\* What is paid, and what a row may do.

PaymentsOf(c, all) == {l \in all : l.claim = c /\ l.role = "payment"}
Worth == [l \in Links |-> Amount[l.row]]
Paid(c, all) == SumFunctionOnSet(Worth, PaymentsOf(c, all))
Outstanding(c) == claims[c].amount - Paid(c, links)
Read(c) == [amount |-> claims[c].amount, status |-> claims[c].status,
            person |-> claims[c].person, paid |-> Paid(c, links)]

SettledIfOverpaid(status, paid, amount) ==
  IF status = "open" /\ paid > amount THEN "settled" ELSE status
SettledIfPaid(status, paid, amount) ==
  IF status = "open" /\ paid >= amount THEN "settled" ELSE status

Linkable(c, row, role) ==
  /\ row \in live \ voided
  /\ Direction[row] = RoleDirection(c, role)

\* The unique indexes: a claim links a row once, a payment pays one claim.
Unique(all) ==
  \A l, k \in all : l # k /\ l.row = k.row =>
    l.claim # k.claim /\ "charge" \in {l.role, k.role}

Learn(person, rows) == [known EXCEPT ![person] = @ \cup UNION {Teaches[row] : row \in rows}]

-----------------------------------------------------------------------------
\* Requests. The first of each pair of steps reads, the second takes the lock
\* and commits what follows from what was read. One that is refused changes
\* nothing, as one that goes no further.

Edit == edits < MaxEdits /\ edits' = edits + 1

Create(c, amount, person, charges, payments) ==
  /\ claims[c] = None /\ Edit
  /\ charges \cap payments = {}
  /\ \A row \in charges : Linkable(c, row, "charge")
  /\ \A row \in payments : Linkable(c, row, "payment")
  /\ links' = links \cup [claim : {c}, row : charges, role : {"charge"}]
                    \cup [claim : {c}, row : payments, role : {"payment"}]
  /\ Unique(links')
  /\ claims' = [claims EXCEPT ![c] =
       [amount |-> amount, person |-> person,
        status |-> SettledIfPaid("open", Paid(c, links'), amount)]]
  /\ known' = Learn(person, payments)
  /\ UNCHANGED <<live, voided, prompts, messages, request, sweep, overtaken, reopened>>

Start(r, c, op) ==
  /\ request[r] = None /\ claims[c] # None /\ Edit
  /\ request' = [request EXCEPT ![r] = [op |-> op, claim |-> c, read |-> Read(c)]]
  /\ UNCHANGED <<live, voided, claims, links, known, prompts, messages, sweep, overtaken, reopened>>

Overtakes(c, read) == overtaken' = IF Read(c) = read THEN overtaken ELSE overtaken \cup {c}

\* A link, with the claim as it was read.
Attach(c, read, row, role) ==
  /\ Linkable(c, row, role)
  /\ links' = links \cup {[claim |-> c, row |-> row, role |-> role]}
  /\ links' # links /\ Unique(links')
  /\ known' = IF role = "payment" THEN Learn(read.person, {row}) ELSE known
  /\ \E settled \in {role = "payment" /\ SettledIfPaid(read.status, read.paid + Amount[row], read.amount) # read.status} :
       /\ claims' = IF settled THEN [claims EXCEPT ![c].status = "settled"] ELSE claims
       /\ reopened' = IF settled THEN reopened \ {c} ELSE reopened

AddLink(r, row, role) ==
  /\ request[r] # None /\ request[r].op = "link"
  /\ Attach(request[r].claim, request[r].read, row, role)
  /\ Overtakes(request[r].claim, request[r].read)
  /\ request' = [request EXCEPT ![r] = None]
  /\ UNCHANGED <<live, voided, prompts, messages, sweep, edits>>

\* A partial edit writes the fields that differ from what was read. A new person
\* takes the names of the old one, unless it is somebody already.
Renamed(c, old, new) ==
  LET others == {claims[o].person : o \in {x \in Claims \ {c} : claims[x] # None}}
  IN IF old = new \/ new \in others \/ known[new] # {} THEN known
     ELSE [known EXCEPT ![new] = known[old], ![old] = IF old \in others THEN @ ELSE {}]

StatusOf(c, read, amount, status) ==
  CASE status \notin {None, read.status} -> status
    [] /\ status = None /\ amount \notin {None, read.amount}
       /\ SettledIfPaid(read.status, read.paid, amount) # read.status -> "settled"
    [] OTHER -> claims[c].status

Edited(c, read, amount, status, person) ==
  [amount |-> IF amount \notin {None, read.amount} THEN amount ELSE claims[c].amount,
   status |-> StatusOf(c, read, amount, status),
   person |-> IF person = None THEN claims[c].person ELSE person]

Update(r, amount, status, person) ==
  /\ request[r] # None /\ request[r].op = "update"
  /\ \E c \in {request[r].claim}, read \in {request[r].read} :
       /\ claims' = [claims EXCEPT ![c] = Edited(c, read, amount, status, person)]
       /\ known' = IF person = None THEN known ELSE Renamed(c, read.person, person)
       /\ reopened' = IF StatusOf(c, read, amount, status) # "open" THEN reopened \ {c}
                      ELSE IF status = "open" THEN reopened \cup {c} ELSE reopened
       /\ Overtakes(c, read)
  /\ request' = [request EXCEPT ![r] = None]
  /\ UNCHANGED <<live, voided, links, prompts, messages, sweep, edits>>

RemoveLink(l) ==
  /\ l \in links /\ Edit
  /\ links' = links \ {l}
  /\ UNCHANGED <<live, voided, claims, known, prompts, messages, request, sweep, overtaken, reopened>>

Identify(person, name) ==
  /\ name \notin known[person] /\ Edit
  /\ known' = [known EXCEPT ![person] = @ \cup {name}]
  /\ UNCHANGED <<live, voided, claims, links, prompts, messages, request, sweep, overtaken, reopened>>

\* A void checks the links without the lock.
Voidable(row) == Direction[row] = "debit" /\ ~\E l \in links : l.row = row /\ l.role = "payment"

CheckVoid(r, row) ==
  /\ request[r] = None /\ row \in live \ voided /\ Voidable(row) /\ Edit
  /\ request' = [request EXCEPT ![r] = [op |-> "void", row |-> row]]
  /\ UNCHANGED <<live, voided, claims, links, known, prompts, messages, sweep, overtaken, reopened>>

Void(r) ==
  /\ request[r] # None /\ request[r].op = "void" /\ request[r].row \in live
  /\ voided' = voided \cup {request[r].row}
  /\ overtaken' = overtaken \cup {l.claim : l \in {k \in links : k.row = request[r].row /\ k.role = "payment"}}
  /\ request' = [request EXCEPT ![r] = None]
  /\ UNCHANGED <<live, claims, links, known, prompts, messages, sweep, reopened, edits>>

Unvoid(row) ==
  /\ row \in voided /\ Edit
  /\ voided' = voided \ {row}
  /\ UNCHANGED <<live, claims, links, known, prompts, messages, request, sweep, overtaken, reopened>>

-----------------------------------------------------------------------------
\* A row goes away: its links move to the row that stays, where they add
\* something, and its question goes with it.

DroppedBySameClaim(old, new) ==
  {l \in links : l.row = old /\ \E k \in links : k.row = new /\ k.claim = l.claim}
Dropped(old, new) ==
  {l \in links : /\ l.row = old
                 /\ \/ \E k \in links : k.row = new /\ k.claim = l.claim
                    \/ l.role = "payment" /\ \E k \in links : k.row = new /\ k.role = "payment"}

MoveLinks(old, new) ==
  LET asked == {i \in PromptIds : prompts[i] # None /\ prompts[i].row = old}
      ofOld == {l \in links : l.row = old}
      moved == {[l EXCEPT !.row = new] : l \in ofOld \ Dropped(old, new)}
  IN /\ prompts' = [i \in PromptIds |-> IF i \in asked THEN None ELSE prompts[i]]
     /\ messages' = [m \in DOMAIN messages |->
          IF \E i \in asked : prompts[i].message = m /\ messages[m].status = "queued"
            THEN [messages[m] EXCEPT !.status = "cancelled"] ELSE messages[m]]
     /\ links' = (links \ ofOld) \cup (IF new = None THEN {} ELSE moved)
     /\ claims' = [c \in Claims |->
          IF [claim |-> c, row |-> new, role |-> "payment"] \in links'
            THEN [claims[c] EXCEPT !.status = SettledIfPaid(@, Paid(c, links'), claims[c].amount)]
            ELSE claims[c]]
     /\ reopened' = {c \in reopened : claims'[c].status = "open"}

Merge(old, new) ==
  /\ <<old, new>> \in Twins /\ {old, new} \subseteq live \ voided /\ Edit
  /\ MoveLinks(old, new)
  /\ live' = live \ {old}
  /\ UNCHANGED <<voided, known, request, sweep, overtaken>>

DeleteRow(row) ==
  /\ row \in live /\ Edit
  /\ MoveLinks(row, None)
  /\ live' = live \ {row} /\ voided' = voided \ {row}
  /\ UNCHANGED <<known, request, sweep, overtaken>>

-----------------------------------------------------------------------------
\* The sweep asks once for each row that pays what is outstanding of a claim of
\* a person it names. It reads, and writes what it read a little later.

\* The name by which a row names a person: a stored one, or, of a person without
\* any, the person's own.
NamedBy(row, person) ==
  CASE known[person] \cap Carries[row] # {} ->
         CHOOSE n \in known[person] \cap Carries[row] :
           \A m \in known[person] \cap Carries[row] : <<n, m>> \notin PartOf
    [] known[person] = {} /\ FullName[person] \in Carries[row] -> FullName[person]
    [] OTHER -> None

Fits(row, c) ==
  /\ claims[c] # None /\ claims[c].status = "open"
  /\ Direction[row] = RoleDirection(c, "payment")
  /\ Amount[row] = Outstanding(c)
  /\ NamedBy(row, claims[c].person) # None

\* A person whose name sits inside a longer one that matched is not offered.
Candidates(row) ==
  LET fitting == {c \in Claims : Fits(row, c)}
      name(c) == NamedBy(row, claims[c].person)
      kept == {c \in fitting : ~\E o \in fitting : <<name(c), name(o)>> \in PartOf}
  IN IF Cardinality(kept) <= 3 THEN kept ELSE {}

Asked(row) == \E i \in PromptIds : prompts[i] # None /\ prompts[i].row = row

SweepRead ==
  /\ sweep = None
  /\ \E open \in {{row \in live \ voided : /\ ~Asked(row) /\ Candidates(row) # {}
                                           /\ ~\E l \in links : l.row = row}} :
       open # {} /\ sweep' = [row \in open |-> Candidates(row)]
  /\ UNCHANGED <<live, voided, claims, links, known, prompts, messages, request, overtaken, reopened, edits>>

\* One question at a time; SQLite gives the highest prompt id plus one.
NewId == 1 + Max({0} \cup {i \in PromptIds : prompts[i] # None})

SweepWrite ==
  /\ sweep # None
  /\ \E row \in DOMAIN sweep :
       /\ sweep' = IF DOMAIN sweep = {row} THEN None ELSE [o \in DOMAIN sweep \ {row} |-> sweep[o]]
       /\ IF Asked(row) THEN UNCHANGED <<prompts, messages>>
          ELSE /\ NewId \in PromptIds /\ Len(messages) < MaxAsked
               /\ messages' = Append(messages, [prompt |-> NewId, row |-> row,
                                                candidates |-> sweep[row], status |-> "queued"])
               /\ prompts' = [prompts EXCEPT ![NewId] =
                    [row |-> row, candidates |-> sweep[row], status |-> "pending",
                     message |-> Len(messages) + 1, by |-> None]]
  /\ UNCHANGED <<live, voided, claims, links, known, request, overtaken, reopened, edits>>

Send(m) ==
  /\ m \in DOMAIN messages /\ messages[m].status = "queued"
  /\ messages' = [messages EXCEPT ![m].status = "sent"]
  /\ UNCHANGED <<live, voided, claims, links, known, prompts, request, sweep, overtaken, reopened, edits>>

\* The buttons of message m name a prompt id and a claim. The prompt must still
\* be the one that m was sent for.
AnyButton(m, i) == TRUE
OwnButton(m, i) == prompts[i].message = m

Answerable(m, i) ==
  /\ m \in DOMAIN messages /\ messages[m].status = "sent" /\ i = messages[m].prompt
  /\ prompts[i] # None /\ prompts[i].status = "pending"
  /\ OwnButton(m, i)

Tap(m, c) ==
  \E i \in PromptIds :
    /\ Answerable(m, i) /\ c \in messages[m].candidates \cap prompts[i].candidates
    /\ prompts[i].row \in live \ voided /\ Fits(prompts[i].row, c)
    /\ Attach(c, Read(c), prompts[i].row, "payment")
    /\ prompts' = [prompts EXCEPT ![i].status = "linked", ![i].by = m]
    /\ UNCHANGED <<live, voided, messages, request, sweep, overtaken, edits>>

Dismiss(m) ==
  \E i \in PromptIds :
    /\ Answerable(m, i)
    /\ prompts' = [prompts EXCEPT ![i].status = "dismissed", ![i].by = m]
    /\ UNCHANGED <<live, voided, claims, links, known, messages, request, sweep, overtaken, reopened, edits>>

-----------------------------------------------------------------------------
Handle(r) ==
  \/ \E c \in Claims, op \in {"link", "update"} : Start(r, c, op)
  \/ \E row \in Rows, role \in Roles : AddLink(r, row, role)
  \/ \E amount \in Amounts \cup {None}, status \in {None} \cup Statuses,
        person \in People \cup {None} : Update(r, amount, status, person)
  \/ \E row \in Rows : CheckVoid(r, row)
  \/ Void(r)

Next ==
  \/ \E c \in Claims : \E amount \in Amounts, person \in DebtorsOf[c], charges, payments \in SUBSET live :
       Create(c, amount, person, charges, payments)
  \/ \E r \in Requests : Handle(r)
  \/ \E l \in links : RemoveLink(l)
  \/ \E person \in People, name \in Names : Identify(person, name)
  \/ \E row \in Rows : Unvoid(row) \/ DeleteRow(row)
  \/ \E old, new \in Rows : Merge(old, new)
  \/ SweepRead \/ SweepWrite
  \/ \E m \in DOMAIN messages : Send(m) \/ Dismiss(m)
  \/ \E m \in DOMAIN messages, c \in Claims : Tap(m, c)

Spec == Init /\ [][Next]_vars

-----------------------------------------------------------------------------
\* PROPERTIES

TypeOK ==
  /\ live \subseteq Rows /\ voided \subseteq live
  /\ claims \in [Claims -> {None} \cup [amount : Amounts, status : Statuses, person : People]]
  /\ links \subseteq Links
  /\ known \in [People -> SUBSET Names]
  /\ overtaken \subseteq Claims /\ reopened \subseteq Claims

\* The money of a payment counts once: through links, merges, deletes and taps a
\* row pays one claim at most, on the right side, while it exists and is not void.
\* A void that checked the links before another request linked the row is excepted.
PaymentCountsOnce ==
  /\ Unique(links)
  /\ \A l \in links :
       /\ l.row \in live /\ claims[l.claim] # None
       /\ Direction[l.row] = RoleDirection(l.claim, l.role)
       /\ l.role = "payment" /\ l.row \in voided => l.claim \in overtaken

\* A claim that stays open is not paid in full, unless the user opened it again,
\* or a request wrote it by what it had read before another one's commit.
OpenMeansOwed ==
  \A c \in Claims : claims[c] # None /\ claims[c].status = "open" =>
    Outstanding(c) > 0 \/ c \in reopened \cup overtaken

\* A tap links the row its message showed to a claim its message offered, and pays
\* exactly what was outstanding, whatever became of the claim, the row and the
\* prompt id since the message was written.
TapPaysWhatItShowed ==
  [][\A i \in PromptIds :
       (prompts[i] # None /\ prompts[i].status = "pending" /\ prompts'[i] # None /\ prompts'[i].status = "linked") =>
         \E m \in {prompts'[i].by} : \E c \in messages[m].candidates :
           /\ links' = links \cup {[claim |-> c, row |-> messages[m].row, role |-> "payment"]}
           /\ links' # links
           /\ claims'[c].status = "settled" /\ Paid(c, links') = claims'[c].amount]_vars
=============================================================================
