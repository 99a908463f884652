----------------------------- MODULE CardCycle -----------------------------
(* The bill of a card: which statement of an account is active, which        *)
(* payments belong to its cycle, how much of it is paid, and the reminders.  *)
(*                                                                           *)
(* An upload is [acct, kind, created, due, total, status, sent, paid]; a     *)
(* credit is [acct, day, amt, bill], where bill says it is a bill payment    *)
(* and no refund. What runs after a commit is a job, lost in a crash. The    *)
(* reminder loop reads the uploads, sends, and writes what it read.          *)
EXTENDS Integers, FiniteSetsExt, Functions

CONSTANTS
  Unset,            \* SQL NULL; also a due date that is no date
  Accounts,         \* the credit cards of one bank
  MasksOf,          \* account -> the masks it answers to
  MasksAgree,       \* pairs of masks that can be one card
  Tails,            \* the masks that show a trailing digit
  NoDigits,         \* a mask that shows nothing
  Books,            \* the uploads to start from
  Notices,          \* statements: [mask, due, total]
  CreditAmounts,    \* amounts of credits
  Offsets,          \* days before the due date at which to remind
  StaleDays,        \* days past the due date after which to stop
  MonthLength,      \* days of a month
  LastDay, MaxUploads, MaxCredits, MaxEvents     \* bounds

Open == {"unpaid", "partial", "late"}

\* A row of statement_uploads, and a cycle.
Upload == [acct : Accounts, kind : {"pdf", "summary"}, created : Nat,
           due : Nat \cup {Unset}, total : Int \cup {Unset},
           status : Open \cup {"paid", Unset}, sent : SUBSET Offsets, paid : Int]
Windows == [start : Nat, end : Nat \cup {Unset}]

ASSUME CardAssumption ==
  /\ Unset \notin Accounts /\ Unset \notin Int /\ Unset \notin Windows
  /\ Unset \notin Open \cup {"paid"}
  /\ \A book \in Books : /\ IsFiniteSet(DOMAIN book) /\ DOMAIN book \subseteq Nat
                        /\ book \in [DOMAIN book -> Upload]
  /\ \A n \in Notices : n.due \in Nat \cup {Unset} /\ n.total \in Int \cup {Unset}
  /\ CreditAmounts \subseteq Nat
  /\ IsFiniteSet(Offsets)
  /\ MonthLength \in Nat \ {0} /\ LastDay \in Nat

VARIABLES
  today,
  uploads,          \* statement_uploads by id
  credits,          \* credit transactions by id
  jobs,             \* what is to run after a commit: <<"track" | "retrack" | "check", id>>
  loop,             \* the reminder loop in progress, or Unset
  basis,            \* history: the window an upload's paid amount was summed over
  told,             \* history: reminders sent and recorded since the offsets were reset
  events            \* counter for the bound

cardVars == <<today, uploads, credits, jobs, loop, basis, told, events>>

MonthStart == today - (today % MonthLength)

CardInit ==
  /\ today = 0 /\ uploads \in Books /\ credits = <<>> /\ jobs = {} /\ loop = Unset
  /\ basis = [u \in DOMAIN uploads |-> Unset] /\ told = [u \in DOMAIN uploads |-> 0]
  /\ events = 0

-----------------------------------------------------------------------------
\* The active statement: the latest by due date, the newer upload of two.

Anchors(ups, a) == {u \in DOMAIN ups : ups[u].acct = a /\ ups[u].due # Unset}

IsActive(ups, u) ==
  /\ ups[u].due # Unset
  /\ \A v \in Anchors(ups, ups[u].acct) :
       ups[v].due < ups[u].due \/ (ups[v].due = ups[u].due /\ v <= u)

\* The cycle of a statement: from the day after the bill before it was due to
\* the day it is due itself; the last one stays open. Unset: no upper edge.
CycleWindowFromDue(ups, u) ==
  LET anchors == Anchors(ups, ups[u].acct)
      earlier == {ups[v].due : v \in {v \in anchors : ups[v].due < ups[u].due}}
      same == {v \in anchors : ups[v].due = ups[u].due}
      later == {v \in anchors : ups[v].due > ups[u].due}
  IN [start |-> IF earlier # {} THEN Max(earlier) ELSE Min({ups[v].created : v \in same}),
      end |-> IF later # {} THEN ups[u].due + 1 ELSE Unset]

CycleWindow(ups, u) ==
  LET anchors == Anchors(ups, ups[u].acct)
      earlier == {ups[v].due : v \in {v \in anchors : ups[v].due < ups[u].due}}
      same == {v \in anchors : ups[v].due = ups[u].due}
      later == {v \in anchors : ups[v].due > ups[u].due}
  IN [start |-> IF earlier # {} THEN Max(earlier) + 1 ELSE Min({ups[v].created : v \in same}),
      end |-> IF later # {} THEN ups[u].due + 1 ELSE Unset]

InWindow(day, window) == window.start <= day /\ (window.end = Unset \/ day < window.end)

\* The bill payments of a cycle. Refunds pay no bill.
QualifyingSum(ups, creds, u) ==
  LET counted == {c \in DOMAIN creds : /\ creds[c].acct = ups[u].acct /\ creds[c].bill
                                       /\ InWindow(creds[c].day, CycleWindow(ups, u))}
  IN SumFunctionOnSet([c \in DOMAIN creds |-> creds[c].amt], counted)

-----------------------------------------------------------------------------
\* What is paid, from scratch. A zero sum reads as unpaid where nothing was
\* expected yet, and as partly paid where a payment has just come or gone.

RecomputedUpwards(u, ups, creds, unpaidWhenZero) ==
  LET sum == QualifyingSum(ups, creds, u)
  IN [ups EXCEPT ![u].paid = IF sum > @ THEN sum ELSE @,
                 ![u].status = IF sum >= ups[u].total THEN "paid"
                               ELSE IF sum > 0 \/ ~unpaidWhenZero THEN "partial" ELSE "unpaid"]

Recomputed(u, ups, creds, unpaidWhenZero) ==
  LET sum == QualifyingSum(ups, creds, u)
  IN [ups EXCEPT ![u].paid = sum,
                 ![u].status = IF sum >= ups[u].total THEN "paid"
                               ELSE IF sum > 0 \/ ~unpaidWhenZero THEN "partial" ELSE "unpaid"]

Recompute(u, creds, unpaidWhenZero) ==
  /\ uploads' = Recomputed(u, uploads, creds, unpaidWhenZero)
  /\ basis' = [basis EXCEPT ![u] = CycleWindow(uploads, u)]

\* The open (or the paid) cycle of an account, at most one.
ActiveCycle(a, statuses) ==
  {u \in DOMAIN uploads : uploads[u].acct = a /\ IsActive(uploads, u) /\ uploads[u].status \in statuses}

\* A statement is tracked once: when its due date is read, no month has passed
\* since, and no newer statement stands. Nothing due is paid.
Trackable(u) ==
  /\ uploads[u].due # Unset /\ uploads[u].total # Unset /\ uploads[u].status = Unset
  /\ uploads[u].due >= MonthStart /\ IsActive(uploads, u)

InitTracking(u) ==
  IF uploads[u].total <= 0
    THEN /\ uploads' = [uploads EXCEPT ![u].status = "paid", ![u].paid = uploads[u].total]
         /\ basis' = [basis EXCEPT ![u] = Unset]
    ELSE Recompute(u, credits, TRUE)

\* A tracked statement is summed up again only while it is open, so that a
\* mark by hand survives.
Resyncable(u) ==
  uploads[u].status \in Open /\ IsActive(uploads, u) /\ uploads[u].total # Unset

Track(job) ==
  LET u == job[2] IN
  /\ job \in jobs /\ job[1] \in {"track", "retrack"}
  /\ jobs' = jobs \ {job}
  /\ IF u \in DOMAIN uploads /\ Trackable(u) THEN InitTracking(u)
     ELSE IF u \in DOMAIN uploads /\ job[1] = "retrack" /\ Resyncable(u)
       THEN Recompute(u, credits, TRUE)
     ELSE UNCHANGED <<uploads, basis>>
  /\ UNCHANGED <<today, credits, loop, told, events>>

\* What was summed up on an account no longer stands.
Unfounded(accts) == [u \in DOMAIN basis |-> IF uploads[u].acct \in accts THEN Unset ELSE basis[u]]

\* A payment has come: the open cycle of its account is summed up again, and
\* no other, even if the payment falls in it.
CheckPayment(job) ==
  LET cycle == {u \in ActiveCycle(job[2], Open) : uploads[u].total # Unset} IN
  /\ job \in jobs /\ job[1] = "check"
  /\ jobs' = jobs \ {job}
  /\ uploads' = [u \in DOMAIN uploads |->
                   IF u \in cycle THEN Recomputed(u, uploads, credits, FALSE)[u] ELSE uploads[u]]
  /\ basis' = [u \in DOMAIN basis |->
                 IF u \in cycle THEN CycleWindow(uploads, u) ELSE Unfounded({job[2]})[u]]
  /\ UNCHANGED <<today, credits, loop, told, events>>

-----------------------------------------------------------------------------
\* Statements arrive. A mail picks its account by the mask it shows; silence
\* selects none, and a tie none.

Event == events < MaxEvents /\ events' = events + 1

With(f, x, value) == [y \in DOMAIN f \cup {x} |-> IF y = x THEN value ELSE f[y]]
Without(f, x) == [y \in DOMAIN f \ {x} |-> f[y]]

NextId(f) == IF DOMAIN f = {} THEN 1 ELSE Max(DOMAIN f) + 1

Answering(mask) ==
  {a \in Accounts : \E m \in MasksOf[a] : m \in Tails /\ <<mask, m>> \in MasksAgree}

\* The account of a statement that a PDF prints, as a set of at most one.
FindAccount(mask) ==
  IF mask \in Tails /\ Cardinality(Answering(mask)) = 1 THEN Answering(mask) ELSE {}

\* A summary in a mail goes to the bank's only card unless its mask refutes it.
Refutes(mask, a) ==
  mask # NoDigits /\ MasksOf[a] # {} /\ \A m \in MasksOf[a] : <<mask, m>> \notin MasksAgree

SummaryAccount(mask) ==
  IF Cardinality(Accounts) = 1 THEN {a \in Accounts : ~Refutes(mask, a)} ELSE FindAccount(mask)

AddUpload(a, kind, due, total) ==
  LET u == NextId(uploads) IN
  /\ Event /\ Cardinality(DOMAIN uploads) < MaxUploads
  /\ uploads' = With(uploads, u, [acct |-> a, kind |-> kind, created |-> today, due |-> due,
                                  total |-> total, status |-> Unset, sent |-> {}, paid |-> 0])
  /\ basis' = With(basis, u, Unset) /\ told' = With(told, u, 0)
  /\ jobs' = jobs \cup {<<"track", u>>}
  /\ UNCHANGED <<today, credits, loop>>

\* A mail whose cycle has an upload already is ignored.
Mail(n) ==
  \E a \in FindAccount(n.mask) :
    /\ \A u \in Anchors(uploads, a) : uploads[u].due # n.due
    /\ AddUpload(a, "pdf", n.due, n.total)

\* A PDF that stays locked shows neither date nor amount. By hand, any
\* statement is stored, the same one twice as well.
Locked(a) == AddUpload(a, "pdf", Unset, Unset)
ByHand(a, n) == AddUpload(a, "pdf", n.due, n.total)

\* One row per cycle and total for summaries; a second one is tracked anew.
Summary(n) ==
  \E a \in SummaryAccount(n.mask) :
    LET same == {u \in DOMAIN uploads : /\ uploads[u].kind = "summary" /\ uploads[u].acct = a
                                        /\ uploads[u].due = n.due /\ uploads[u].total = n.total}
    IN /\ n.due # Unset
       /\ IF same = {} THEN AddUpload(a, "summary", n.due, n.total)
          ELSE /\ Event /\ jobs' = jobs \cup {<<"track", Min(same)>>}
               /\ UNCHANGED <<today, uploads, credits, loop, basis, told>>

\* A reprocess reads the PDF again; another due date or total starts the
\* tracking anew.
Reprocess(u, n) ==
  LET moved == uploads[u].due # n.due \/ uploads[u].total # n.total IN
  /\ Event /\ uploads[u].kind = "pdf"
  /\ uploads' = [uploads EXCEPT
       ![u] = IF ~moved THEN @
              ELSE [@ EXCEPT !.due = n.due, !.total = n.total, !.status = Unset, !.paid = 0, !.sent = {}]]
  /\ basis' = IF moved THEN [basis EXCEPT ![u] = Unset] ELSE basis
  /\ told' = IF moved THEN [told EXCEPT ![u] = 0] ELSE told
  /\ jobs' = jobs \cup {<<"track", u>>}
  /\ UNCHANGED <<today, credits, loop>>

\* A password unlocks the PDF; the tracking of the upload stays.
Retry(u, n) ==
  /\ Event /\ uploads[u].kind = "pdf"
  /\ uploads' = [uploads EXCEPT ![u].due = n.due, ![u].total = n.total]
  /\ jobs' = jobs \cup {<<"retrack", u>>}
  /\ UNCHANGED <<today, credits, loop, basis, told>>

DeleteUpload(u) ==
  /\ Event
  /\ uploads' = Without(uploads, u) /\ basis' = Without(basis, u) /\ told' = Without(told, u)
  /\ UNCHANGED <<today, credits, jobs, loop>>

-----------------------------------------------------------------------------
\* Payments arrive. One without a card goes to the bank's only card, to the
\* only open statement of that total, or to the only one that lacks just that
\* amount when every card has a tracked statement. Else the user is asked.

ByTotal(amt) ==
  {a \in Accounts : \E u \in ActiveCycle(a, Open) : uploads[u].total = amt}

ByOutstanding(amt) ==
  LET tracked(a) == {u \in ActiveCycle(a, Open \cup {"paid"}) : uploads[u].total # Unset}
  IN IF \E a \in Accounts : tracked(a) = {} THEN {}
     ELSE {a \in Accounts : \E u \in tracked(a) : uploads[u].total - uploads[u].paid = amt}

ResolveAccount(amt) ==
  IF Cardinality(Accounts) = 1 THEN Accounts
  ELSE IF Cardinality(ByTotal(amt)) = 1 THEN ByTotal(amt)
  ELSE IF Cardinality(ByOutstanding(amt)) = 1 THEN ByOutstanding(amt)
  ELSE {Unset}

\* The linker found the account, or the payment names no card.
Credit(linked, day, amt, bill) ==
  /\ Event /\ Cardinality(DOMAIN credits) < MaxCredits
  /\ \E a \in (IF linked # Unset \/ ~bill THEN {linked} ELSE ResolveAccount(amt)) :
       /\ credits' = With(credits, NextId(credits), [acct |-> a, day |-> day, amt |-> amt, bill |-> bill])
       /\ jobs' = IF bill /\ a # Unset THEN jobs \cup {<<"check", a>>} ELSE jobs
  /\ UNCHANGED <<today, uploads, loop, basis, told>>

\* The user picks the card of a payment: the button may be pressed again.
PickAccount(c, a) ==
  /\ Event /\ credits[c].bill
  /\ credits' = [credits EXCEPT ![c].acct = a]
  /\ jobs' = jobs \cup {<<"check", a>>}
  /\ basis' = IF credits[c].acct \notin {Unset, a} THEN Unfounded({credits[c].acct}) ELSE basis
  /\ UNCHANGED <<today, uploads, loop, told>>

\* A relink checks only a credit that had no account.
Relink(c, a) ==
  /\ Event /\ credits[c].acct # a
  /\ credits' = [credits EXCEPT ![c].acct = a]
  /\ jobs' = IF credits[c].acct = Unset /\ credits[c].bill THEN jobs \cup {<<"check", a>>} ELSE jobs
  /\ basis' = IF credits[c].acct = Unset THEN basis ELSE Unfounded({a, credits[c].acct})
  /\ UNCHANGED <<today, uploads, loop, told>>

\* What a payment that goes leaves founded: the bill that would be summed up.
AfterMerge(a) ==
  [u \in DOMAIN basis |->
     IF uploads[u].acct = a /\ ~ (/\ IsActive(uploads, u) /\ uploads[u].total # Unset
                                 /\ basis[u] = CycleWindow(uploads, u))
       THEN Unset ELSE basis[u]]

\* Two rows of one payment become one, unless that would reopen a paid cycle.
MergeCredits(keep, dup) ==
  LET a == credits[dup].acct
      cycle == {u \in ActiveCycle(a, Open \cup {"paid"}) :
                  InWindow(credits[dup].day, CycleWindow(uploads, u))}
  IN /\ Event /\ keep # dup /\ a # Unset
     /\ credits[keep].acct = a /\ credits[keep].amt = credits[dup].amt
     /\ credits[keep].day - credits[dup].day \in -1..1
     /\ credits[dup].bill => credits[keep].bill
     /\ credits[dup].bill => \A u \in cycle : uploads[u].status # "paid"
     /\ credits' = Without(credits, dup)
     /\ IF credits[dup].bill /\ \E u \in cycle : Resyncable(u)
          THEN \E u \in cycle : /\ uploads' = Recomputed(u, uploads, credits', TRUE)
                                 /\ basis' = [AfterMerge(a) EXCEPT ![u] = CycleWindow(uploads, u)]
          ELSE /\ uploads' = uploads
               /\ basis' = IF credits[dup].bill THEN AfterMerge(a) ELSE basis
     /\ UNCHANGED <<today, jobs, loop, told>>

-----------------------------------------------------------------------------
\* The user marks the active statement.

MarkPaid(u) ==
  /\ Event /\ IsActive(uploads, u) /\ uploads[u].status # "paid"
  /\ uploads' = [uploads EXCEPT ![u].status = "paid",
                                ![u].paid = IF uploads[u].total = Unset THEN @ ELSE uploads[u].total]
  /\ basis' = [basis EXCEPT ![u] = Unset]
  /\ UNCHANGED <<today, credits, jobs, loop, told>>

MarkUnpaid(u) ==
  /\ Event /\ IsActive(uploads, u) /\ uploads[u].status # Unset
  /\ uploads' = [uploads EXCEPT ![u].status = IF @ = "partial" THEN @ ELSE "unpaid",
                                ![u].paid = IF uploads[u].status = "partial" THEN @ ELSE 0,
                                ![u].sent = {}]
  /\ basis' = [basis EXCEPT ![u] = Unset] /\ told' = [told EXCEPT ![u] = 0]
  /\ UNCHANGED <<today, credits, jobs, loop>>

-----------------------------------------------------------------------------
\* The reminder loop. It works on what it read, awaits the sends, and writes
\* the fields it changed; a row gone by then fails the whole write.

LoopRead ==
  LET open == {u \in DOMAIN uploads : IsActive(uploads, u) /\ uploads[u].status \in Open} IN
  /\ loop = Unset /\ open # {}
  /\ loop' = [today |-> today, todo |-> open,
              was |-> [u \in open |-> uploads[u]], now |-> [u \in open |-> uploads[u]],
              told |-> [u \in open |-> 0]]
  /\ UNCHANGED <<today, uploads, credits, jobs, basis, told, events>>

\* What the loop makes of a statement: past due it is late; of the offsets
\* whose day has come one reminder goes out; an overdue bill needs no advance.
JudgedDaily(row, day) ==
  LET due == {o \in Offsets : day >= row.due - o}
  IN [row |-> [row EXCEPT !.sent = @ \cup due], send |-> due # {}]

Judged(row, day) ==
  LET late == row.status \in {"unpaid", "partial"} /\ day > row.due
      status == IF late THEN "late" ELSE row.status
      stale == day - row.due > StaleDays \/ row.total = Unset
      passed == {o \in Offsets : status = "late" /\ o > 0}
      due == {o \in Offsets \ passed : day >= row.due - o}
  IN IF stale THEN [row |-> [row EXCEPT !.status = status], send |-> FALSE]
     ELSE IF row.total <= 0 THEN [row |-> [row EXCEPT !.status = "paid"], send |-> FALSE]
     ELSE [row |-> [row EXCEPT !.status = status, !.sent = @ \cup passed \cup due],
           send |-> due \ row.sent # {}]

Remind ==
  /\ loop # Unset /\ loop.todo # {}
  /\ LET u == Min(loop.todo)
         judged == Judged(loop.now[u], loop.today)
     IN loop' = [loop EXCEPT !.todo = @ \ {u}, !.now[u] = judged.row,
                             !.told[u] = IF judged.send THEN 1 ELSE 0]
  /\ UNCHANGED <<today, uploads, credits, jobs, basis, told, events>>

LoopCommit ==
  LET dirty == {u \in DOMAIN loop.now : loop.now[u] # loop.was[u]}
      write(u) == [uploads[u] EXCEPT
        !.status = IF loop.now[u].status = loop.was[u].status THEN @ ELSE loop.now[u].status,
        !.sent = IF loop.now[u].sent = loop.was[u].sent THEN @ ELSE loop.now[u].sent]
      over(u) == u \in dirty /\ write(u).status # uploads[u].status /\ uploads[u].status # loop.was[u].status
      recorded == dirty \subseteq DOMAIN uploads
      wrote(u) == recorded /\ u \in dirty
  IN /\ loop # Unset /\ loop.todo = {}
     /\ uploads' = [u \in DOMAIN uploads |-> IF wrote(u) THEN write(u) ELSE uploads[u]]
     /\ basis' = [u \in DOMAIN basis |-> IF wrote(u) /\ over(u) THEN Unset ELSE basis[u]]
     /\ told' = [u \in DOMAIN told |-> IF recorded /\ u \in DOMAIN loop.now THEN told[u] + loop.told[u] ELSE told[u]]
     /\ loop' = Unset
     /\ UNCHANGED <<today, credits, jobs, events>>

-----------------------------------------------------------------------------
NextDay ==
  /\ today < LastDay /\ today' = today + 1
  /\ UNCHANGED <<uploads, credits, jobs, loop, basis, told, events>>

\* A crash forgets the jobs and the loop; nothing takes them up again.
Crash ==
  /\ Event
  /\ jobs' = {} /\ loop' = Unset
  /\ basis' = Unfounded({job[2] : job \in {j \in jobs : j[1] = "check"}})
  /\ UNCHANGED <<today, uploads, credits, told>>

CardNext ==
  \/ NextDay \/ Crash
  \/ \E job \in jobs : Track(job) \/ CheckPayment(job)
  \/ \E n \in Notices : Mail(n) \/ Summary(n) \/ \E a \in Accounts : ByHand(a, n)
  \/ \E a \in Accounts : Locked(a)
  \/ \E u \in DOMAIN uploads : \/ MarkPaid(u) \/ MarkUnpaid(u) \/ DeleteUpload(u)
                               \/ \E n \in Notices : Reprocess(u, n) \/ Retry(u, n)
  \/ \E a \in Accounts \cup {Unset}, day \in 0..today, amt \in CreditAmounts, bill \in BOOLEAN :
       Credit(a, day, amt, bill)
  \/ \E c \in DOMAIN credits, a \in Accounts : PickAccount(c, a) \/ Relink(c, a)
  \/ \E c, d \in DOMAIN credits : MergeCredits(c, d)
  \/ LoopRead \/ Remind \/ LoopCommit

CardSpec == CardInit /\ [][CardNext]_cardVars

-----------------------------------------------------------------------------
\* PROPERTIES

\* From the first cycle of an account on, every day lies in exactly one cycle:
\* no payment pays two bills, and none falls between two.
CyclesPartition ==
  \A a \in Accounts :
    LET anchors == Anchors(uploads, a)
        holding(day) == {uploads[u].due : u \in {u \in anchors : InWindow(day, CycleWindow(uploads, u))}}
    IN \A day \in 0..LastDay + 1 :
         (\E u \in anchors : CycleWindow(uploads, u).start <= day) => Cardinality(holding(day)) = 1

\* The paid amount of the bill that is open counts every payment of its cycle,
\* unless a hand or a move the code never sums up again has touched it.
OpenAmountCounted ==
  \A u \in DOMAIN uploads :
    /\ IsActive(uploads, u) /\ uploads[u].status \in Open
    /\ basis[u] = CycleWindow(uploads, u)
    /\ <<"check", uploads[u].acct>> \notin jobs
    => uploads[u].paid = QualifyingSum(uploads, credits, u)

\* Each offset reminds at most once, unless the write that records it is lost.
RemindedOnce ==
  \A u \in DOMAIN uploads : told[u] <= Cardinality(Offsets)
=============================================================================
