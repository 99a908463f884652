----------------------------- MODULE EmailPoll -----------------------------
(* The poll of a mail account: rules search it, by day, from a cursor that a *)
(* successful poll moves; new mails are fetched up to a limit, handled one   *)
(* by one, and recorded, so that they are not fetched again.                 *)
(*                                                                           *)
(* Mails and rules are numbers, in the order of arrival and of their ids. A  *)
(* poll is [rules, synced, day, queue, ok, ready, seen]: what it read at its *)
(* start, the mails it still has to handle, and what it will stamp.          *)
EXTENDS Integers, SequencesExt

CONSTANTS
  None,             \* no cursor, no poll
  Providers,        \* "gmail", "fastmail"
  Limit,            \* provider -> mails to fetch per rule and poll
  MaxMails, MaxRules,
  RulesOf,          \* mail -> the rules whose filters it matches
  History,          \* mails in the account from the start -> their days
  Margin,           \* days a search goes back behind the cursor
  Backfill,         \* days the first search of a rule goes back
  Delay,            \* days a mail may be older than its arrival
  LastDay, MaxFaults, MaxToggles      \* bounds

Mails == 1..MaxMails
Rules == 1..MaxRules

\* The mails are those that some rule matches.
ASSUME PollAssumption ==
  /\ None \notin Int
  /\ MaxMails \in Nat /\ MaxRules \in Nat
  /\ \A p \in Providers : Limit[p] \in Nat
  /\ RulesOf \in [Mails -> (SUBSET Rules) \ {{}}]
  /\ DOMAIN History \subseteq Mails
  /\ \A m \in DOMAIN History : History[m] \in Int
  /\ Margin \in Nat /\ Backfill \in Nat /\ Delay \in 0..Margin

VARIABLES
  provider,
  today,
  box,              \* the mails in the account -> their days
  on,               \* the enabled rules
  backfilled,       \* the rules with initial_backfill_done_at
  synced,           \* last_synced_at of the source
  stored,           \* the mails with a row
  poll,             \* the poll in progress, or None
  late,             \* history: mails a poll left, past the margin, that it saw or
                    \* that were too old for the first search of a rule by then
  faults, toggles   \* counters for the bounds

vars == <<provider, today, box, on, backfilled, synced, stored, poll, late, faults, toggles>>

Init ==
  /\ provider \in Providers
  /\ today = 0 /\ box = History
  /\ on \in {Rules, {}} /\ backfilled = {} /\ synced = None
  /\ stored = {} /\ poll = None
  /\ late = {} /\ faults = 0 /\ toggles = 0

-----------------------------------------------------------------------------
\* The search. A rule whose backfill is not done goes far back.

SinceCursor(cursor) == IF cursor = None THEN today - Backfill ELSE cursor
Since(cursor) == IF cursor = None THEN today - Backfill ELSE cursor - Margin

Found(r) ==
  LET from == IF r \in poll.rules.done THEN Since(poll.synced) ELSE today - Backfill
  IN {m \in DOMAIN box : r \in RulesOf[m] /\ box[m] >= from}

\* The mails in the order of their numbers, and some of them.
ByArrival == [m \in Mails |-> m]
Latest == Reverse(ByArrival)

Only(mails, order) ==
  LET upTo[k \in 0..Len(order)] ==
        IF k = 0 THEN <<>>
        ELSE IF order[k] \in mails THEN Append(upTo[k - 1], order[k]) ELSE upTo[k - 1]
  IN upTo[Len(order)]

First(n, queue) == SubSeq(queue, 1, IF Len(queue) < n THEN Len(queue) ELSE n)

\* The mails of each rule, rule by rule; one that two rules found is handled for
\* the first of them.
NoneOfThem(results, r) == {}
OfEarlierRules(results, r) == UNION {results[earlier] : earlier \in {q \in Rules : q < r}}

InRuleOrder(results, order) ==
  LET upTo[r \in 0..MaxRules] ==
        IF r = 0 THEN <<>>
        ELSE upTo[r - 1] \o Only(results[r] \ OfEarlierRules(results, r), order)
  IN upTo[MaxRules]

\* What a fetch brings: the mails per rule, their order, and the rules whose
\* backfill is done. Gmail: the oldest new mails of all rules, up to the limit times
\* the rules; a rule is done when it found nothing, or got something, or all was known.
GmailSearch(searched) == [r \in Rules |-> IF r \in searched THEN Found(r) ELSE {}]

GmailNew(found) == InRuleOrder([r \in Rules |-> found[r] \ stored], ByArrival)

GmailFetch(searched, unread) ==
  LET found == GmailSearch(searched)
      new == GmailNew(found)
      bodies == Range(First(Limit[provider] * Cardinality(poll.rules.on), new)) \ unread
  IN [results |-> [r \in Rules |-> found[r] \cap bodies], order |-> ByArrival,
      ready |-> {r \in searched : found[r] = {} \/ new = <<>> \/ found[r] \cap bodies # {}}]

\* Fastmail: the latest mails of each rule, known or not, up to the limit; a rule
\* is done when it got something or the latest mails are none.
FastmailLatest(searched) ==
  [r \in Rules |-> IF r \notin searched THEN {}
     ELSE Range(First(Limit[provider], Only(Found(r), Latest)))]

FastmailFetch(searched) ==
  LET last == FastmailLatest(searched)
  IN [results |-> [r \in Rules |-> last[r] \ stored], order |-> Latest,
      ready |-> {r \in poll.rules.on : last[r] = {} \/ last[r] \ stored # {}}]

FetchSource(searched, unread) ==
  IF provider = "gmail" THEN GmailFetch(searched, unread) ELSE FastmailFetch(searched)

-----------------------------------------------------------------------------
\* The poll. It reads rules and cursor, then the known mails and the account.

Start ==
  /\ poll = None /\ on # {}
  /\ poll' = [rules |-> [on |-> on, done |-> backfilled], synced |-> synced, day |-> today,
              queue |-> None, ok |-> FALSE, ready |-> {}, seen |-> {}]
  /\ UNCHANGED <<provider, today, box, on, backfilled, synced, stored, late, faults, toggles>>

Fetch(searched, unread, kept) ==
  \E fetch \in {FetchSource(searched, unread)} :
  \E queue \in {InRuleOrder(fetch.results, fetch.order)} :
     poll' = [poll EXCEPT
       !.queue = IF kept = None THEN queue ELSE First(kept, queue),
       !.ok = kept = None,
       !.ready = IF kept = None THEN fetch.ready ELSE {},
       !.seen = {m \in DOMAIN box : \/ RulesOf[m] \cap poll.rules.on = {}
                                    \/ \E r \in poll.rules.on : m \in Found(r)
                                    \/ box[m] < today - Backfill}]

FetchAll ==
  /\ poll # None /\ poll.queue = None
  /\ Fetch(poll.rules.on, {}, None)
  /\ UNCHANGED <<provider, today, box, on, backfilled, synced, stored, late, faults, toggles>>

\* Trouble: a rule cannot be searched, a body cannot be read (which ends a fetch
\* from Fastmail), or the connection drops, leaving what came before.
FetchSome ==
  /\ poll # None /\ poll.queue = None
  /\ faults < MaxFaults /\ faults' = faults + 1
  /\ \/ \E searched \in (SUBSET poll.rules.on) \ {poll.rules.on} : Fetch(searched, {}, None)
     \/ provider = "gmail" /\ \E unread \in SUBSET DOMAIN box : Fetch(poll.rules.on, unread, None)
     \/ \E kept \in 0..MaxMails : Fetch(poll.rules.on, {}, kept)
  /\ UNCHANGED <<provider, today, box, on, backfilled, synced, stored, late, toggles>>

\* Each mail in a transaction of its own. A statement's import commits before
\* the mail's row does; it finds its own traces when the mail comes again.
Handle ==
  /\ poll # None /\ poll.queue \notin {None, <<>>}
  /\ stored' = stored \cup {Head(poll.queue)}
  /\ poll' = [poll EXCEPT !.queue = Tail(@)]
  /\ UNCHANGED <<provider, today, box, on, backfilled, synced, late, faults, toggles>>

\* The stamps, only after a fetch that did not fail.
FinishAnyway ==
  /\ poll # None /\ poll.queue = <<>>
  /\ backfilled' = backfilled \cup poll.ready
  /\ synced' = today
  /\ late' = IF poll.ok THEN late \cup {m \in poll.seen \ stored : box[m] < today - Margin} ELSE late
  /\ poll' = None
  /\ UNCHANGED <<provider, today, box, on, stored, faults, toggles>>

Finish ==
  /\ poll # None /\ poll.queue = <<>>
  /\ IF poll.ok
       THEN /\ backfilled' = backfilled \cup poll.ready
            /\ synced' = today
            /\ late' = late \cup {m \in poll.seen \ stored : box[m] < today - Margin}
       ELSE UNCHANGED <<backfilled, synced, late>>
  /\ poll' = None
  /\ UNCHANGED <<provider, today, box, on, stored, faults, toggles>>

\* The process dies, or a mail raises: the poll ends without a stamp.
Abort ==
  /\ poll # None /\ faults < MaxFaults /\ faults' = faults + 1
  /\ poll' = None
  /\ UNCHANGED <<provider, today, box, on, backfilled, synced, stored, late, toggles>>

-----------------------------------------------------------------------------
\* Around it. A mail may be older than its arrival, and a poll may last into the
\* next day, together no longer than the margin.

Arrive(m, day) ==
  /\ \A other \in Mails \ DOMAIN box : m <= other
  /\ m \notin DOMAIN box
  /\ box' = [n \in DOMAIN box \cup {m} |-> IF n = m THEN day ELSE box[n]]
  /\ UNCHANGED <<provider, today, on, backfilled, synced, stored, poll, late, faults, toggles>>

NextDay ==
  /\ today < LastDay
  /\ poll # None => today - poll.day < Margin - Delay
  /\ today' = today + 1
  /\ UNCHANGED <<provider, box, on, backfilled, synced, stored, poll, late, faults, toggles>>

\* The user adds, disables and enables rules.
Toggle(r) ==
  /\ toggles < MaxToggles /\ toggles' = toggles + 1
  /\ on' = IF r \in on THEN on \ {r} ELSE on \cup {r}
  /\ UNCHANGED <<provider, today, box, backfilled, synced, stored, poll, late, faults>>

PollStep == Start \/ FetchAll \/ Handle \/ Finish

Next ==
  \/ PollStep \/ FetchSome \/ Abort \/ NextDay
  \/ \E m \in Mails, day \in today - Delay..today : Arrive(m, day)
  \/ \E r \in Rules : Toggle(r)

Spec == Init /\ [][Next]_vars

\* The loop polls again whatever became of the last poll, and trouble ends.
FairSpec == Spec /\ WF_vars(PollStep)

-----------------------------------------------------------------------------
\* PROPERTIES

\* A mail is out of the next poll's reach only when it was recorded, or when a
\* poll saw it and left it (for the limit, an error, a disabled rule) when it was
\* already older than the margin, or left it when even a rule's first search
\* would not go back to it. No crash, failed fetch, late arrival or long
\* silence moves the cursor past a mail that no poll has seen.
InReach ==
  \A m \in DOMAIN box \ (stored \cup late) :
    box[m] >= Since(synced) \/ \E r \in RulesOf[m] : r \notin backfilled

\* No mail waits to be handled a second time, in one poll or in a later one.
NoMailTwice ==
  poll # None /\ poll.queue # None =>
    IsInjective(poll.queue) /\ Range(poll.queue) \cap stored = {}

\* Every mail that a rule wants is recorded in the end, unless a poll left it
\* behind as above or the rule is disabled.
EveryMailStored ==
  \A m \in Mails :
    m \in DOMAIN box ~> m \in stored \cup late \/ RulesOf[m] \cap on = {}

\* A rule's first search is repeated until nothing it found was dropped.
BackfillRetried ==
  [][\A r \in backfilled' \ backfilled :
       \A m \in Found(r) : m \in stored]_vars
=============================================================================
