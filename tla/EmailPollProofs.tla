-------------------------- MODULE EmailPollProofs --------------------------
(* No poll moves the cursor past a mail that it did not see, and none handles *)
(* a mail twice, for any account, rules, limits and faults.                   *)
EXTENDS EmailPoll, WellFoundedInduction, FiniteSetTheorems, SequenceTheorems, TLAPS

\* A poll has these fields. What it read at its start still holds at its end; and
\* a mail that it did not see, if it can be stamped, came while it ran, or keeps
\* a rule whose first search is still to come.
IsPoll(p) ==
  p = [rules |-> p.rules, synced |-> p.synced, day |-> p.day, queue |-> p.queue,
       ok |-> p.ok, ready |-> p.ready, seen |-> p.seen]

Waiting == DOMAIN box \ (stored \cup late)

PollOK ==
  poll # None =>
    /\ IsPoll(poll)
    /\ poll.synced = synced /\ poll.rules.done = backfilled
    /\ poll.day \in Nat /\ poll.day <= today /\ today - poll.day <= Margin - Delay
    /\ poll.ok =>
         \A m \in Waiting \ poll.seen :
           \/ box[m] >= poll.day - Delay
           \/ \E r \in RulesOf[m] : r \notin backfilled \cup poll.ready

\* The cursor and the stamps of the rules come together.
CursorOK ==
  /\ today \in Nat
  /\ DOMAIN box \subseteq Mails /\ \A m \in DOMAIN box : box[m] \in Int
  /\ IF synced = None THEN backfilled = {} ELSE synced \in Nat /\ synced <= today

\* Inductive.
ReachInv == CursorOK /\ PollOK /\ InReach

-----------------------------------------------------------------------------
LEMMA InitReach == Init => ReachInv
<1> SUFFICES ASSUME Init PROVE ReachInv
  OBVIOUS
<1>1. CursorOK /\ PollOK
  BY PollAssumption DEF Init, CursorOK, PollOK
<1>2. InReach
  BY PollAssumption DEF Init, InReach
<1> QED
  BY <1>1, <1>2 DEF ReachInv

\* A fetch is ready only for rules that were on, and cannot miss a mail within
\* reach of one of them.
LEMMA FetchedOfRules ==
  ASSUME NEW searched \in SUBSET poll.rules.on, NEW unread
  PROVE  FetchSource(searched, unread).ready \subseteq poll.rules.on
BY DEF FetchSource, GmailFetch, FastmailFetch

LEMMA UnseenIsOfAnother ==
  ASSUME ReachInv, poll # None, NEW m \in Waiting,
         RulesOf[m] \cap poll.rules.on # {},
         \A r \in poll.rules.on : m \notin Found(r),
         box[m] >= today - Backfill
  PROVE  \E r \in RulesOf[m] : r \notin backfilled \cup poll.rules.on
<1>1. PICK q \in RulesOf[m] : q \in poll.rules.on
  OBVIOUS
<1>2. /\ m \in DOMAIN box
      /\ m \notin stored \cup late
      /\ poll.synced = synced
      /\ poll.rules.done = backfilled
  BY DEF ReachInv, PollOK, Waiting
<1>3. \A r \in RulesOf[m] \cap poll.rules.on : r \in backfilled /\ ~ (box[m] >= Since(synced))
  BY <1>2 DEF Found
<1>4. \E r \in RulesOf[m] : r \notin backfilled
  BY <1>1, <1>2, <1>3 DEF ReachInv, InReach
<1> QED
  BY <1>3, <1>4

LEMMA FetchReach ==
  ASSUME ReachInv, poll # None, NEW searched \in SUBSET poll.rules.on, NEW unread,
         NEW kept, Fetch(searched, unread, kept),
         UNCHANGED <<today, box, backfilled, synced, stored, late>>
  PROVE  ReachInv'
<1> DEFINE fetch == FetchSource(searched, unread)
           seen == {m \in DOMAIN box : \/ RulesOf[m] \cap poll.rules.on = {}
                                       \/ \E r \in poll.rules.on : m \in Found(r)
                                       \/ box[m] < today - Backfill}
<1>1. PICK queue :
        poll' = [poll EXCEPT !.queue = queue, !.ok = kept = None,
                             !.ready = IF kept = None THEN fetch.ready ELSE {},
                             !.seen = seen]
  BY DEF Fetch
<1>2. fetch.ready \subseteq poll.rules.on
  BY FetchedOfRules
<1>3. ASSUME NEW m \in Waiting \ seen
      PROVE  \E r \in RulesOf[m] : r \notin backfilled \cup poll.rules.on
  <2>1. m \in DOMAIN box /\ box[m] \in Int /\ today - Backfill \in Int
    BY PollAssumption DEF Waiting, ReachInv, CursorOK
  <2>2. /\ RulesOf[m] \cap poll.rules.on # {}
        /\ \A r \in poll.rules.on : m \notin Found(r)
        /\ box[m] >= today - Backfill
    BY <2>1
  <2> QED
    BY <2>2, UnseenIsOfAnother
<1> HIDE DEF fetch, seen
<1>4. /\ IsPoll(poll')
      /\ poll'.synced = poll.synced /\ poll'.rules = poll.rules /\ poll'.day = poll.day
      /\ poll'.seen = seen
      /\ poll'.ready \subseteq poll.rules.on
  BY <1>1, <1>2 DEF ReachInv, PollOK, IsPoll
<1>5. CursorOK' /\ InReach'
  BY DEF ReachInv, CursorOK, InReach, Since
<1>6. PollOK'
  BY <1>3, <1>4 DEF ReachInv, PollOK, Waiting
<1> QED
  BY <1>5, <1>6 DEF ReachInv

LEMMA StartReach ==
  ASSUME ReachInv, Start
  PROVE  ReachInv'
<1> DEFINE p == [rules |-> [on |-> on, done |-> backfilled], synced |-> synced, day |-> today,
                 queue |-> None, ok |-> FALSE, ready |-> {}, seen |-> {}]
<1>1. poll' = p /\ IsPoll(p)
  BY DEF Start, IsPoll
<1>2. CursorOK' /\ InReach'
  BY DEF Start, ReachInv, CursorOK, InReach, Since
<1>3. PollOK'
  BY <1>1, PollAssumption DEF Start, ReachInv, CursorOK, PollOK
<1> QED
  BY <1>2, <1>3 DEF ReachInv

LEMMA HandleReach ==
  ASSUME ReachInv, Handle
  PROVE  ReachInv'
<1>1. /\ poll # None /\ IsPoll(poll)
      /\ Waiting' \subseteq Waiting
  BY DEF Handle, ReachInv, PollOK, Waiting
<1>2. poll' = [poll EXCEPT !.queue = Tail(poll.queue)]
  BY DEF Handle
<1>3. /\ IsPoll(poll')
      /\ poll'.synced = poll.synced /\ poll'.rules = poll.rules /\ poll'.day = poll.day
      /\ poll'.ok = poll.ok /\ poll'.ready = poll.ready /\ poll'.seen = poll.seen
  BY <1>1, <1>2 DEF IsPoll
<1>4. CursorOK' /\ InReach'
  BY DEF Handle, ReachInv, CursorOK, InReach, Since
<1>5. PollOK'
  BY <1>1, <1>3 DEF Handle, ReachInv, PollOK
<1> QED
  BY <1>4, <1>5 DEF ReachInv

\* The cursor moves to today. A mail that waits then is not past the margin: the
\* poll saw it, or it came since the poll began.
LEMMA FinishReach ==
  ASSUME ReachInv, Finish
  PROVE  ReachInv'
<1>1. poll # None /\ poll' = None /\ today \in Nat /\ None \notin Int
  BY PollAssumption DEF Finish, ReachInv, CursorOK
<1>2. PollOK'
  BY <1>1 DEF PollOK
<1>3. CASE poll.ok
  <2>1. /\ synced' = today /\ today' = today /\ box' = box /\ stored' = stored
        /\ backfilled' = backfilled \cup poll.ready
        /\ late' = late \cup {m \in poll.seen \ stored : box[m] < today - Margin}
    BY <1>3 DEF Finish
  <2>2. synced' # None /\ CursorOK'
    BY <1>1, <2>1 DEF ReachInv, CursorOK
  <2>3. ASSUME NEW m \in DOMAIN box \ (stored \cup late')
        PROVE  box[m] >= today - Margin \/ \E r \in RulesOf[m] : r \notin backfilled'
    <3>1. m \in Waiting /\ box[m] \in Int /\ today - Margin \in Int
      BY <2>1, <2>3, PollAssumption DEF Waiting, ReachInv, CursorOK
    <3>2. CASE m \in poll.seen
      BY <2>1, <2>3, <3>1, <3>2
    <3>3. CASE m \notin poll.seen
      <4>1. \/ box[m] >= poll.day - Delay
            \/ \E r \in RulesOf[m] : r \notin backfilled \cup poll.ready
        BY <1>1, <1>3, <3>1, <3>3 DEF ReachInv, PollOK
      <4>2. poll.day - Delay >= today - Margin
        BY <1>1, PollAssumption DEF ReachInv, PollOK
      <4> QED
        BY <1>1, <2>1, <3>1, <4>1, <4>2, PollAssumption DEF ReachInv, PollOK
    <3> QED
      BY <3>2, <3>3
  <2>4. InReach'
    BY <2>1, <2>2, <2>3 DEF InReach, Since
  <2> QED
    BY <1>2, <2>2, <2>4 DEF ReachInv
<1>4. CASE ~ poll.ok
  <2>1. UNCHANGED <<today, box, stored, synced, backfilled, late>>
    BY <1>4 DEF Finish
  <2> QED
    BY <1>2, <2>1 DEF ReachInv, CursorOK, InReach, Since
<1> QED
  BY <1>3, <1>4

\* A mail comes with a day that every poll to come will look at.
LEMMA ArriveReach ==
  ASSUME ReachInv, NEW m \in Mails, NEW day \in today - Delay .. today, Arrive(m, day)
  PROVE  ReachInv'
<1>1. /\ DOMAIN box' = DOMAIN box \cup {m}
      /\ box'[m] = day
      /\ \A n \in DOMAIN box : box'[n] = box[n]
      /\ UNCHANGED <<today, backfilled, synced, stored, poll, late>>
  BY DEF Arrive
<1>2. today \in Nat /\ day \in Int /\ day >= today - Delay
  BY PollAssumption DEF ReachInv, CursorOK
<1>3. CursorOK'
  BY <1>1, <1>2 DEF ReachInv, CursorOK
<1>4. InReach'
  <2>1. day >= Since(synced) \/ \E r \in RulesOf[m] : r \notin backfilled
    <3>1. CASE synced = None
      BY <3>1, PollAssumption DEF ReachInv, CursorOK
    <3>2. CASE synced # None
      BY <1>2, <3>2, PollAssumption DEF ReachInv, CursorOK, Since
    <3> QED
      BY <3>1, <3>2
  <2> QED
    BY <1>1, <2>1 DEF ReachInv, InReach, Since
<1>5. PollOK'
  <2> SUFFICES ASSUME poll # None PROVE PollOK'
    BY <1>1 DEF PollOK
  <2>1. day >= poll.day - Delay
    BY <1>2, PollAssumption DEF ReachInv, PollOK
  <2>2. \A n \in Waiting' : (n \in Waiting /\ box'[n] = box[n]) \/ box'[n] >= poll.day - Delay
    BY <1>1, <2>1 DEF Waiting
  <2> QED
    BY <1>1, <2>2 DEF ReachInv, PollOK
<1> QED
  BY <1>3, <1>4, <1>5 DEF ReachInv

LEMMA ReachInductive == ReachInv /\ [Next]_vars => ReachInv'
<1> SUFFICES ASSUME ReachInv, [Next]_vars PROVE ReachInv'
  OBVIOUS
<1>1. CASE Start \/ Handle \/ Finish
  BY <1>1, StartReach, HandleReach, FinishReach
<1>2. CASE FetchAll \/ FetchSome
  <2>1. PICK searched, unread, kept : searched \in SUBSET poll.rules.on /\ Fetch(searched, unread, kept)
    BY <1>2 DEF FetchAll, FetchSome
  <2> QED
    BY <1>2, <2>1, FetchReach DEF FetchAll, FetchSome
<1>3. CASE Abort
  BY <1>3 DEF Abort, ReachInv, CursorOK, PollOK, InReach, Since
<1>4. CASE NextDay
  <2>1. today \in Nat /\ today' = today + 1
    BY <1>4 DEF NextDay, ReachInv, CursorOK
  <2>2. CursorOK' /\ PollOK'
    BY <1>4, <2>1, PollAssumption DEF NextDay, ReachInv, CursorOK, PollOK, Waiting
  <2>3. InReach'
    <3>1. CASE synced = None
      BY <1>4, <3>1, PollAssumption DEF NextDay, ReachInv, CursorOK, InReach
    <3>2. CASE synced # None
      BY <1>4, <3>2 DEF NextDay, ReachInv, InReach, Since
    <3> QED
      BY <3>1, <3>2
  <2> QED
    BY <2>2, <2>3 DEF ReachInv
<1>5. ASSUME NEW m \in Mails, NEW day \in today - Delay .. today, Arrive(m, day)
      PROVE  ReachInv'
  BY <1>5, ArriveReach
<1>6. ASSUME NEW r \in Rules, Toggle(r) PROVE ReachInv'
  BY <1>6 DEF Toggle, ReachInv, CursorOK, PollOK, InReach, Since, Waiting
<1>7. CASE UNCHANGED vars
  BY <1>7 DEF vars, ReachInv, CursorOK, PollOK, InReach, Since, Waiting
<1> QED
  BY <1>1, <1>2, <1>3, <1>4, <1>5, <1>6, <1>7 DEF Next, PollStep

\* For every account, any rules, limits, margins and windows, with failing
\* searches, crashes and silences of any length: a mail that waits is in reach.
THEOREM NothingPassedBy == Spec => []InReach
<1>1. ReachInv => InReach
  BY DEF ReachInv
<1> QED
  BY <1>1, InitReach, ReachInductive, PTL DEF Spec

-----------------------------------------------------------------------------
(* Sequences built by recursion. What a recursive definition yields is shown *)
(* by induction on numbers: a set with 0 and with every successor is Nat.    *)

\* A set that holds 0 and the successor of each of its members holds every number.
LEMMA Numbers ==
  ASSUME NEW S, S \subseteq Nat, 0 \in S, \A n \in S : n + 1 \in S
  PROVE  S = Nat
<1> DEFINE R == OpToRel(<, Nat)
<1>1. IsWellFoundedOn(R, Nat) /\ \A x, y \in Nat : y < x => <<y, x>> \in R
  BY NatLessThanWellFounded DEF OpToRel
<1> HIDE DEF R
<1>2. SUFFICES ASSUME Nat \ S # {} PROVE FALSE
  OBVIOUS
<1>3. PICK x \in Nat \ S : \A y \in Nat \ S : ~ (<<y, x>> \in R)
  BY <1>1, <1>2, WFMin
<1>4. x # 0
  BY <1>3
<1>5. x - 1 \in Nat /\ x - 1 < x /\ (x - 1) + 1 = x
  BY <1>4
<1>6. x - 1 \in S
  BY <1>1, <1>3, <1>5
<1>7. (x - 1) + 1 \in S
  BY <1>6
<1> QED
  BY <1>3, <1>5, <1>7

-----------------------------------------------------------------------------
\* The recursions of the two operators that make a queue.

IsOnly(f, mails, order, n) ==
  f = [k \in 0..n |-> IF k = 0 THEN <<>>
                      ELSE IF order[k] \in mails THEN Append(f[k - 1], order[k]) ELSE f[k - 1]]

LEMMA OnlyByRecursion ==
  ASSUME NEW mails, NEW order
  PROVE  Only(mails, order) = (CHOOSE f : IsOnly(f, mails, order, Len(order)))[Len(order)]
BY DEF Only, IsOnly

LEMMA OnlyExists ==
  ASSUME NEW mails, NEW order
  PROVE  \A n \in Nat : \E f : IsOnly(f, mails, order, n)
<1> DEFINE S == {n \in Nat : \E f : IsOnly(f, mails, order, n)}
<1>1. 0 \in S
  <2> DEFINE f == [k \in 0..0 |-> <<>>]
  <2>1. IsOnly(f, mails, order, 0)
    BY DEF IsOnly
  <2> QED
    BY <2>1
<1>2. ASSUME NEW n \in S PROVE n + 1 \in S
  <2>1. PICK f : IsOnly(f, mails, order, n)
    OBVIOUS
  <2> DEFINE last == IF order[n + 1] \in mails THEN Append(f[n], order[n + 1]) ELSE f[n]
             g == [k \in 0..n + 1 |-> IF k = n + 1 THEN last ELSE f[k]]
  <2>2. n \in Nat /\ \A k \in 0..n : g[k] = f[k]
    OBVIOUS
  <2>3. ASSUME NEW k \in 0..n + 1
        PROVE  g[k] = IF k = 0 THEN <<>>
                      ELSE IF order[k] \in mails THEN Append(g[k - 1], order[k]) ELSE g[k - 1]
    <3>1. CASE k = n + 1
      <4>1. k # 0 /\ k - 1 = n /\ g[k - 1] = f[n] /\ g[k] = last
        BY <2>2, <3>1
      <4> QED
        BY <3>1, <4>1
    <3>2. CASE k # n + 1
      <4>1. k \in 0..n /\ (k # 0 => k - 1 \in 0..n)
        BY <3>2
      <4>2. f[k] = IF k = 0 THEN <<>>
                   ELSE IF order[k] \in mails THEN Append(f[k - 1], order[k]) ELSE f[k - 1]
        BY <2>1, <4>1 DEF IsOnly
      <4> QED
        BY <2>2, <4>1, <4>2
    <3> QED
      BY <3>1, <3>2
  <2>4. IsOnly(g, mails, order, n + 1)
    BY <2>3 DEF IsOnly
  <2> QED
    BY <2>4
<1> QED
  BY <1>1, <1>2, Numbers

\* What Only keeps is in the sequence and in the set, once if it was there once.
LEMMA OnlyThose ==
  ASSUME NEW T, NEW mails, NEW order \in Seq(T)
  PROVE  /\ Only(mails, order) \in Seq(T)
         /\ Range(Only(mails, order)) \subseteq Range(order) \cap mails
         /\ IsInjective(order) => IsInjective(Only(mails, order))
<1> DEFINE len == Len(order)
<1>1. len \in Nat /\ DOMAIN order = 1..len /\ \A k \in 1..len : order[k] \in T
  OBVIOUS
<1>2. PICK f : IsOnly(f, mails, order, len) /\ Only(mails, order) = f[len]
  BY <1>1, OnlyByRecursion, OnlyExists
<1> DEFINE Good(n) ==
             /\ f[n] \in Seq(T)
             /\ \A i \in 1..Len(f[n]) : f[n][i] \in mails /\ \E k \in 1..n : order[k] = f[n][i]
             /\ IsInjective(order) => \A i, j \in 1..Len(f[n]) : f[n][i] = f[n][j] => i = j
           S == {n \in Nat : n <= len => Good(n)}
<1>3. 0 \in S
  <2>1. f[0] = <<>>
    BY <1>1, <1>2 DEF IsOnly
  <2>2. <<>> \in Seq(T) /\ Len(<<>>) = 0 /\ 1..0 = {}
    OBVIOUS
  <2>3. Good(0)
    BY <2>1, <2>2
  <2> QED
    BY <2>3
<1>4. ASSUME NEW n \in S PROVE n + 1 \in S
  <2> SUFFICES ASSUME n + 1 <= len PROVE Good(n + 1)
    OBVIOUS
  <2>1. n \in Nat /\ n + 1 \in 1..len /\ n + 1 \in 0..len /\ Good(n)
    BY <1>1
  <2>2. f[n + 1] = IF order[n + 1] \in mails THEN Append(f[n], order[n + 1]) ELSE f[n]
    <3>1. n + 1 # 0 /\ (n + 1) - 1 = n
      BY <2>1
    <3>2. f[n + 1] = IF n + 1 = 0 THEN <<>>
                     ELSE IF order[n + 1] \in mails THEN Append(f[(n + 1) - 1], order[n + 1])
                          ELSE f[(n + 1) - 1]
      BY <1>2, <2>1 DEF IsOnly
    <3> QED
      BY <3>1, <3>2
  <2>3. CASE order[n + 1] \notin mails
    BY <2>1, <2>2, <2>3
  <2>4. CASE order[n + 1] \in mails
    <3> DEFINE q == f[n]
               e == order[n + 1]
    <3>1. /\ f[n + 1] = Append(q, e) /\ q \in Seq(T) /\ e \in T /\ Len(q) \in Nat
          /\ Len(Append(q, e)) = Len(q) + 1
          /\ \A i \in 1..Len(q) : Append(q, e)[i] = q[i]
          /\ Append(q, e)[Len(q) + 1] = e
      BY <1>1, <2>1, <2>2, <2>4
    <3>2. \A i \in 1..Len(q) + 1 : i \in 1..Len(q) \/ i = Len(q) + 1
      BY <3>1
    <3>3. f[n + 1] \in Seq(T)
      BY <3>1
    <3>4. ASSUME NEW i \in 1..Len(f[n + 1])
          PROVE  f[n + 1][i] \in mails /\ \E k \in 1..n + 1 : order[k] = f[n + 1][i]
      BY <2>1, <2>4, <3>1, <3>2
    <3>5. ASSUME IsInjective(order), NEW i \in 1..Len(f[n + 1]), NEW j \in 1..Len(f[n + 1]),
                 f[n + 1][i] = f[n + 1][j]
          PROVE  i = j
      <4>1. \A k \in 1..n : order[k] # e
        BY <1>1, <2>1, <3>5 DEF IsInjective
      <4>2. \A k \in 1..Len(q) : q[k] # e
        BY <2>1, <4>1
      <4> QED
        BY <2>1, <3>1, <3>2, <3>5, <4>2
    <3> QED
      BY <3>3, <3>4, <3>5
  <2> QED
    BY <2>3, <2>4
<1>5. S = Nat
  <2> HIDE DEF S
  <2>1. S \subseteq Nat
    BY DEF S
  <2> QED
    BY <1>3, <1>4, <2>1, Numbers
<1>6. Good(len)
  BY <1>1, <1>5
<1> DEFINE some == Only(mails, order)
<1>7. some \in Seq(T) /\ DOMAIN some = 1..Len(some) /\ some = f[len]
  BY <1>2, <1>6
<1> HIDE DEF some
<1>8. Range(some) \subseteq Range(order) \cap mails
  BY <1>1, <1>6, <1>7 DEF Range
<1>9. IsInjective(order) => IsInjective(some)
  BY <1>6, <1>7 DEF IsInjective
<1> QED
  BY <1>7, <1>8, <1>9 DEF some

\* Two sequences without repetition that share nothing, one after the other.
LEMMA Joined ==
  ASSUME NEW T, NEW p \in Seq(T), NEW q \in Seq(T), IsInjective(p), IsInjective(q),
         Range(p) \cap Range(q) = {}
  PROVE  p \o q \in Seq(T) /\ IsInjective(p \o q) /\ Range(p \o q) = Range(p) \cup Range(q)
<1> DEFINE j == p \o q
<1>1. /\ j \in Seq(T) /\ DOMAIN j = 1..Len(p) + Len(q) /\ Len(p) \in Nat /\ Len(q) \in Nat
      /\ \A i \in 1..Len(p) + Len(q) : j[i] = IF i <= Len(p) THEN p[i] ELSE q[i - Len(p)]
  BY ConcatProperties
<1>2. DOMAIN p = 1..Len(p) /\ DOMAIN q = 1..Len(q)
  OBVIOUS
<1>3. \A i \in 1..Len(p), k \in 1..Len(q) : p[i] # q[k]
  BY <1>2 DEF Range
<1>4. Range(j) = Range(p) \cup Range(q)
  BY RangeConcatenation
<1> HIDE DEF j
<1>5. ASSUME NEW a \in DOMAIN j, NEW b \in DOMAIN j, j[a] = j[b] PROVE a = b
  <2>1. CASE a <= Len(p) /\ b <= Len(p)
    BY <1>1, <1>2, <1>5, <2>1 DEF IsInjective
  <2>2. CASE a <= Len(p) /\ ~ (b <= Len(p))
    <3>1. a \in 1..Len(p) /\ b - Len(p) \in 1..Len(q) /\ j[a] = p[a] /\ j[b] = q[b - Len(p)]
      BY <1>1, <2>2
    <3> QED
      BY <1>3, <1>5, <3>1
  <2>3. CASE ~ (a <= Len(p)) /\ b <= Len(p)
    <3>1. b \in 1..Len(p) /\ a - Len(p) \in 1..Len(q) /\ j[b] = p[b] /\ j[a] = q[a - Len(p)]
      BY <1>1, <2>3
    <3> QED
      BY <1>3, <1>5, <3>1
  <2>4. CASE ~ (a <= Len(p)) /\ ~ (b <= Len(p))
    <3>1. /\ a - Len(p) \in DOMAIN q /\ b - Len(p) \in DOMAIN q
          /\ j[a] = q[a - Len(p)] /\ j[b] = q[b - Len(p)] /\ a \in Int /\ b \in Int
      BY <1>1, <1>2, <2>4
    <3>2. a - Len(p) = b - Len(p)
      BY <1>5, <3>1 DEF IsInjective
    <3> QED
      BY <1>1, <3>1, <3>2
  <2> QED
    BY <2>1, <2>2, <2>3, <2>4
<1> QED
  BY <1>1, <1>4, <1>5 DEF IsInjective, j

IsQueue(f, results, order, n) ==
  f = [r \in 0..n |-> IF r = 0 THEN <<>>
                      ELSE f[r - 1] \o Only(results[r] \ OfEarlierRules(results, r), order)]

LEMMA QueueByRecursion ==
  ASSUME NEW results, NEW order
  PROVE  InRuleOrder(results, order) = (CHOOSE f : IsQueue(f, results, order, MaxRules))[MaxRules]
BY DEF InRuleOrder, IsQueue

LEMMA QueueExists ==
  ASSUME NEW results, NEW order
  PROVE  \A n \in Nat : \E f : IsQueue(f, results, order, n)
<1> DEFINE more(r) == Only(results[r] \ OfEarlierRules(results, r), order)
           S == {n \in Nat : \E f : IsQueue(f, results, order, n)}
<1>1. 0 \in S
  <2> DEFINE f == [k \in 0..0 |-> <<>>]
  <2>1. IsQueue(f, results, order, 0)
    BY DEF IsQueue
  <2> QED
    BY <2>1
<1>2. ASSUME NEW n \in S PROVE n + 1 \in S
  <2>1. PICK f : IsQueue(f, results, order, n)
    OBVIOUS
  <2> DEFINE g == [k \in 0..n + 1 |-> IF k = n + 1 THEN f[n] \o more(n + 1) ELSE f[k]]
  <2>2. n \in Nat /\ \A k \in 0..n : g[k] = f[k]
    OBVIOUS
  <2>3. ASSUME NEW k \in 0..n + 1
        PROVE  g[k] = IF k = 0 THEN <<>> ELSE g[k - 1] \o more(k)
    <3>1. CASE k = n + 1
      <4>1. k # 0 /\ k - 1 = n /\ g[k - 1] = f[n] /\ g[k] = f[n] \o more(k)
        BY <2>2, <3>1
      <4> QED
        BY <3>1, <4>1
    <3>2. CASE k # n + 1
      <4>1. k \in 0..n /\ (k # 0 => k - 1 \in 0..n)
        BY <3>2
      <4>2. f[k] = IF k = 0 THEN <<>> ELSE f[k - 1] \o more(k)
        BY <2>1, <4>1 DEF IsQueue
      <4> QED
        BY <2>2, <4>1, <4>2
    <3> QED
      BY <3>1, <3>2
  <2>4. IsQueue(g, results, order, n + 1)
    BY <2>3 DEF IsQueue
  <2> QED
    BY <2>4
<1> QED
  BY <1>1, <1>2, Numbers

\* What is handled in the order of the rules was found by one of them, and no mail
\* is handled twice.
LEMMA QueueOK ==
  ASSUME NEW results, NEW order \in Seq(Mails), IsInjective(order)
  PROVE  /\ InRuleOrder(results, order) \in Seq(Mails)
         /\ IsInjective(InRuleOrder(results, order))
         /\ \A m \in Range(InRuleOrder(results, order)) : \E r \in Rules : m \in results[r]
<1> DEFINE more(r) == Only(results[r] \ OfEarlierRules(results, r), order)
<1>1. MaxRules \in Nat /\ Rules = 1..MaxRules
  BY PollAssumption DEF Rules
<1>2. PICK f : IsQueue(f, results, order, MaxRules) /\ InRuleOrder(results, order) = f[MaxRules]
  BY <1>1, QueueByRecursion, QueueExists
<1> DEFINE Good(n) == /\ f[n] \in Seq(Mails) /\ IsInjective(f[n])
                      /\ \A m \in Range(f[n]) : \E r \in 1..n : m \in results[r]
           S == {n \in Nat : n <= MaxRules => Good(n)}
<1>3. 0 \in S
  <2>1. f[0] = <<>>
    BY <1>1, <1>2 DEF IsQueue
  <2>2. <<>> \in Seq(Mails) /\ DOMAIN <<>> = {}
    OBVIOUS
  <2>3. Good(0)
    BY <2>1, <2>2 DEF IsInjective, Range
  <2> QED
    BY <2>3
<1>4. ASSUME NEW n \in S PROVE n + 1 \in S
  <2> SUFFICES ASSUME n + 1 <= MaxRules PROVE Good(n + 1)
    OBVIOUS
  <2>1. n \in Nat /\ n + 1 \in 0..MaxRules /\ n + 1 # 0 /\ (n + 1) - 1 = n /\ Good(n)
    BY <1>1
  <2> DEFINE new == more(n + 1)
  <2>2. f[n + 1] = f[n] \o new
    <3>1. f[n + 1] = IF n + 1 = 0 THEN <<>> ELSE f[(n + 1) - 1] \o more(n + 1)
      BY <1>2, <2>1 DEF IsQueue
    <3> QED
      BY <2>1, <3>1
  <2>3. /\ new \in Seq(Mails) /\ IsInjective(new)
        /\ Range(new) \subseteq results[n + 1] \ OfEarlierRules(results, n + 1)
    BY OnlyThose
  <2> HIDE DEF new
  <2>4. \A r \in 1..n : r \in Rules /\ r < n + 1
    BY <1>1, <2>1
  <2>5. Range(f[n]) \cap Range(new) = {}
    BY <2>1, <2>3, <2>4 DEF OfEarlierRules
  <2>6. 1..n + 1 = 1..n \cup {n + 1}
    BY <2>1
  <2>7. /\ f[n] \o new \in Seq(Mails) /\ IsInjective(f[n] \o new)
        /\ Range(f[n] \o new) = Range(f[n]) \cup Range(new)
    BY <2>1, <2>3, <2>5, Joined
  <2>8. \A m \in Range(f[n]) : \E r \in 1..n + 1 : m \in results[r]
    BY <2>1, <2>6
  <2>9. n + 1 \in 1..n + 1 /\ \A m \in Range(new) : m \in results[n + 1]
    BY <2>1, <2>3
  <2>10. \A m \in Range(f[n] \o new) : \E r \in 1..n + 1 : m \in results[r]
    BY <2>7, <2>8, <2>9
  <2> QED
    BY <2>2, <2>7, <2>10
<1>5. S = Nat
  <2> HIDE DEF S
  <2>1. S \subseteq Nat
    BY DEF S
  <2> QED
    BY <1>3, <1>4, <2>1, Numbers
<1>6. Good(MaxRules)
  <2> HIDE DEF S
  <2>1. MaxRules \in S /\ MaxRules <= MaxRules
    BY <1>1, <1>5
  <2> QED
    BY <2>1 DEF S
<1> QED
  BY <1>1, <1>2, <1>6

\* The first of a sequence.
LEMMA FirstOK ==
  ASSUME NEW T, NEW q \in Seq(T), NEW n \in Nat
  PROVE  /\ First(n, q) \in Seq(T)
         /\ Range(First(n, q)) \subseteq Range(q)
         /\ IsInjective(q) => IsInjective(First(n, q))
<1> DEFINE k == IF Len(q) < n THEN Len(q) ELSE n
           some == SubSeq(q, 1, k)
<1>1. k \in Nat /\ k <= Len(q) /\ Len(q) \in Nat /\ DOMAIN q = 1..Len(q) /\ \A i \in 1..k : q[i] \in T
  OBVIOUS
<1> HIDE DEF k
<1>2. some \in Seq(T) /\ Len(some) = k /\ DOMAIN some = 1..k /\ \A i \in 1..k : some[i] = q[i]
  BY <1>1, SubSeqProperties
<1>3. First(n, q) = some
  BY DEF First, k
<1> HIDE DEF some
<1>4. Range(some) \subseteq Range(q)
  BY <1>1, <1>2 DEF Range
<1>5. IsInjective(q) => IsInjective(some)
  BY <1>1, <1>2 DEF IsInjective
<1> QED
  BY <1>2, <1>3, <1>4, <1>5

-----------------------------------------------------------------------------
\* Both orders have every mail once.
LEMMA OrdersOK ==
  /\ ByArrival \in Seq(Mails) /\ IsInjective(ByArrival)
  /\ Latest \in Seq(Mails) /\ IsInjective(Latest)
<1>1. MaxMails \in Nat /\ Mails = 1..MaxMails
  BY PollAssumption DEF Mails
<1>2. /\ ByArrival \in Seq(Mails) /\ Len(ByArrival) = MaxMails /\ DOMAIN ByArrival = Mails
      /\ \A m \in Mails : ByArrival[m] = m
  BY <1>1 DEF ByArrival
<1>3. Latest = [m \in 1..MaxMails |-> ByArrival[(MaxMails - m) + 1]]
  BY <1>2 DEF Latest, Reverse
<1>4. \A m \in 1..MaxMails : (MaxMails - m) + 1 \in 1..MaxMails
  BY <1>1
<1>5. /\ Latest = [m \in 1..MaxMails |-> (MaxMails - m) + 1]
  BY <1>1, <1>2, <1>3, <1>4
<1>6. Latest \in Seq(Mails) /\ DOMAIN Latest = 1..MaxMails
  BY <1>1, <1>4, <1>5
<1>7. IsInjective(Latest)
  BY <1>1, <1>5, <1>6 DEF IsInjective
<1> QED
  BY <1>2, <1>6, <1>7 DEF IsInjective

\* A fetch brings no mail that has a row.
LEMMA FetchedIsNew ==
  ASSUME provider \in Providers, poll.rules.on \subseteq Rules, NEW searched, NEW unread
  PROVE  LET fetch == FetchSource(searched, unread)
         IN /\ fetch.order \in Seq(Mails) /\ IsInjective(fetch.order)
            /\ \A r \in Rules : fetch.results[r] \cap stored = {}
<1> DEFINE fetch == FetchSource(searched, unread)
<1>1. CASE provider = "gmail"
  <2> DEFINE found == GmailSearch(searched)
             new == GmailNew(found)
             most == Limit[provider] * Cardinality(poll.rules.on)
             bodies == Range(First(most, new)) \ unread
  <2>1. most \in Nat
    <3>1. IsFiniteSet(Rules)
      BY PollAssumption, FS_Interval DEF Rules
    <3>2. Cardinality(poll.rules.on) \in Nat
      BY <3>1, FS_Subset, FS_CardinalityType
    <3>3. Limit[provider] \in Nat
      BY PollAssumption
    <3> QED
      BY <3>2, <3>3
  <2>2. new \in Seq(Mails) /\ \A m \in Range(new) : m \notin stored
    BY OrdersOK, QueueOK DEF GmailNew
  <2>3. fetch.order = ByArrival /\ \A r \in Rules : fetch.results[r] = found[r] \cap bodies
    BY <1>1 DEF FetchSource, GmailFetch
  <2> HIDE DEF new, most, fetch, found
  <2>4. Range(First(most, new)) \subseteq Range(new)
    BY <2>1, <2>2, FirstOK
  <2> QED
    BY <2>2, <2>3, <2>4, OrdersOK DEF fetch
<1>2. CASE provider # "gmail"
  <2>1. /\ fetch.order = Latest
        /\ \A r \in Rules : fetch.results[r] = FastmailLatest(searched)[r] \ stored
    BY <1>2 DEF FetchSource, FastmailFetch
  <2> HIDE DEF fetch
  <2> QED
    BY <2>1, OrdersOK DEF fetch
<1> QED
  BY <1>1, <1>2

\* What a poll has to handle it handles once, and none of it has a row.
QueueIsNew(queue) == queue \in Seq(Mails) /\ IsInjective(queue) /\ Range(queue) \cap stored = {}

TwiceInv ==
  /\ provider \in Providers /\ on \subseteq Rules
  /\ poll # None => /\ poll.rules.on \subseteq Rules
                    /\ poll.queue # None => QueueIsNew(poll.queue)

LEMMA InitTwice == Init => TwiceInv
BY DEF Init, TwiceInv

LEMMA FetchTwice ==
  ASSUME TwiceInv, poll # None, IsPoll(poll), NEW searched, NEW unread,
         NEW kept \in {None} \cup 0..MaxMails, Fetch(searched, unread, kept),
         UNCHANGED <<provider, on, stored>>
  PROVE  TwiceInv'
<1> DEFINE fetch == FetchSource(searched, unread)
           all == InRuleOrder(fetch.results, fetch.order)
           queue == IF kept = None THEN all ELSE First(kept, all)
<1>1. provider \in Providers /\ poll.rules.on \subseteq Rules
  BY DEF TwiceInv
<1>2. QueueIsNew(all)
  <2>1. /\ fetch.order \in Seq(Mails) /\ IsInjective(fetch.order)
        /\ \A r \in Rules : fetch.results[r] \cap stored = {}
    BY <1>1, FetchedIsNew
  <2> HIDE DEF fetch
  <2> QED
    BY <2>1, QueueOK DEF QueueIsNew
<1>3. poll'.queue = queue /\ poll'.rules = poll.rules
  BY DEF Fetch, IsPoll
<1> HIDE DEF all
<1>4. QueueIsNew(queue)
  <2>1. CASE kept = None
    BY <1>2, <2>1
  <2>2. CASE kept # None
    <3>1. kept \in Nat
      BY <2>2
    <3> QED
      BY <1>2, <2>2, <3>1, FirstOK DEF QueueIsNew
  <2> QED
    BY <2>1, <2>2
<1> HIDE DEF queue
<1> QED
  BY <1>3, <1>4 DEF TwiceInv, QueueIsNew

LEMMA HandleTwice ==
  ASSUME TwiceInv, IsPoll(poll), Handle
  PROVE  TwiceInv'
<1> DEFINE q == poll.queue
<1>1. /\ q \in Seq(Mails) /\ IsInjective(q) /\ Range(q) \cap stored = {} /\ q # <<>>
      /\ provider' = provider /\ on' = on /\ stored' = stored \cup {Head(q)}
  BY DEF Handle, TwiceInv, QueueIsNew
<1>2. poll'.queue = Tail(q) /\ poll'.rules = poll.rules
  BY DEF Handle, IsPoll
<1> HIDE DEF q
<1>3. /\ Len(q) \in Nat /\ Len(q) > 0 /\ DOMAIN q = 1..Len(q) /\ Head(q) = q[1]
      /\ Tail(q) \in Seq(Mails) /\ DOMAIN Tail(q) = 1..Len(q) - 1
      /\ \A i \in 1..Len(q) - 1 : Tail(q)[i] = q[i + 1]
  BY <1>1
<1>4. \A i \in 1..Len(q) - 1 : i + 1 \in DOMAIN q /\ i + 1 # 1 /\ 1 \in DOMAIN q
  BY <1>3
<1>5. IsInjective(Tail(q))
  BY <1>1, <1>3, <1>4 DEF IsInjective
<1>6. \A i \in 1..Len(q) - 1 : Tail(q)[i] # Head(q) /\ Tail(q)[i] \in Range(q)
  BY <1>1, <1>3, <1>4 DEF IsInjective, Range
<1>7. Range(Tail(q)) \cap stored' = {}
  BY <1>1, <1>3, <1>6 DEF Range
<1> QED
  BY <1>1, <1>2, <1>3, <1>5, <1>7 DEF TwiceInv, QueueIsNew, Handle

LEMMA TwiceInductive == ReachInv /\ TwiceInv /\ [Next]_vars => TwiceInv'
<1> SUFFICES ASSUME ReachInv, TwiceInv, [Next]_vars PROVE TwiceInv'
  OBVIOUS
<1>1. poll # None => IsPoll(poll)
  BY DEF ReachInv, PollOK
<1>2. CASE Start
  <2> DEFINE p == [rules |-> [on |-> on, done |-> backfilled], synced |-> synced, day |-> today,
                   queue |-> None, ok |-> FALSE, ready |-> {}, seen |-> {}]
  <2>1. poll' = p /\ p.rules.on = on /\ p.queue = None
    BY <1>2 DEF Start
  <2> HIDE DEF p
  <2> QED
    BY <1>2, <2>1 DEF Start, TwiceInv
<1>3. CASE FetchAll \/ FetchSome
  <2>1. \E searched, unread : \E kept \in {None} \cup 0..MaxMails : Fetch(searched, unread, kept)
    <3>1. CASE FetchAll
      BY <3>1 DEF FetchAll
    <3>2. CASE FetchSome
      <4>1. CASE \E kept \in 0..MaxMails : Fetch(poll.rules.on, {}, kept)
        BY <4>1
      <4>2. CASE \E searched \in SUBSET poll.rules.on : Fetch(searched, {}, None)
        BY <4>2
      <4>3. CASE \E unread : Fetch(poll.rules.on, unread, None)
        BY <4>3
      <4> QED
        BY <3>2, <4>1, <4>2, <4>3 DEF FetchSome
    <3> QED
      BY <1>3, <3>1, <3>2
  <2>2. PICK searched, unread :
          \E kept \in {None} \cup 0..MaxMails : Fetch(searched, unread, kept)
    BY <2>1
  <2>3. PICK kept \in {None} \cup 0..MaxMails : Fetch(searched, unread, kept)
    BY <2>2
  <2> QED
    BY <1>1, <1>3, <2>3, FetchTwice DEF FetchAll, FetchSome
<1>4. CASE Handle
  BY <1>1, <1>4, HandleTwice DEF Handle
<1>5. CASE Finish \/ Abort
  BY <1>5 DEF Finish, Abort, TwiceInv
<1>6. CASE NextDay
  BY <1>6 DEF NextDay, TwiceInv, QueueIsNew
<1>7. ASSUME NEW m \in Mails, NEW day, Arrive(m, day) PROVE TwiceInv'
  BY <1>7 DEF Arrive, TwiceInv, QueueIsNew
<1>8. ASSUME NEW r \in Rules, Toggle(r) PROVE TwiceInv'
  BY <1>8 DEF Toggle, TwiceInv, QueueIsNew
<1>9. CASE UNCHANGED vars
  BY <1>9 DEF vars, TwiceInv, QueueIsNew
<1> QED
  BY <1>2, <1>3, <1>4, <1>5, <1>6, <1>7, <1>8, <1>9 DEF Next, PollStep

\* For every account, any rules that share mails, limits that cut a fetch anywhere,
\* failing searches and crashes: no mail is handled twice, in one poll or in a
\* later one.
THEOREM NoneHandledTwice == Spec => []NoMailTwice
<1>1. TwiceInv => NoMailTwice
  BY DEF TwiceInv, QueueIsNew, NoMailTwice
<1> QED
  BY <1>1, InitReach, ReachInductive, InitTwice, TwiceInductive, PTL DEF Spec
=============================================================================
