----------------------------- MODULE CardMatch -----------------------------
(* How the lines of a card statement find their rows in the ledger.          *)
(*                                                                           *)
(* A line is [day, amt, dir, text, who, card, tagged]; a row is [day, amt,   *)
(* dir, name, mask, cur, manual, voided, stmt], where stmt says a statement  *)
(* recorded or claimed it. Rows are a function from ids; the ledger lists    *)
(* them by id. What the code computes from two strings (a merchant named by  *)
(* a narration, masks that agree, amounts a settlement apart) is a constant  *)
(* relation.                                                                 *)
EXTENDS Integers, SequencesExt

CONSTANTS
  NoMask,           \* a mask that shows nothing
  Rupee,            \* the statement's currency
  Garbled,          \* an amount that does not parse
  SettlesAs,        \* pairs of amounts within the settlement band
  SameMerchant,     \* pairs of a narration and a name: normalised, similar
  NamesWhole,       \* pairs of a narration and a name: the name as whole words
  NamesGlued,       \* pairs of a narration and a name: glued to the next word
  MasksAgree        \* pairs of masks that can be one card

NoRow == 0

-----------------------------------------------------------------------------
\* The lines of a statement. A tagged credit with a debit twin of its own is
\* the bank's bookkeeping; each debit is the twin of one credit.

TwinKey(line) == <<line.card, line.day, line.amt, line.text>>

ClaimsTwin(stmt, i) ==
  LET key == TwinKey(stmt.credits[i])
      before == {j \in 1..i : stmt.credits[j].tagged /\ TwinKey(stmt.credits[j]) = key}
      twins == {d \in DOMAIN stmt.debits : TwinKey(stmt.debits[d]) = key}
  IN stmt.credits[i].tagged /\ Cardinality(before) <= Cardinality(twins)

StatementLines(stmt) ==
  LET real == {i \in DOMAIN stmt.credits : ~ClaimsTwin(stmt, i)} IN
  stmt.debits \o [k \in 1..Cardinality(real) |-> stmt.credits[SetToSortSeq(real, <)[k]]]

-----------------------------------------------------------------------------
\* Cards. An unknown mask is compatible with all; only masks that single out
\* one registered card confirm it.

Agree(a, b) == a # NoMask /\ b # NoMask /\ <<a, b>> \in MasksAgree

CardCompatible(mask, cards) == mask = NoMask \/ cards = {} \/ \E c \in cards : Agree(mask, c)

IdentifiesOne(mask, cards) ==
  LET hit == {c \in cards : Agree(mask, c)}
  IN hit # {} /\ \A c, d \in hit : Agree(c, d)

SameCard(line, mask, cards) ==
  Agree(line.card, mask) /\ IdentifiesOne(line.card, cards) /\ IdentifiesOne(mask, cards)

OtherCard(line, mask) == line.card # NoMask /\ mask # NoMask /\ ~Agree(line.card, mask)

-----------------------------------------------------------------------------
\* What a line could claim, judged before any line claims.

\* A voided charge never posts, unless a statement printed it.
Eligible(rows) == {r \in DOMAIN rows : ~rows[r].voided \/ rows[r].stmt}

NearDay(line, row) == row.day - line.day \in -1..1

ExactRows(line, rows) ==
  {r \in Eligible(rows) : /\ rows[r].cur = Rupee /\ rows[r].dir = line.dir
                          /\ NearDay(line, rows[r]) /\ line.amt # Garbled
                          /\ rows[r].amt = line.amt}

BandedRows(line, rows) ==
  {r \in Eligible(rows) : /\ rows[r].cur = Rupee /\ rows[r].dir = line.dir
                          /\ NearDay(line, rows[r])
                          /\ <<line.amt, rows[r].amt>> \in SettlesAs
                          /\ <<line.text, rows[r].name>> \in SameMerchant}

CandidateRows(line, rows) == ExactRows(line, rows) \cup BandedRows(line, rows)

-----------------------------------------------------------------------------
\* The greedy pass, in statement order: the exact day first, then the day
\* before, then the day after; the first row in the ledger's order.

Pick(line, rows, cards, taken) ==
  LET open(offset) == {r \in ExactRows(line, rows) \ taken :
                         rows[r].day = line.day + offset /\ CardCompatible(rows[r].mask, cards)}
  IN CASE open(0) # {} -> Min(open(0))
       [] open(0) = {} /\ open(-1) # {} -> Min(open(-1))
       [] open(0) = {} /\ open(-1) = {} /\ open(1) # {} -> Min(open(1))
       [] OTHER -> NoRow

WonByPass(won, line, rows, cards) == Append(won, Pick(line, rows, cards, Range(won)))

Greedy(lines, rows, cards) ==
  LET won[n \in 0..Len(lines)] ==
        IF n = 0 THEN <<>> ELSE WonByPass(won[n - 1], lines[n], rows, cards)
  IN won[Len(lines)]

-----------------------------------------------------------------------------
\* A winner that a rival could have been, and that would write something else,
\* is contested. A rival on another card than a confirmed row's is none.

RefreshIdentity(line) == <<line.text, line.who>>

RivalsLeftOut(i, lines, rows, won, cards) ==
  {j \in DOMAIN lines \ {i} : won[j] = NoRow /\ won[i] \in ExactRows(lines[j], rows)}

Rivals(i, lines, rows, won, cards) ==
  LET mask == rows[won[i]].mask
      reach == {j \in DOMAIN lines \ {i} : won[i] \in ExactRows(lines[j], rows)}
  IN {j \in reach : SameCard(lines[i], mask, cards) => ~OtherCard(lines[j], mask)}

Contested(lines, rows, won, cards) ==
  {i \in DOMAIN lines :
     /\ won[i] # NoRow
     /\ \E j \in Rivals(i, lines, rows, won, cards) :
          RefreshIdentity(lines[i]) # RefreshIdentity(lines[j])}

\* The rows a line names as its own: whole words outrank a glued prefix, and a
\* row on another card is never named.
NamedRows(line, rows) ==
  LET own == {r \in ExactRows(line, rows) : ~OtherCard(line, rows[r].mask)}
      whole == {r \in own : <<line.text, rows[r].name>> \in NamesWhole}
  IN IF whole # {} THEN whole ELSE {r \in own : <<line.text, rows[r].name>> \in NamesGlued}

\* The contested lines tied to line i: their reaches overlap, link by link.
TiedWith(i, contested, lines, rows) ==
  LET overlap(a, b) == ExactRows(lines[a], rows) \cap ExactRows(lines[b], rows) # {}
      closed(S) == \A a \in S, b \in contested : overlap(a, b) => b \in S
  IN {b \in contested : \A S \in SUBSET contested : i \in S /\ closed(S) => b \in S}

\* A tie is resolved by name only when the lines name the rows the group won
\* one to one, and no other line that reaches such a row names it too.
ResolvedByName(tie, lines, rows, won) ==
  LET prize == {won[i] : i \in tie}
      names(j) == NamedRows(lines[j], rows)
  IN /\ Cardinality(tie) > 1
     /\ \A i \in tie : Cardinality(names(i)) = 1 /\ names(i) \subseteq prize
     /\ UNION {names(i) : i \in tie} = prize
     /\ \A r \in prize : Cardinality({j \in DOMAIN lines : r \in names(j)}) = 1

\* What each line keeps of what it won: its row, the row it names, or none.
Kept(lines, rows, cards, won) ==
  LET contested == Contested(lines, rows, won, cards)
  IN [i \in DOMAIN lines |->
        IF i \notin contested THEN won[i]
        ELSE IF ResolvedByName(TiedWith(i, contested, lines, rows), lines, rows, won)
               THEN CHOOSE r \in NamedRows(lines[i], rows) : TRUE
               ELSE NoRow]

Settled(lines, rows, cards) == Kept(lines, rows, cards, Greedy(lines, rows, cards))

-----------------------------------------------------------------------------
\* Foreign spends: an alert in another currency (or of an amount typed by hand)
\* pairs by card, direction, day and name, and only where every pairing of the
\* lines with the rows writes the same values.

ForeignRows(line, rows, taken) ==
  {r \in Eligible(rows) \ taken :
     /\ rows[r].cur # Rupee \/ rows[r].manual
     /\ rows[r].dir = line.dir /\ NearDay(line, rows[r]) /\ line.amt # Garbled
     /\ <<line.text, rows[r].name>> \in NamesWhole}

CertainGroup(group, named, links, lines, rows) ==
  /\ \A i \in DOMAIN lines \ group : links[i] \cap named = {}
  /\ Cardinality(group) = Cardinality(named)
  /\ \A i, j \in group : /\ lines[i].amt = lines[j].amt
                         /\ RefreshIdentity(lines[i]) = RefreshIdentity(lines[j])
  /\ \A r, s \in named : rows[r].amt = rows[s].amt /\ rows[r].cur = rows[s].cur

ForeignPairs(lines, rows, cards, settled) ==
  LET taken == Range(settled)
      links == [i \in DOMAIN lines |->
                  {r \in ForeignRows(lines[i], rows, taken) :
                     CardCompatible(rows[r].mask, cards)}]
      free == {i \in DOMAIN lines : /\ settled[i] = NoRow /\ links[i] # {}
                                    /\ CandidateRows(lines[i], rows) = {}}
      group(i) == {j \in free : links[j] = links[i]}
      rank(x, S) == Cardinality({y \in S : y <= x})
  IN [i \in {i \in free : CertainGroup(group(i), links[i], links, lines, rows)} |->
        CHOOSE r \in links[i] : rank(r, links[i]) = rank(i, group(i))]

\* The reconciliation: each line's row, the foreign pairings among them, and
\* the lines held back because a row could be theirs.
Reconcile(lines, rows, cards) ==
  LET settled == Settled(lines, rows, cards)
      foreign == ForeignPairs(lines, rows, cards, settled)
      row == [i \in DOMAIN lines |-> IF i \in DOMAIN foreign THEN foreign[i] ELSE settled[i]]
  IN [row |-> row, foreign |-> DOMAIN foreign,
      candidates |-> [i \in DOMAIN lines |-> CandidateRows(lines[i], rows)],
      held |-> {i \in DOMAIN lines : row[i] = NoRow /\ CandidateRows(lines[i], rows) # {}}]
=============================================================================
