--------------------------- MODULE MCStatements ----------------------------
(* A small account with a statement, for TLC: a bank account, or a card.     *)
(* Both kinds of statement run under the same bounds. A behaviour stays in   *)
(* one of the two.                                                           *)
EXTENDS BankStatements

CONSTANTS NoMask, Rupee

VARIABLES kind,     \* "card" or "bank"
          cardSheet, cardRows, cardEntries, cardJob, stray

cardVars == <<cardSheet, cardRows, cardEntries, cardJob, stray>>

-----------------------------------------------------------------------------
\* The card: one date, two merchants. Two lines a name apart, twice the same
\* line, a line whose amount settles from another.

CardLine == [day |-> 1, amt |-> 100, dir |-> "debit", text |-> "A", who |-> Null,
             card |-> NoMask, tagged |-> FALSE]
CardSheets == {<<CardLine, [CardLine EXCEPT !.text = "B"]>>, <<CardLine, CardLine>>,
               <<[CardLine EXCEPT !.amt = 101]>>, <<[CardLine EXCEPT !.amt = Garbled]>>}

CardRow == [day |-> 1, amt |-> 100, dir |-> "debit", name |-> "A", mask |-> NoMask,
            cur |-> Rupee, manual |-> FALSE, voided |-> FALSE, stmt |-> FALSE,
            made |-> "alert", upload |-> Null, holder |-> Null]
CardPostings == {CardRow, [CardRow EXCEPT !.cur = "USD", !.amt = 2]}

Settling == {<<101, 100>>}
OwnNames == {<<"A", "A">>, <<"B", "B">>}
NoPairs == {}

Card == INSTANCE CardStatements WITH
  sheet <- cardSheet, rows <- cardRows, entries <- cardEntries, job <- cardJob, None <- Null,
  Sheets <- CardSheets, Postings <- CardPostings, Cards <- {}, SettlesAs <- Settling,
  SameMerchant <- OwnNames, NamesWhole <- OwnNames, NamesGlued <- NoPairs, MasksAgree <- NoPairs

-----------------------------------------------------------------------------
\* The bank account: two parties a name apart, twice the same line, two days of
\* which one is referenced, references with leading zeros and an unreadable line.

BankLine == [day |-> 1, amt |-> 5, dir |-> "debit", ref |-> NoRef, party |-> "A", text |-> "t", upi |-> FALSE]
BankSheets == {<<BankLine, [BankLine EXCEPT !.party = "B"]>>, <<BankLine, BankLine>>,
               <<[BankLine EXCEPT !.ref = "r"], [BankLine EXCEPT !.day = 2]>>,
               <<[BankLine EXCEPT !.ref = "0r"], [BankLine EXCEPT !.ref = "s", !.amt = Garbled]>>}

BankRow == [day |-> 1, amt |-> 5, dir |-> "debit", ref |-> NoRef, name |-> Generic,
            text |-> NoText, upi |-> FALSE, shot |-> FALSE, voided |-> FALSE, stmt |-> FALSE,
            made |-> "alert", upload |-> Null]
BankPostings == {BankRow, [BankRow EXCEPT !.ref = "r", !.day = 2],
                 [BankRow EXCEPT !.ref = "r", !.amt = 7], [BankRow EXCEPT !.ref = "s", !.shot = TRUE]}

Keys == [r \in {NoRef, "r", "0r", "s"} |-> IF r = "0r" THEN "r" ELSE r]

Days == 1..2
References == {"r", "s"}

-----------------------------------------------------------------------------
NoCard ==
  /\ cardSheet = <<>> /\ cardRows = <<>>
  /\ cardEntries = [u \in Uploads |-> Null] /\ cardJob = Null
  /\ stray = FALSE
NoBank ==
  /\ sheet = <<>> /\ ledger = <<>> /\ entries = [u \in Uploads |-> Null] /\ job = Null

MCInit ==
  \/ kind = "card" /\ Card!Init /\ NoBank
  \/ kind = "bank" /\ BankInit /\ NoCard

MCNext ==
  /\ UNCHANGED kind
  /\ \/ kind = "card" /\ Card!Next /\ UNCHANGED <<sheet, ledger, entries, job>>
     \/ kind = "bank" /\ BankNext /\ UNCHANGED cardVars

MCSpec == MCInit /\ [][MCNext]_<<bankVars, cardVars, kind>>

UploadsAlike == Permutations(Uploads)

-----------------------------------------------------------------------------
\* PROPERTIES of card statements, and of both kinds

\* However often a card's sheet is mailed, uploaded and reparsed, and whatever the
\* user answers or cancels, it records no more rows than it has lines, as long as no
\* row was voided, no upload deleted and no answer folded another line's row.
NothingRecordedTwice == Card!RecordedOnce

\* The order of a statement's lines never changes what it writes into a row, but
\* for a card's row whose amount was typed by hand.
ReadsOrderFree ==
  [][/\ cardJob = Null /\ cardJob' # Null => Card!OrderFree
     /\ job = Null /\ job' # Null => OrderFree]_<<bankVars, cardVars>>

\* An answer deletes the copy its statement recorded for the line, no other row.
OwnCopyFolded ==
  Card!FoldsOwnCopy
=============================================================================
