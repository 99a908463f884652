---------------------------- MODULE MCAssistant ----------------------------
(* What the user says, for TLC. Replies: a message q that may ask, with a    *)
(* typed Yes and a tap that compete to answer it. Choices: the categories of *)
(* two rows, which sweeps, prompts, taps and enrichment write. Receipts and  *)
(* pictures: files that turns attach to rows, by an interaction with a row,  *)
(* or by a screenshot and a reply to its question. A behaviour stays in one  *)
(* of these scenes.                                                          *)
EXTENDS AssistantTurns, Categorization, Receipts, TLC

CONSTANTS q, y, tap, a, p, fix, w1, w2

VARIABLE scene

KindRivals == (q :> "ask") @@ (y :> "yes") @@ (tap :> "tap")
QuestionRivals == (q :> None) @@ (y :> q) @@ (tap :> q)

WorkerSymmetry == Permutations(Workers)

-----------------------------------------------------------------------------
\* Two rows of one import, whose cap is one prompt. A text without a rule, one
\* with a rule and the reference of a transfer, and one that says nothing.

Import == [t \in 1..2 |-> "u"]
Transfers == {<<"b", "b">>}
FirstOf == {<<"a", "a">>, <<"a", "">>}
Rules == "a" :> NoValue @@ "b" :> "rent" @@ "" :> NoValue
Allowed == [t \in 1..2 |-> {"rent", "food"}]
Guess == [t \in 1..2 |-> "expense"]
Says == {[slug |-> "food", sure |-> TRUE, options |-> {"food"}],
         [slug |-> "food", sure |-> FALSE, options |-> {"food", "rent"}]}

-----------------------------------------------------------------------------
\* A receipt a, a screenshot p and a reply fix to its question, which gives the
\* reference of the payment or replaces it. Some rows of the bank have it.

SortOf == (a :> "receipt") @@ (p :> "screenshot") @@ (fix :> "reply")
ScreenOf == (a :> a) @@ (p :> p) @@ (fix :> p)
Account == [account |-> "b", card |-> Nil]
FitsOf == [channel \in {"upi", "card"} |-> IF channel = "upi" THEN "b" :> {Account} @@ Nil :> {} ELSE "b" :> {}]
Shown == [status |-> "success", channel |-> "upi", dir |-> "debit", sum |-> 5, day |-> 1,
          utr |-> Nil, hint |-> "b", named |-> TRUE, block |-> Nil]
Seen == {Shown, [Shown EXCEPT !.status = "failed"]}
Corrections == {[keyed |-> <<>>, loose |-> "u"], [keyed |-> [utr |-> "v"], loose |-> Nil]}
Booked == {[place |-> Account, dir |-> "debit", sum |-> 5, day |-> 1, utr |-> utr] : utr \in {Nil, "u"}}

-----------------------------------------------------------------------------
Untouched == mode = "plain" /\ \A t \in Txns : row[t].text = "a"

MCInit ==
  /\ Init /\ CatInit /\ ReceiptsInit
  /\ \/ scene \in {"replies", "receipts", "pictures"} /\ Untouched
     \/ scene = "choices"

MCNext ==
  /\ UNCHANGED scene
  /\ \/ scene = "replies" /\ Next /\ UNCHANGED <<catVars, receiptVars>>
     \/ scene = "choices" /\ CatNext /\ UNCHANGED <<vars, receiptVars>>
     \/ scene = "receipts" /\ ReceiptsNext /\ UNCHANGED <<vars, catVars>>
        /\ msg'[p].status = "absent" /\ msg'[fix].status = "absent"
     \/ scene = "pictures" /\ ReceiptsNext /\ UNCHANGED <<vars, catVars>>
        /\ msg'[a].status = "absent" /\ births' < MaxBirths /\ ~isVoid'[2]

MCSpec == MCInit /\ [][MCNext]_<<vars, scene, catVars, receiptVars>>
=============================================================================
