------------------------------ MODULE MCBooks ------------------------------
(* The books kept on top of the ledger, for TLC: receivables and card        *)
(* cycles, each on a small ledger of its own. A behaviour stays in one of    *)
(* these scenes.                                                             *)
EXTENDS Receivables, CardCycle, TLC

CONSTANTS r1, r2

VARIABLE scene

-----------------------------------------------------------------------------
\* Claims: two payables, two debits that show one payment and may pay either, and
\* a credit that may have caused them.

KindOfClaim == [c \in Claims |-> "payable"]
RowAmount == [t \in Rows |-> 1]
RowDirection == [t \in Rows |-> IF t = 3 THEN "credit" ELSE "debit"]
RowNames == [t \in Rows |-> {"ann"}]
RowTeaches == [t \in Rows |-> {"ann"}]
Own == "p" :> "ann" @@ "q" :> "bob"
NoPairs == {}
Debtors == [c \in Claims |-> {"p"}]
SameEvent == {<<1, 2>>, <<2, 1>>}

RequestsAlike == Permutations(Requests)

-----------------------------------------------------------------------------
\* Cards: two cards of one bank over two days. A bill of 1, due on the first day,
\* and one of 2, due on the second. The books are empty, or hold a tracked bill.

Bills == {[mask |-> "m1", due |-> 0, total |-> 1], [mask |-> "m1", due |-> 1, total |-> 2]}
Masks == "a1" :> {"m1"} @@ "a2" :> {"m2"}
SameMasks == {<<"m1", "m1">>, <<"m2", "m2">>}
Tracked == [acct |-> "a1", kind |-> "pdf", created |-> 0, due |-> 0, total |-> 1,
            status |-> "unpaid", sent |-> {}, paid |-> 0]
SmallBooks == {<<>>, <<Tracked>>}

-----------------------------------------------------------------------------
MCInit ==
  /\ scene \in {"claims", "cards"}
  /\ Init
  /\ CardInit /\ (scene = "claims" => uploads = <<>>)

MCNext ==
  /\ UNCHANGED scene
  /\ \/ scene = "claims" /\ Next /\ UNCHANGED cardVars
     \/ scene = "cards" /\ CardNext /\ UNCHANGED vars

MCSpec == MCInit /\ [][MCNext]_<<vars, scene, cardVars>>
=============================================================================
