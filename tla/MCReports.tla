----------------------------- MODULE MCReports -----------------------------
(* Small instances of Reports: "ledger" posts three rows of every kind,      *)
(* "bank" interleaves alerts, statements and edits of one account, "wealth"   *)
(* writes snapshots, portfolios and items.                                   *)
EXTENDS Integers, FiniteSets, Sequences, TLC

CONSTANTS Null, Scenes

VARIABLES scene, snaps, holdings, cas, lots, items, writes, rows, uploads, edits

reportVars == <<snaps, holdings, cas, lots, items, writes, rows, uploads, edits>>

Row == [id |-> 0, acct |-> "b1", day |-> 1, at |-> Null, dir |-> "debit", amt |-> 2,
        cat |-> Null, ref |-> Null, ccy |-> Null, card |-> Null, mask |-> Null,
        party |-> Null, told |-> FALSE, late |-> FALSE, real |-> TRUE, bal |-> Null,
        voided |-> FALSE, excluded |-> FALSE, upload |-> Null]

LedgerShapes ==
  { [Row EXCEPT !.cat = "self_transfer", !.ref = "t"],
    [Row EXCEPT !.cat = "self_transfer", !.ref = "t", !.acct = "b2", !.day = 2, !.dir = "credit"],
    [Row EXCEPT !.cat = "self_transfer", !.ref = "t", !.acct = "b2", !.day = 2, !.dir = "credit", !.ccy = "USD"],
    [Row EXCEPT !.cat = "credit_card_payment", !.card = "k"],
    [Row EXCEPT !.cat = "credit_card_payment", !.mask = "m", !.dir = "credit", !.day = 2],
    [Row EXCEPT !.cat = "credit_card_payment", !.acct = "cc", !.dir = "credit"],
    [Row EXCEPT !.acct = "cc", !.cat = "groceries"],
    [Row EXCEPT !.acct = "b2", !.cat = "salary", !.dir = "credit", !.ccy = "usd", !.day = 2],
    [Row EXCEPT !.cat = "investment_redemption", !.dir = "credit"],
    [Row EXCEPT !.cat = "gift", !.dir = "credit", !.excluded = TRUE],
    [Row EXCEPT !.cat = "repayment", !.dir = "credit", !.party = "P", !.at = 1, !.told = TRUE],
    [Row EXCEPT !.cat = "family", !.ccy = "?"],
    [Row EXCEPT !.acct = "w", !.cat = "new"],
    [Row EXCEPT !.acct = "gone", !.day = 3],
    [Row EXCEPT !.day = Null, !.cat = ""],
    [Row EXCEPT !.cat = "groceries", !.voided = TRUE, !.real = FALSE] }

BankShapes ==
  { [Row EXCEPT !.told = TRUE, !.cat = "groceries"], [Row EXCEPT !.day = 2, !.late = TRUE, !.amt = 1],
    [Row EXCEPT !.day = 2, !.real = FALSE], [Row EXCEPT !.day = 3, !.dir = "credit", !.at = 1],
    [Row EXCEPT !.day = 3, !.told = TRUE, !.late = TRUE, !.at = 2] }

Settings ==
  [selected |-> {"b1", "b2", "cc", "gone"}, cutover |-> 0, names |-> <<>>, cats |-> <<>>,
   policy |-> "skip", rates |-> {}, invest |-> TRUE, secret |-> TRUE]
AllSettings ==
  { Settings,
    [Settings EXCEPT !.selected = {"b1", "cc"}, !.cutover = 1, !.secret = FALSE,
       !.names = "cc" :> <<"Liabilities", "Mine">>,
       !.cats = "gift" :> <<"Income", "Gifts">>
                  @@ "credit_card_payment" :> <<"Liabilities", "Bills">>],
    [Settings EXCEPT !.policy = "priced", !.invest = FALSE,
       !.rates = {[ccy |-> "USD", day |-> 1, rate |-> 80]}] }

\* A purchase that the statement repeats, and one that is no lot; one portfolio
\* under two depositories; holdings that no class explains.
Bought == [scope |-> "mf", type |-> "purchase", units |-> 1, nav |-> 2, amount |-> 2,
           day |-> 1, isin |-> "I", ref |-> "f"]
Payload == [key |-> "P", day |-> 1, source |-> "nsdl", total |-> 3, classes |-> [equity |-> 2],
            moves |-> <<Bought, Bought, [Bought EXCEPT !.type = "redemption"]>>]
AllPayloads ==
  { Payload,
    [Payload EXCEPT !.source = "cdsl", !.total = 1, !.classes = [equity |-> 1], !.moves = <<>>],
    [Payload EXCEPT !.day = 3, !.source = "cdsl", !.total = 2, !.classes = [other |-> 1],
                    !.moves = <<>>] }

\* An upload of an earlier version, and its snapshots: without a key, and in
\* dollars.
OldUpload == [id |-> 9, key |-> "P", day |-> 2, source |-> "nsdl", payload |-> Payload]
OldSnap == [id |-> 1, acct |-> Null, cas |-> 9, item |-> Null, key |-> Null, kind |-> "asset",
            category |-> "investment", day |-> 0, value |-> 2, ccy |-> "INR"]
OldSnaps == {OldSnap, [OldSnap EXCEPT !.id = 2, !.key = "P", !.day = 2, !.ccy = "USD"]}

Types == "b1" :> "bank_account" @@ "b2" :> "debit_card" @@ "cc" :> "credit_card" @@ "w" :> "wallet"

Ledger == INSTANCE Reports WITH
  Accounts <- {"b1"}, Closed <- {}, Days <- 0 .. 3, Today <- 3, Values <- {}, Payloads <- {},
  Legacy <- {}, Unlotted <- {}, MaxWrites <- 0,
  AccountType <- Types, Cards <- {[id |-> "k", acct |-> "cc", mask |-> "m"]},
  RowShapes <- LedgerShapes, Categories <- {}, Periods <- {}, Configs <- AllSettings,
  Base <- 7, UserExpense <- {"new"}, UserIncome <- {}, MonthDays <- 2, MaxRows <- 3, MaxEdits <- 0

Bank == INSTANCE Reports WITH
  Accounts <- {"b1"}, Closed <- {}, Days <- 0 .. 3, Today <- 3, Values <- {}, Payloads <- {},
  Legacy <- {}, Unlotted <- {}, MaxWrites <- 0,
  AccountType <- Types, Cards <- {}, RowShapes <- BankShapes, Categories <- {"gift"},
  Periods <- {<<0, 1>>, <<2, 2>>, <<0, 2>>}, Configs <- AllSettings,
  Base <- 7, UserExpense <- {}, UserIncome <- {}, MonthDays <- 2, MaxRows <- 3, MaxEdits <- 2

Wealth == INSTANCE Reports WITH
  Accounts <- {"b1"}, Closed <- {}, Days <- {1, 3}, Today <- 3, Values <- {1, 2},
  Payloads <- AllPayloads, Legacy <- OldSnaps, Unlotted <- {OldUpload}, MaxWrites <- 3,
  AccountType <- Types, Cards <- {}, RowShapes <- {}, Categories <- {}, Periods <- {},
  Configs <- AllSettings, Base <- 7, UserExpense <- {}, UserIncome <- {}, MonthDays <- 2,
  MaxRows <- 0, MaxEdits <- 0

NoWealth == /\ snaps = {} /\ holdings = {} /\ cas = {} /\ lots = {} /\ items = <<>>
            /\ writes = 0

Init == /\ scene \in Scenes
        /\ IF scene = "wealth" THEN Wealth!Init ELSE NoWealth
        /\ Ledger!RowsInit

Next == \/ scene = "ledger" /\ Ledger!RowsNext /\ UNCHANGED scene
        \/ scene = "bank" /\ Bank!RowsNext /\ UNCHANGED scene
        \/ scene = "wealth" /\ Wealth!Next /\ UNCHANGED <<scene, rows, uploads, edits>>

Spec == Init /\ [][Next]_<<scene, reportVars>>

-----------------------------------------------------------------------------
(* The figures of the cash report agree with each other (Reports).          *)
FiguresAgree == scene = "ledger" => Ledger!FiguresAgree

(* A complete ledger with truthful statements leaves no gap (Reports).       *)
NoGapWhenComplete == scene = "bank" => Bank!NoGapWhenComplete

(* The journal shows every row once and moves every account by it, and its   *)
(* portfolios are worth what the net worth counts (Reports).                 *)
JournalAgrees ==
  /\ scene = "ledger" => Ledger!JournalAddsUp
  /\ scene = "wealth" => Wealth!ValuationsFollowNetWorth

(* The trend and the breakdown are the net worth (NetWorth).                 *)
WealthAddsUp == scene = "wealth" => Wealth!WealthAddsUp

(* A voided row is no money, in the journal either (Reports).                *)
VoidedIsNoMoney == Bank!VoidedIsNoMoney

=============================================================================
