---------------------------- MODULE MCTxnIngest ----------------------------
(* Small instances of two scenes on the ledger: the ingestion of a few       *)
(* alerts, each saying one of these things, in every combination and every   *)
(* order; and the repair of an account that alerts and statements recorded.  *)
EXTENDS TxnIngest, LedgerRepair

CONSTANTS a1, a2, a3, a4

VARIABLE scene

Plain ==
  [channel |-> "sms", role |-> "primary", type |-> "alert", amount |-> 1, ref |-> None,
   balance |-> None, at |-> None, received |-> FALSE, name |-> None, label |-> FALSE,
   acct |-> None, card |-> None, by |-> "counterparty"]
Email == [Plain EXCEPT !.channel = "email"]

SmsContents ==
  { [Plain EXCEPT !.at = 610, !.balance = 90, !.name = "shop"],
    [Plain EXCEPT !.at = 611, !.received = TRUE],
    [Plain EXCEPT !.at = 615, !.ref = "r2", !.balance = 80],
    [Plain EXCEPT !.at = 610, !.ref = "r1", !.acct = "x"],
    [Plain EXCEPT !.at = 1330, !.name = "shop"],
    [Plain EXCEPT !.at = 610, !.role = "provisional", !.card = "c"],
    [Plain EXCEPT !.at = 612, !.role = "completion", !.ref = "r1", !.name = "bank shop"] }

EmailContents ==
  { [Email EXCEPT !.ref = "r1", !.name = "bank shop", !.balance = 80],
    [Email EXCEPT !.at = 605, !.balance = 90, !.acct = "x"],
    [Email EXCEPT !.at = 611, !.received = TRUE, !.ref = "r", !.name = "mine", !.label = TRUE],
    [Email EXCEPT !.ref = "r1", !.name = "my label", !.label = TRUE],
    [Email EXCEPT !.at = 610, !.type = "amb", !.name = "shop"],
    [Email EXCEPT !.amount = 2, !.ref = "r1", !.by = "none"],
    [Email EXCEPT !.by = "card", !.card = "c"],
    [Email EXCEPT !.role = "completion", !.ref = "r1"] }

AllContents == SmsContents \cup EmailContents
NamePairs == {<<"shop", "bank shop">>}
RefPairs == {<<"r", "r1">>}

AlertSymmetry == Permutations(Alerts)

-----------------------------------------------------------------------------
\* The repair: an SMS of a short reference a day before the statement's line and
\* one without, of which two show up; statements of two lines a name apart, of
\* one referenced line, and of one that an old parser reads as two.

Line == [day |-> 2, amt |-> 5, dir |-> "debit", ref |-> NoRef, party |-> "A", text |-> "t", upi |-> FALSE]
Referenced == [Line EXCEPT !.ref = "ref"]
Misread == <<Referenced, [Line EXCEPT !.day = 4]>>
PlainRow ==
  [day |-> 2, amt |-> 5, dir |-> "debit", ref |-> NoRef, name |-> "generic", text |-> "notext",
   upi |-> FALSE, shot |-> FALSE, voided |-> FALSE, stmt |-> FALSE, made |-> "alert", upload |-> Null]

Readings == {<<Line, [Line EXCEPT !.party = "B"]>>, <<Referenced>>, Misread}
Upgraded == {<<Misread, <<Referenced>>>>}
OwnKeys == [r \in {NoRef, "ref", "f"} |-> r]
Starts == {<<"f", "ref">>}
Slots == "sms1" :> "sms" @@ "sms2" :> "sms" @@ "mail" :> "mail"
Posted == "sms1" :> PlainRow @@ "sms2" :> [PlainRow EXCEPT !.day = 1, !.ref = "f"]
            @@ "mail" :> [PlainRow EXCEPT !.day = 3]
Nothing == {}

-----------------------------------------------------------------------------
NoAlerts ==
  /\ message = [a \in Alerts |-> Plain] /\ rows = <<>>
  /\ state = [a \in Alerts |-> "unseen"] /\ link = [a \in Alerts |-> None]
NoRepair == RepairInit /\ sheet = <<Referenced>>

MCInit ==
  \/ scene = "alerts" /\ Init /\ NoRepair
  \/ scene = "repair" /\ NoAlerts /\ RepairInit

MCNext ==
  /\ UNCHANGED scene
  /\ \/ scene = "alerts" /\ Next /\ UNCHANGED <<bankVars, repairVars>>
     \/ scene = "repair" /\ RepairNext /\ UNCHANGED vars

MCSpec == MCInit /\ [][MCNext]_<<vars, scene, bankVars, repairVars>>

=============================================================================
