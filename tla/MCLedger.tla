------------------------------ MODULE MCLedger ------------------------------
(* The ledger in one run: how it is written, the scenes of MCTxnIngest, and   *)
(* what is reported of it, the scenes of MCReports.                           *)
EXTENDS MCTxnIngest

CONSTANT Scenes

VARIABLES report, records, snaps, holdings, cas, lots, items, writes, uploads, edits

reported == <<report, records, snaps, holdings, cas, lots, items, writes, uploads, edits>>

Report == INSTANCE MCReports WITH Null <- None, scene <- report, rows <- records

LedgerInit ==
  \/ MCInit /\ report = "none" /\ Report!NoWealth /\ Report!Ledger!RowsInit
  \/ scene = "reports" /\ NoAlerts /\ NoRepair /\ Report!Init

LedgerNext ==
  \/ MCNext /\ UNCHANGED reported
  \/ scene = "reports" /\ Report!Next /\ UNCHANGED <<vars, scene, bankVars, repairVars>>

LedgerSpec == LedgerInit /\ [][LedgerNext]_<<vars, scene, bankVars, repairVars, reported>>

-----------------------------------------------------------------------------
\* PROPERTIES of the reports

(* The figures of the cash report agree with each other, and a complete       *)
(* ledger with truthful statements leaves no gap (Reports).                   *)
FiguresAgree == Report!FiguresAgree /\ Report!NoGapWhenComplete

(* The journal shows every row once and moves every account by it, its       *)
(* portfolios are worth what the net worth counts (Reports), and the trend   *)
(* and the breakdown are the net worth too (NetWorth).                       *)
HoldingsAgree == Report!JournalAgrees /\ Report!WealthAddsUp
=============================================================================
