---------------------------- MODULE MCEmailPoll ----------------------------
(* An account with an old mail, two more to come and two rules, for TLC.     *)
EXTENDS EmailPoll, TLC

\* Mail 1 is older than the margin; mail 2 is wanted by both rules.
OldMail == 1 :> -3
Wanted == 1 :> {1} @@ 2 :> {1, 2} @@ 3 :> {2}
OneRule == 1 :> {1} @@ 2 :> {1} @@ 3 :> {1}
OldMails == 1 :> -3 @@ 2 :> -3

\* A limit that a poll of Gmail reaches; Fastmail's counts known mails too, and
\* is as large as the account.
Limits == "gmail" :> 1 @@ "fastmail" :> 3
=============================================================================
