-------------------------- MODULE MCTelegramOutbox --------------------------
(* Small instances of the outbox: two messages of one assistant turn, and    *)
(* one prompt of a category review decision.                                 *)
EXTENDS TelegramOutbox, TLC

CONSTANTS m1, m2, t1, d1, w1, w2

TurnOwner == (m1 :> t1) @@ (m2 :> t1)
OneTurnOwner == (m1 :> t1)
MixedOwner == (m1 :> t1) @@ (m2 :> d1)

Senders2 == Permutations(Workers)
=============================================================================
