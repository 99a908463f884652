---------------------------- MODULE OutboxPromise ----------------------------
(* What the outbox promises about each message, without leases, claims,      *)
(* retries or sessions: it is recorded delivered only if Telegram has shown  *)
(* it, a dropped message may still turn out to be delivered, and neither a   *)
(* delivered nor a withdrawn message changes again.                          *)
EXTENDS Naturals

CONSTANT Messages
VARIABLES fate, shown

Init ==
  /\ fate = [m \in Messages |-> "waiting"]
  /\ shown = [m \in Messages |-> 0]

Show(m) ==
  /\ shown' = [shown EXCEPT ![m] = @ + 1]
  /\ UNCHANGED fate

Deliver(m) ==
  /\ fate[m] \in {"waiting", "dropped"}
  /\ shown[m] > 0
  /\ fate' = [fate EXCEPT ![m] = "delivered"]
  /\ UNCHANGED shown

\* Given up (dropped) or taken back (withdrawn), several at a time.
GiveUp(S, f) ==
  /\ \A m \in S : fate[m] = "waiting" \/ (fate[m] = "dropped" /\ f = "withdrawn")
  /\ fate' = [m \in Messages |-> IF m \in S THEN f ELSE fate[m]]
  /\ UNCHANGED shown

Next ==
  \/ \E m \in Messages : Show(m) \/ Deliver(m)
  \/ \E S \in SUBSET Messages, f \in {"dropped", "withdrawn"} : GiveUp(S, f)

Spec == Init /\ [][Next]_<<fate, shown>>
=============================================================================
