--------------------------- MODULE PaisaReconcile ---------------------------
(***************************************************************************)
(* The automatic coordinator and the manual operations over one database,  *)
(* one include file and one Paisa.                                         *)
(***************************************************************************)
EXTENDS PaisaCoordinator, PaisaManualOps

Init == WorldInit

Next ==
  \/ Environment
  \/ \E c \in Coordinators : CoordinatorStep(c)
  \/ \E m \in Syncs : SyncStep(m)
  \/ \E g \in Generators : GenerateStep(g)

Spec == Init /\ [][Next]_vars

(* The event loop keeps running every task; a lease that is free infinitely *)
(* often is eventually won; nothing is assumed of the environment except    *)
(* that a saved setting reaches the cache.                                  *)
Fairness ==
  /\ WF_vars(UpdateCache)
  /\ \A c \in Coordinators :
       /\ WF_vars(CoordinatorStep(c))
       /\ SF_vars(ClaimWins(c, "preflight"))
  /\ \A m \in Syncs : WF_vars(SyncStep(m))
  /\ \A g \in Generators : WF_vars(GenerateStep(g))

FairSpec == Spec /\ Fairness

-----------------------------------------------------------------------------
(* The lease makes publishing and posting single-flight across the         *)
(* coordinator and the manual operations.                                  *)
SingleFlight ==
  \A p, q \in Procs : pc[p] \in Working /\ pc[q] \in Working => p = q

(* No lost update: when the row says there is nothing left to reconcile    *)
(* and the settings ask for a mirror, Paisa shows the current data under   *)
(* the current settings, whatever raced, crashed or was skipped.           *)
CleanMeansMirrored ==
  (~ Dirty(row) /\ config \in ReadyConfigs) => remote = Current

(* A run whose lease was taken over changes nothing in the row any more:   *)
(* whatever changes the reconcile outcome is done by the current holder.   *)
OnlyHolderCompletes ==
  [][row'.applied_revision # row.applied_revision
       \/ row'.last_remote_hash # row.last_remote_hash
     => \E p \in Procs : Holds(row, p) /\ pc'[p] # pc[p]]_vars

(* Once writes stop, the settings ask for a mirror and Paisa answers, the  *)
(* coordinator catches up and stays caught up.                             *)
EventuallyMirrored ==
  <>[](config \in ReadyConfigs \intersect AutoConfigs)
    => <>[](~ Dirty(row) /\ remote = Current)

-----------------------------------------------------------------------------
(* The mirror that auto sync implements: the dashboard's data under its     *)
(* settings is the source, and a row with nothing left to do is settled.    *)
ToBeShown(source) == source[2] \in ReadyConfigs
Rendered(source)  == Render(source[1], source[2])

Mirror == INSTANCE PaisaMirror WITH
  Sources <- (0 .. MaxData) \X Configs,
  Shown   <- ToBeShown,
  Image   <- Rendered,
  source  <- <<data, config>>,
  mirror  <- remote,
  settled <- ~ Dirty(row)

(* The whole of auto sync implements the mirror: whatever raced, crashed   *)
(* or was skipped, the row is declared clean (coordinator.py, surface.py)  *)
(* only in a state whose content Paisa shows, and every write undoes that. *)
ImplementsMirror == Mirror!MirrorSpec
=============================================================================
