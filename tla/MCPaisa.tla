------------------------------- MODULE MCPaisa ------------------------------
(* The two views of auto sync in one run: "race" is PaisaReconcile, whose    *)
(* steps interleave without a clock, "clock" is PaisaSchedule, one           *)
(* coordinator with the windows of time.                                     *)
EXTENDS PaisaReconcile, PaisaSchedule

CONSTANT Scenes

VARIABLE scene

TwoBackoffs == <<3, 5>>

(* The same journal under every config. *)
OneLayout == [c \in Configs |-> "layout"]

OneStart == config = CHOOSE c \in ReadyConfigs : TRUE

MCInit ==
  /\ scene \in Scenes
  /\ Init /\ (scene = "clock" => OneStart)
  /\ ClockInit /\ (scene = "race" => ready)

MCNext ==
  \/ scene = "race" /\ Next /\ UNCHANGED <<scene, clockVars>>
  \/ scene = "clock" /\ ClockNext /\ UNCHANGED <<scene, vars>>

MCSpec == MCInit /\ [][MCNext]_<<scene, vars, clockVars>> /\ Fairness
=============================================================================
