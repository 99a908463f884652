------------------------------- MODULE MCCore -------------------------------
(* TLC instance of the mirror and, in scenes of their own, of the backups    *)
(* and the start of the service, which share nothing with it: two servers    *)
(* with one setback, or one server with all of them; starts on databases of  *)
(* some versions.                                                            *)
EXTENDS PaisaReconcile, Backups, StartUp

CONSTANTS
  v1, v2,           \* two servers
  Successor         \* the one that is idle in the scene of one server

VARIABLE scene

SmallBackoff == <<3>>

(* The same journal under every config. *)
OneLayout == [c \in Configs |-> "layout"]

\* What the first version has, some later one, and the last.
Versions == {{}, {"category_method_backfill", "plain", "source"}, Columns \cup Changes}

MCInit ==
  /\ scene \in {"mirror", "two servers", "one server", "start up"}
  /\ Init /\ (scene # "mirror" => config = "ready")
  /\ BackupInit
  /\ \E has \in Versions, lots \in {"old", "new"}, state \in {"none", "clean", "dirty"}, unseen \in BOOLEAN :
       /\ unseen => state # "clean"
       /\ scene # "start up" => has = {} /\ lots = "new" /\ state = "none" /\ ~ unseen
       /\ StartsFrom(Version(has, lots, state, unseen))

(* Without a lagging settings cache, which is for MCPaisa: without the fault *)
(* "cache_lag" a save and its cache are one step.                            *)
MirrorScene ==
  /\ scene = "mirror"
  /\ \/ CoreWrite \/ SaveSettings \/ Crash
     \/ \E c \in Coordinators : CoordinatorStep(c)
     \/ \E m \in Syncs : SyncStep(m)
     \/ \E g \in Generators : GenerateStep(g)

BackupScene ==
  /\ scene \in {"two servers", "one server"} /\ BackupNext
  /\ scene = "two servers" => setbacks' < MaxSetbacks
  /\ scene = "one server" => work'[Successor] = Idle

MCNext ==
  \/ MirrorScene /\ UNCHANGED <<scene, backupVars, startVars>>
  \/ BackupScene /\ UNCHANGED <<scene, vars, startVars>>
  \/ scene = "start up" /\ StartNext /\ UNCHANGED <<scene, vars, backupVars>>

MCSpec == MCInit /\ [][MCNext]_<<scene, vars, backupVars, startVars>>
=============================================================================
