----------------------------- MODULE PaisaWorld -----------------------------
(***************************************************************************)
(* What the automatic coordinator and the manual Paisa operations share:   *)
(* the database (the sync-state row, the core data the projection reads,   *)
(* the saved settings), the settings cache of the process, the include     *)
(* file, the Paisa instance that loads it, and the stage each operation    *)
(* has reached.  Each transaction, file replacement or network exchange is *)
(* one step, so operations interleave at every await.                      *)
(*                                                                         *)
(* Time is left to PaisaSchedule: here every stored instant is Stamp and a *)
(* reader's clock shows any instant up to the longest window, so any       *)
(* window may or may not have elapsed when it is looked at.                *)
(***************************************************************************)
EXTENDS PaisaSyncState, FiniteSets

CONSTANTS
  Coordinators,    \* PaisaCoordinator tasks (one per application process)
  Syncs,           \* manual sync requests, each served once
  Generators,      \* manual generate requests, each served once
  Configs,         \* values the paisa.* settings can take, of which ...
  ProjectConfigs,  \* ... these have mode = project (can_project),
  ReadyConfigs,    \* ... these also pass ready_to_project and have a path,
  AutoConfigs,     \* ... and these have paisa.auto_sync_enabled
  Layout,          \* what of each config the rendered journal depends on
  Torn,            \* a projection whose reads straddled a commit
  Faults,          \* the misbehaviours of the environment this instance has
  MaxData,         \* bound: versions of the core data
  MaxRevision,     \* bound: committed writes
  MaxMishaps       \* bound: failures injected in one behaviour

ASSUME WorldAssumption ==
  /\ ReadyConfigs \subseteq ProjectConfigs
  /\ ProjectConfigs \subseteq Configs
  /\ AutoConfigs \subseteq Configs
  /\ DOMAIN Layout = Configs
  /\ Coordinators \intersect Syncs = {}
  /\ Coordinators \intersect Generators = {}
  /\ Syncs \intersect Generators = {}
  /\ MaxData \in Nat
  /\ MaxRevision \in Nat \ {0}
  /\ MaxMishaps \in Nat
  /\ Faults \subseteq {"revert", "ambiguous_post", "crash", "interrupt",
                       "lease_expiry", "cache_lag"}

Procs == Coordinators \union Syncs \union Generators

ASSUME ProcAssumption == Null \notin Procs

VARIABLES
  row,      \* the committed extension_sync_state row
  data,     \* version of the core tables the projection reads
  config,   \* committed paisa.* settings
  cache,    \* settings._cache, what load_config reads
  file,     \* content of the generated include file, Null if absent
  remote,   \* content Paisa has loaded, Null before the first reload
  pc,       \* stage each operation has reached
  run,      \* what each operation keeps in its local variables
  mishaps   \* failures injected so far

vars == <<row, data, config, cache, file, remote, pc, run, mishaps>>
dbVars == <<data, config, cache>>

-----------------------------------------------------------------------------
Stamp == 0
ClockReadings == 0 .. ForceReloadInterval

(* The journal rendered from the core data under a config; its hash is     *)
(* taken to identify it.                                                   *)
Layouts == {Layout[c] : c \in Configs}
Render(d, c) == <<d, Layout[c]>>
Contents == ((0 .. MaxData) \X Layouts) \union {Torn}
Current == Render(data, config)

ASSUME ContentAssumption ==
  /\ Null \notin Contents
  /\ Torn \notin (0 .. MaxData) \X Layouts

Outcomes == Diagnoses \union {"guard", "failed"}

NoRun == [guard |-> 0, target |-> 0, seen |-> 0, force |-> FALSE, hash |-> Null,
          cfg |-> Null, outcome |-> Null]

Started(p) == IF p \in Coordinators THEN "idle" ELSE "request"
Ended(p)   == IF p \in Coordinators THEN "idle" ELSE "done"

(* Stages in which an operation has claimed the lease and not released it. *)
Working == {"preflight", "guard", "capture", "generate", "publish", "decide",
            "noop", "post", "accepted", "diagnose", "fail", "finish", "release"}
Stages == Working \union {"idle", "config", "claim", "request", "done"}

Goto(p, stage) == pc' = [pc EXCEPT ![p] = stage]
Finish(p) == /\ Goto(p, Ended(p))
             /\ run' = [run EXCEPT ![p] = NoRun]

Mishap == /\ mishaps < MaxMishaps
          /\ mishaps' = mishaps + 1

WorldInit ==
  /\ row = Seed(Stamp)
  /\ data = 0
  /\ config \in Configs
  /\ cache = config
  /\ file = Null
  /\ remote = Null
  /\ pc = [p \in Procs |-> Started(p)]
  /\ run = [p \in Procs |-> NoRun]
  /\ mishaps = 0

-----------------------------------------------------------------------------
(* The rest of the dashboard and Paisa itself.                             *)

(* A committed write to a core table.  It need not change what is          *)
(* projected; with "revert" it may restore an earlier content.             *)
CoreWrite ==
  /\ row.desired_revision < MaxRevision
  /\ data' \in IF "revert" \in Faults THEN 0 .. MaxData
                                      ELSE {data, data + 1} \intersect (0 .. MaxData)
  /\ row' = Bump(row, Stamp)
  /\ UNCHANGED <<config, cache, file, remote, pc, run, mishaps>>

(* save_settings commits, and only then updates the cache.  One save at a  *)
(* time; without "cache_lag" nothing runs between the two.                 *)
SaveSettings ==
  /\ row.desired_revision < MaxRevision
  /\ cache = config
  /\ config' \in Configs \ {cache}
  /\ cache' \in {config'} \union (IF "cache_lag" \in Faults THEN {cache} ELSE {})
  /\ row' = BumpSettings(row, Stamp)
  /\ UNCHANGED <<data, file, remote, pc, run, mishaps>>

UpdateCache ==
  /\ cache # config
  /\ cache' = config
  /\ UNCHANGED <<row, data, config, file, remote, pc, run, mishaps>>

(* The process dies and restarts: local state goes, the row, the file and  *)
(* Paisa stay, the cache is reloaded.  Open requests are not retried.      *)
Crash ==
  /\ "crash" \in Faults
  /\ Mishap
  /\ pc' = [p \in Procs |-> IF pc[p] = "request" THEN "request" ELSE Ended(p)]
  /\ run' = [p \in Procs |-> NoRun]
  /\ cache' = config
  /\ UNCHANGED <<row, data, config, file, remote>>

Environment == CoreWrite \/ SaveSettings \/ UpdateCache \/ Crash

-----------------------------------------------------------------------------
(* Steps every operation has.                                              *)

(* A lease outlives its TTL once its holder is gone.  A working holder     *)
(* renews it every 20 s, so it loses it only if its heartbeats fail.       *)
HolderWorking == row.lease_token \in Procs /\ pc[row.lease_token] \in Working

ClaimInstants ==
  {Stamp} \union (IF HolderWorking /\ "lease_expiry" \notin Faults
                    THEN {} ELSE {LeaseTTL + 1})

ClaimWins(p, next) ==
  /\ pc[p] = "claim"
  /\ \E now \in ClaimInstants : CanClaim(row, now)
  /\ row' = ClaimLease(row, p, Stamp)
  /\ Goto(p, next)
  /\ UNCHANGED <<dbVars, file, remote, run, mishaps>>

ClaimLoses(p) ==
  /\ pc[p] = "claim"
  /\ ~ CanClaim(row, Stamp)
  /\ Finish(p)
  /\ UNCHANGED <<row, dbVars, file, remote, mishaps>>

(* What project() can return: the current data, or a mixture if the data   *)
(* changed since the operation started to read (its SELECTs run one by     *)
(* one, outside any transaction).                                          *)
Projections(p) ==
  {Render(data, run[p].cfg)} \union (IF run[p].seen = data THEN {} ELSE {Torn})

(* generate(): project, then replace the file.  No lease guards the file.  *)
Publish(p, next) ==
  \E content \in Projections(p) :
    /\ file' = content
    /\ run' = [run EXCEPT ![p].hash = content]
    /\ Goto(p, next)
    /\ UNCHANGED <<row, dbVars, remote, mishaps>>

(* POST /api/sync and the diagnosis that follows.  Paisa loads the file as *)
(* it is on disk when the request arrives.                                 *)
PostAccepted(p, next) ==
  /\ pc[p] = "post"
  /\ remote' = file
  /\ \E state \in Diagnoses : run' = [run EXCEPT ![p].outcome = state]
  /\ Goto(p, next)
  /\ UNCHANGED <<row, dbVars, file, mishaps>>

(* Rejected, unreachable, or the answer was lost after Paisa had loaded.   *)
PostFailed(p, next) ==
  /\ pc[p] = "post"
  /\ Mishap
  /\ remote' \in {remote} \union (IF "ambiguous_post" \in Faults THEN {file} ELSE {})
  /\ run' = [run EXCEPT ![p].outcome = "failed"]
  /\ Goto(p, next)
  /\ UNCHANGED <<row, dbVars, file>>

(* The attempt times out, or a stage raises: nothing more is recorded.     *)
Interrupt(p) ==
  /\ "interrupt" \in Faults
  /\ pc[p] \in Working \ {"release"}
  /\ Mishap
  /\ Goto(p, "release")
  /\ UNCHANGED <<row, dbVars, file, remote, run>>

(* The finally block: heartbeats stop, then the token-guarded release.     *)
Release(p) ==
  /\ pc[p] = "release"
  /\ row' = ReleaseLease(row, p)
  /\ Finish(p)
  /\ UNCHANGED <<dbVars, file, remote, mishaps>>

-----------------------------------------------------------------------------
RowType ==
  [ desired_revision       : 1 .. MaxRevision,
    applied_revision       : 0 .. MaxRevision,
    first_dirty_at         : {Null, Stamp},
    last_dirty_at          : {Null, Stamp},
    last_remote_hash       : Contents \union {Null},
    last_remote_attempt_at : {Null, Stamp},
    next_attempt_at        : Nat \union {Null},
    failure_count          : Nat,
    force_reload           : BOOLEAN,
    lease_token            : Procs \union {Null},
    lease_expires_at       : {Null, LeaseTTL} ]

RunType ==
  [ guard   : 0 .. MaxRevision,
    target  : 0 .. MaxRevision,
    seen    : 0 .. MaxData,
    force   : BOOLEAN,
    hash    : Contents \union {Null},
    cfg     : Configs \union {Null},
    outcome : Outcomes \union {Null} ]

(* Types, the table's CHECK (applied <= desired), and that an operation    *)
(* that is about to project has loaded a config.                           *)
TypeOK ==
  /\ row \in RowType
  /\ row.applied_revision <= row.desired_revision
  /\ data \in 0 .. MaxData
  /\ config \in Configs
  /\ cache \in Configs
  /\ file \in Contents \union {Null}
  /\ remote \in Contents \union {Null}
  /\ pc \in [Procs -> Stages]
  /\ run \in [Procs -> RunType]
  /\ mishaps \in 0 .. MaxMishaps
  /\ \A p \in Procs : pc[p] = "generate" => run[p].cfg \in Configs
  /\ \A c \in Coordinators :
       pc[c] \in {"claim", "preflight", "capture"} => run[c].cfg \in Configs
=============================================================================
