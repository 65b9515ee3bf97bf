-------------------------------- MODULE App --------------------------------
(***************************************************************************)
(* app (src/app.go) with the part of main (src/main.go) and of the watcher *)
(* (src/watcher.go) that calls it: how reload, poolHealthChecker and the   *)
(* shutdown drive poolManager and workerManager.                           *)
(*                                                                         *)
(* Three goroutines act here: main (first reload, then the shutdown), the  *)
(* watcher (every later reload) and poolHealthChecker. reloadMu keeps the  *)
(* two callers of reload apart; stateMu makes applyConfig + reconcile and  *)
(* commitReconnect + reconcile one transition each. a.mu protects single   *)
(* reads and writes and needs no variable.                                 *)
(***************************************************************************)
EXTENDS PoolManager, WorkerManager

CONSTANTS
    Configs,    \* what loadConfig may return, validated and sanitized
    MaxReloads  \* bound: how many reloads get as far as a new revision

ASSUME ConfigsAreWellFormed ==
    /\ Configs \subseteq {c \in Config : WellFormed(c)}
    /\ MaxReloads \in Nat

VARIABLES
    mainPc,      \* main: starting (in its reload), serving, joining, stopped
    watcherPc,   \* watchConfig: select, calling (reload), exited
    reloadMu,    \* who is inside reload, or free
    stateMu,     \* whose transition is in progress, or free
    revision,    \* a.revision
    defaultDB,   \* a.defaultDB
    reloadPc,    \* how far reload has come
    newCfg,      \* reload's newCfg; afterwards the last one it loaded
    dialed,      \* what applyConfig has dialled and not committed
    toClose,     \* reload's toClose
    partial,     \* reload: what was counted under stateMu is not flawless
    result,      \* label of the last app_config_reload_total increment
    checkerPc,   \* how far poolHealthChecker has come
    snapRev,     \* poolHealthChecker's rev
    snapFailed,  \* poolHealthChecker's failed, less what it has tried
    attempt,     \* the database it has dialled
    attemptDB,   \* what that dial returned
    oldPool,     \* the pool commitReconnect has replaced
    invariantViolated \* app_internal_invariant_violations_total > 0

reloadVars  == <<reloadMu, reloadPc, newCfg, dialed, toClose, partial, result>>
checkerVars == <<checkerPc, snapRev, snapFailed, attempt, attemptDB, oldPool,
                 invariantViolated>>
threadVars  == <<mainPc, watcherPc>>
sharedVars  == <<stateMu, revision, defaultDB>>
appVars     == <<reloadVars, checkerVars, threadVars, sharedVars>>
vars        == <<appVars, pmVars, wmVars>>

NothingDialed == [d \in DB |-> NoHandle]
NothingFailed == [d \in DB |-> NoConfig]

EmptyConfig == [dbs       |-> [d \in DB |-> NoConfig],
                queries   |-> [n \in Query |-> NoQuery],
                defaultDB |-> NoDB,
                flawed    |-> FALSE]

Init ==
    /\ PMInit /\ WMInit
    /\ mainPc = "starting" /\ watcherPc = "select"
    /\ reloadMu = "free" /\ stateMu = "free"
    /\ revision = 0 /\ defaultDB = NoDB
    /\ reloadPc = "none" /\ newCfg = EmptyConfig
    /\ dialed = NothingDialed /\ toClose = {}
    /\ partial = FALSE /\ result = "none"
    /\ checkerPc = "select" /\ snapRev = 0 /\ snapFailed = NothingFailed
    /\ attempt = NoDB /\ attemptDB = NoHandle /\ oldPool = NoHandle
    /\ invariantViolated = FALSE

AppTypeOK ==
    /\ mainPc \in {"starting", "serving", "joining", "stopped"}
    /\ watcherPc \in {"select", "calling", "exited"}
    /\ reloadMu \in {"free", "main", "watcher"}
    /\ stateMu \in {"free", "reload", "reconnect"}
    /\ revision \in Nat
    /\ defaultDB \in DB \cup {NoDB}
    /\ reloadPc \in {"none", "loaded", "dialled", "reconciling", "closing"}
    /\ newCfg \in Config
    /\ dialed \in [DB -> Handle \cup {NoHandle}]
    /\ toClose \subseteq Handle
    /\ partial \in BOOLEAN
    /\ result \in {"none", "rejected", "success", "partial_success"}
    /\ checkerPc \in {"select", "dialling", "dialled", "reconciling",
                      "closing", "exited"}
    /\ snapRev \in Nat
    /\ snapFailed \in [DB -> DBConfig \cup {NoConfig}]
    /\ attempt \in DB \cup {NoDB}
    /\ attemptDB \in Handle \cup {NoHandle}
    /\ oldPool \in Handle \cup {NoHandle}
    /\ invariantViolated \in BOOLEAN

-----------------------------------------------------------------------------
(* The callers of reload                                                   *)

(***************************************************************************)
(* The watcher's debounce timer fires and the context is not done yet. The *)
(* bound leaves main its own reload.                                       *)
(***************************************************************************)
WatcherTrigger ==
    /\ watcherPc = "select" /\ ~ctxDone
    /\ revision + (IF mainPc = "starting" THEN 1 ELSE 0) < MaxReloads
    /\ watcherPc' = "calling"
    /\ UNCHANGED <<mainPc, reloadVars, checkerVars, sharedVars, pmVars, wmVars>>

WatcherExit ==
    /\ watcherPc = "select" /\ ctxDone
    /\ watcherPc' = "exited"
    /\ UNCHANGED <<mainPc, reloadVars, checkerVars, sharedVars, pmVars, wmVars>>

Calling(who) == \/ who = "main"    /\ mainPc = "starting"
                \/ who = "watcher" /\ watcherPc = "calling"

\* main goes on to start poolHealthChecker and to wait for the shutdown.
ReturnTo(who) ==
    /\ mainPc' = IF who = "main" THEN "serving" ELSE mainPc
    /\ watcherPc' = IF who = "watcher" THEN "select" ELSE watcherPc

-----------------------------------------------------------------------------
(* reload                                                                  *)

(***************************************************************************)
(* load_error and invalid_config: nothing but the counter changes.         *)
(***************************************************************************)
ReloadReject(who) ==
    /\ reloadMu = "free" /\ Calling(who)
    /\ result' = "rejected"
    /\ ReturnTo(who)
    /\ UNCHANGED <<reloadMu, reloadPc, newCfg, dialed, toClose, partial,
                   checkerVars, sharedVars, pmVars, wmVars>>

ReloadLoad(who, cfg) ==
    /\ reloadMu = "free" /\ Calling(who)
    /\ reloadMu' = who
    /\ reloadPc' = "loaded"
    /\ newCfg' = cfg
    /\ UNCHANGED <<dialed, toClose, partial, result, checkerVars, threadVars,
                   sharedVars, pmVars, wmVars>>

(***************************************************************************)
(* stateMu.Lock, revision++ and the dials of applyConfig, which change     *)
(* nothing that others see: ok is the set of databases that answered. With *)
(* the context done no dial succeeds.                                      *)
(***************************************************************************)
ReloadDial(ok) ==
    /\ reloadPc = "loaded" /\ stateMu = "free"
    /\ ok \subseteq ToDial(newCfg.dbs)
    /\ ctxDone => ok = {}
    /\ stateMu' = "reload"
    /\ revision' = revision + 1
    /\ reloadPc' = "dialled"
    /\ Dial(ok)
    /\ dialed' = [d \in DB |-> IF d \in ok THEN NextHandle(d) ELSE NoHandle]
    /\ UNCHANGED <<pools, failedPools, pmRevision, defaultDB, reloadMu, newCfg,
                   toClose, partial, result, checkerVars, threadVars, wmVars>>

(***************************************************************************)
(* The commit of applyConfig, the settings, and the start of reconcile.    *)
(***************************************************************************)
ReloadCommit ==
    /\ reloadPc = "dialled"
    /\ ApplyConfig(revision, newCfg.dbs, dialed)
    /\ toClose' = Replaced(newCfg.dbs, dialed)
    /\ dialed' = NothingDialed
    /\ defaultDB' = newCfg.defaultDB
    /\ ReconcileBegin(revision, newCfg.queries)
    /\ reloadPc' = "reconciling"
    /\ UNCHANGED <<revision, stateMu, reloadMu, newCfg, partial, result,
                   checkerVars, threadVars>>

ReloadUnlock ==
    /\ reloadPc = "reconciling" /\ ReconcileDone
    /\ partial' = (newCfg.flawed \/ stats.pending \/ stats.conflicts)
    /\ stateMu' = "free"
    /\ reloadPc' = "closing"
    /\ UNCHANGED <<revision, defaultDB, reloadMu, newCfg, dialed, toClose,
                   result, checkerVars, threadVars, pmVars, wmVars>>

(***************************************************************************)
(* closePools, then the result: pendingDBs is read after stateMu was       *)
(* released.                                                               *)
(***************************************************************************)
ReloadClose ==
    /\ reloadPc = "closing"
    /\ ClosePools(toClose)
    /\ toClose' = {}
    /\ result' = IF partial \/ PendingDBs # {} THEN "partial_success"
                                               ELSE "success"
    /\ partial' = FALSE
    /\ reloadPc' = "none"
    /\ reloadMu' = "free"
    /\ ReturnTo(reloadMu)
    /\ UNCHANGED <<newCfg, dialed, checkerVars, sharedVars, wmVars>>

-----------------------------------------------------------------------------
(* poolHealthChecker                                                       *)

\* Fault: a database that still has its old pool is not tried again.
ReconnectTickWithoutPool ==
    /\ mainPc # "starting" /\ checkerPc = "select"
    /\ PendingDBs # {}
    /\ checkerPc' = "dialling"
    /\ snapRev' = pmRevision
    /\ snapFailed' = [d \in DB |-> IF pools[d] = NoPool THEN failedPools[d]
                                               ELSE NoConfig]
    /\ UNCHANGED <<attempt, attemptDB, oldPool, invariantViolated, reloadVars,
                   threadVars, sharedVars, pmVars, wmVars>>

ReconnectTick ==
    /\ mainPc # "starting" /\ checkerPc = "select"
    /\ PendingDBs # {}
    /\ checkerPc' = "dialling"
    /\ snapRev' = pmRevision
    /\ snapFailed' = failedPools
    /\ UNCHANGED <<attempt, attemptDB, oldPool, invariantViolated, reloadVars,
                   threadVars, sharedVars, pmVars, wmVars>>

ReconnectDialFail(d) ==
    /\ checkerPc = "dialling" /\ snapFailed[d] # NoConfig
    /\ snapFailed' = [snapFailed EXCEPT ![d] = NoConfig]
    /\ UNCHANGED <<checkerPc, snapRev, attempt, attemptDB, oldPool,
                   invariantViolated, reloadVars, threadVars, sharedVars,
                   pmVars, wmVars>>

ReconnectDialOk(d) ==
    /\ checkerPc = "dialling" /\ snapFailed[d] # NoConfig
    /\ ~ctxDone
    /\ Dial({d})
    /\ attempt' = d
    /\ attemptDB' = NextHandle(d)
    /\ checkerPc' = "dialled"
    /\ UNCHANGED <<snapRev, snapFailed, oldPool, invariantViolated, reloadVars,
                   threadVars, sharedVars, pools, failedPools, pmRevision,
                   wmVars>>

\* Fault: the result is not compared with the state it was dialled for.
IsFreshAlways == TRUE

\* Both checks that poolHealthChecker makes once it holds stateMu.
IsFresh ==
    /\ lastQueriesRevision = snapRev
    /\ CanCommit(attempt, snapFailed[attempt], snapRev)

\* The next database of the same tick.
ReconnectNext ==
    /\ snapFailed' = [snapFailed EXCEPT ![attempt] = NoConfig]
    /\ attempt' = NoDB
    /\ attemptDB' = NoHandle

(***************************************************************************)
(* A revision mismatch or a stale result: the lock is taken and released,  *)
(* and the new connection is closed. The mismatch check comes first.       *)
(***************************************************************************)
ReconnectDiscard ==
    /\ checkerPc = "dialled" /\ stateMu = "free"
    /\ ~IsFresh
    /\ invariantViolated' = (invariantViolated \/ lastQueriesRevision # snapRev)
    /\ ClosePools({attemptDB})
    /\ ReconnectNext
    /\ checkerPc' = "dialling"
    /\ UNCHANGED <<snapRev, oldPool, reloadVars, threadVars, sharedVars, wmVars>>

\* Fault: the workers are left for the next reload to start.
ReconnectCommitOnly ==
    /\ checkerPc = "dialled" /\ stateMu = "free"
    /\ IsFresh
    /\ stateMu' = "reconnect"
    /\ CommitReconnect(attempt, snapFailed[attempt], attemptDB)
    /\ oldPool' = IF pools[attempt] = NoPool THEN NoHandle ELSE pools[attempt].db
    /\ ReconnectNext
    /\ checkerPc' = "reconciling"
    /\ UNCHANGED <<snapRev, invariantViolated, revision, defaultDB, reloadVars,
                   threadVars, wmVars>>

ReconnectCommit ==
    /\ checkerPc = "dialled" /\ stateMu = "free"
    /\ IsFresh
    /\ stateMu' = "reconnect"
    /\ CommitReconnect(attempt, snapFailed[attempt], attemptDB)
    /\ oldPool' = IF pools[attempt] = NoPool THEN NoHandle ELSE pools[attempt].db
    /\ ReconcileBegin(lastQueriesRevision, lastQueries)
    /\ ReconnectNext
    /\ checkerPc' = "reconciling"
    /\ UNCHANGED <<snapRev, invariantViolated, revision, defaultDB, reloadVars,
                   threadVars>>

ReconnectUnlock ==
    /\ checkerPc = "reconciling" /\ ReconcileDone
    /\ stateMu' = "free"
    /\ checkerPc' = "closing"
    /\ UNCHANGED <<snapRev, snapFailed, attempt, attemptDB, oldPool,
                   invariantViolated, revision, defaultDB, reloadVars,
                   threadVars, pmVars, wmVars>>

ReconnectClose ==
    /\ checkerPc = "closing"
    /\ ClosePools({oldPool})
    /\ oldPool' = NoHandle
    /\ checkerPc' = "dialling"
    /\ UNCHANGED <<snapRev, snapFailed, attempt, attemptDB, invariantViolated,
                   reloadVars, threadVars, sharedVars, wmVars>>

ReconnectDone ==
    /\ checkerPc = "dialling" /\ snapFailed = NothingFailed
    /\ checkerPc' = "select"
    /\ snapRev' = 0
    /\ UNCHANGED <<snapFailed, attempt, attemptDB, oldPool, invariantViolated,
                   reloadVars, threadVars, sharedVars, pmVars, wmVars>>

\* Fault: the context is looked at only when nothing is left to reconnect.
ReconnectExitWhenHealed ==
    /\ mainPc # "starting" /\ checkerPc = "select" /\ ctxDone
    /\ PendingDBs = {}
    /\ checkerPc' = "exited"
    /\ UNCHANGED <<snapRev, snapFailed, attempt, attemptDB, oldPool,
                   invariantViolated, reloadVars, threadVars, sharedVars,
                   pmVars, wmVars>>

ReconnectExit ==
    /\ mainPc # "starting" /\ checkerPc = "select" /\ ctxDone
    /\ checkerPc' = "exited"
    /\ UNCHANGED <<snapRev, snapFailed, attempt, attemptDB, oldPool,
                   invariantViolated, reloadVars, threadVars, sharedVars,
                   pmVars, wmVars>>

-----------------------------------------------------------------------------
(* reconcile, inside either transition: its arguments are read under       *)
(* stateMu and cannot change before it is released.                        *)

Snap == [pools |-> pools, pending |-> PendingDBs, defaultDB |-> defaultDB]

Reconciling == reloadPc = "reconciling" \/ checkerPc = "reconciling"

Reconcile(step) == Reconciling /\ step /\ UNCHANGED <<appVars, pmVars>>

ReconcileStep ==
    \/ \E n \in Query : \/ Reconcile(ReconcileLeave(n, Snap))
                        \/ Reconcile(ReconcileStart(n, Snap))
                        \/ Reconcile(ReconcileRestart(n, Snap))
                        \/ Reconcile(ReconcileStop(n, Snap))
                        \/ Reconcile(ReconcileRemove(n))
    \/ Reconcile(ReconcileJoin)

-----------------------------------------------------------------------------
(* The workers' own steps and the shutdown                                 *)

Tick(g)   == WorkerTick(g)   /\ UNCHANGED <<appVars, pmVars>>
Finish(g) == WorkerFinish(g) /\ UNCHANGED <<appVars, pmVars>>
Exit(g)   == WorkerExit(g)   /\ UNCHANGED <<appVars, pmVars>>

(***************************************************************************)
(* SIGTERM or SIGINT, or the metrics server failed to listen.              *)
(***************************************************************************)
Shutdown == CancelContext /\ UNCHANGED <<appVars, pmVars>>

(***************************************************************************)
(* bgWG.Wait returned; stopAll cancels every worker.                       *)
(***************************************************************************)
StopAll ==
    /\ mainPc = "serving" /\ ctxDone
    /\ watcherPc = "exited" /\ checkerPc = "exited"
    /\ mainPc' = "joining"
    /\ goroutines' = AllCancelled
    /\ UNCHANGED <<watcherPc, reloadVars, checkerVars, sharedVars, pmVars,
                   ctxDone, workers, lastQueries, lastQueriesRevision,
                   recTodo, recWait, recThen, stats>>

(***************************************************************************)
(* stopAll has waited for every worker; closeAll closes the current pools. *)
(***************************************************************************)
CloseAll ==
    /\ mainPc = "joining"
    /\ \A n \in Query : Running(n) => Joined(n)
    /\ mainPc' = "stopped"
    /\ ClosePools(PoolHandles)
    /\ UNCHANGED <<watcherPc, reloadVars, checkerVars, sharedVars, wmVars>>

Terminated == mainPc = "stopped" /\ UNCHANGED vars

-----------------------------------------------------------------------------
ReloadStep ==
    \/ \E ok \in SUBSET DB : ReloadDial(ok)
    \/ ReloadCommit \/ ReloadUnlock \/ ReloadClose

ReloadStart ==
    \E who \in {"main", "watcher"} :
        ReloadReject(who) \/ \E cfg \in Configs : ReloadLoad(who, cfg)

ReconnectDial == \E d \in DB : ReconnectDialFail(d) \/ ReconnectDialOk(d)

ReconnectLock == ReconnectDiscard \/ ReconnectCommit

ReconnectStep ==
    \/ ReconnectTick \/ ReconnectDial \/ ReconnectLock
    \/ ReconnectUnlock \/ ReconnectClose \/ ReconnectDone \/ ReconnectExit

WorkerStep == \E g \in goroutines : Tick(g) \/ Finish(g) \/ Exit(g)

MainStep == StopAll \/ CloseAll

Next ==
    \/ ReloadStart \/ ReloadStep
    \/ ReconnectStep
    \/ ReconcileStep
    \/ WorkerStep
    \/ WatcherTrigger \/ WatcherExit
    \/ Shutdown \/ MainStep
    \/ Terminated

Spec == Init /\ [][Next]_vars
=============================================================================
