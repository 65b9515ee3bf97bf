----------------------------- MODULE PoolMetrics -----------------------------
(***************************************************************************)
(* The gauges about databases (src/metrics.go) and everything that writes  *)
(* them (src/pool_manager.go): reload and poolHealthChecker publish what   *)
(* they have committed, reload deletes the series of what left the config, *)
(* and two loops, metricsUpdater and activeHealthCheck, publish what they  *)
(* observe. The loops hold no lock while they observe and none while they  *)
(* publish; in between isCurrentPool asks whether the pool is still the    *)
(* current one.                                                            *)
(*                                                                         *)
(* Of reload and poolHealthChecker this module keeps what the gauges       *)
(* depend on: the commit with its dials is one step, workers and rejected  *)
(* or stale attempts, which write no gauge, are left to module App.        *)
(***************************************************************************)
EXTENDS PoolManager

CONSTANTS
    Wanted,      \* the values of Config.Databases that a reload may bring
    MaxReloads,  \* bound: how many reloads are committed
    NoSeries     \* the label value has no series

ASSUME WantedAreDatabases ==
    /\ Wanted \subseteq [DB -> DBConfig \cup {NoConfig}]
    /\ MaxReloads \in Nat
    /\ NoSeries \notin Handle \cup {0, 1}

VARIABLES
    ctxDone,          \* pm.ctx was cancelled
    reloadPc,         \* reload: idle, publishing (holds stateMu), closing
    toClose,          \* reload's toClose
    removedDBs,       \* reload's removedDBs
    checkerPc,        \* poolHealthChecker: the same three
    oldPool,          \* the handle that commitReconnect has replaced
    publishPc,        \* what the holder of stateMu publishes next, or done
    dbUp,             \* app_db_up
    dbConfigApplied,  \* app_db_config_applied
    dbPoolStats,      \* app_db_pool_*_connections: whose Stats they show
    answers,          \* the databases whose server answers a ping
    pingFailed,       \* history: the handles whose last health check failed
    obs               \* the two loops

gaugeVars      == <<dbUp, dbConfigApplied, dbPoolStats>>
transitionVars == <<reloadPc, toClose, removedDBs, checkerPc, oldPool, publishPc>>
pingVars       == <<answers, pingFailed>>
vars == <<pmVars, ctxDone, transitionVars, gaugeVars, pingVars, obs>>

Observers == {"metricsUpdater", "activeHealthCheck"}

(***************************************************************************)
(* todo: the rest of the snapshot; db: the one looked at; up: the ping     *)
(* succeeded.                                                              *)
(***************************************************************************)
Observer == [pc   : {"select", "looping", "observed", "checked", "exited"},
             todo : [DB -> Pool \cup {NoPool}],
             db   : DB \cup {NoDB},
             up   : BOOLEAN]

Selecting == [pc |-> "select", todo |-> [d \in DB |-> NoPool],
              db |-> NoDB, up |-> FALSE]

Init ==
    /\ PMInit
    /\ ctxDone = FALSE
    /\ reloadPc = "idle" /\ toClose = {} /\ removedDBs = {}
    /\ checkerPc = "idle" /\ oldPool = NoHandle
    /\ publishPc = "done"
    /\ dbUp = [d \in DB |-> NoSeries]
    /\ dbConfigApplied = [d \in DB |-> NoSeries]
    /\ dbPoolStats = [d \in DB |-> NoSeries]
    /\ answers = DB /\ pingFailed = {}
    /\ obs = [o \in Observers |-> Selecting]

TypeOK ==
    /\ PMTypeOK
    /\ ctxDone \in BOOLEAN
    /\ reloadPc \in {"idle", "publishing", "closing"}
    /\ toClose \subseteq Handle /\ removedDBs \subseteq DB
    /\ checkerPc \in {"idle", "publishing", "closing"}
    /\ oldPool \in Handle \cup {NoHandle}
    /\ publishPc \in {"up", "applied", "pending", "done"}
    /\ dbUp \in [DB -> {0, 1, NoSeries}]
    /\ dbConfigApplied \in [DB -> {0, 1, NoSeries}]
    /\ dbPoolStats \in [DB -> Handle \cup {NoSeries}]
    /\ answers \subseteq DB /\ pingFailed \subseteq Handle
    /\ obs \in [Observers -> Observer]

Pooled   == {d \in DB : pools[d] # NoPool}
KnownDBs == Pooled \cup PendingDBs

StateMuFree == reloadPc # "publishing" /\ checkerPc # "publishing"

-----------------------------------------------------------------------------
(* The transitions                                                         *)

\* Fault: only the pool map is searched for databases that left the config.
RemovedOnlyPooled(dbs) == {d \in Pooled : dbs[d] = NoConfig}

Removed(dbs) == {d \in KnownDBs : dbs[d] = NoConfig}

(***************************************************************************)
(* ok: the databases that answer the dial; a server may be down then.      *)
(***************************************************************************)
Reload(dbs, ok) ==
    /\ reloadPc = "idle" /\ StateMuFree
    /\ pmRevision < MaxReloads
    /\ ok \subseteq ToDial(dbs) \cap (IF ctxDone THEN {} ELSE answers)
    /\ LET rev    == pmRevision + 1
           dialed == [d \in DB |-> IF d \in ok THEN NextHandle(d) ELSE NoHandle]
       IN  /\ Dial(ok)
           /\ pools' = NewPools(rev, dbs, dialed)
           /\ failedPools' = NewFailed(dbs, dialed)
           /\ pmRevision' = rev
           /\ toClose' = Replaced(dbs, dialed)
    /\ removedDBs' = Removed(dbs)
    /\ reloadPc' = "publishing" /\ publishPc' = "up"
    /\ UNCHANGED <<ctxDone, checkerPc, oldPool, gaugeVars, pingVars, obs>>

Reconnect(d) ==
    /\ checkerPc = "idle" /\ StateMuFree
    /\ d \in PendingDBs \cap answers /\ ~ctxDone
    /\ Dial({d})
    /\ pools' = [pools EXCEPT ![d] = [cfg |-> failedPools[d],
                                      db |-> NextHandle(d), made |-> pmRevision]]
    /\ failedPools' = [failedPools EXCEPT ![d] = NoConfig]
    /\ oldPool' = IF d \in Pooled THEN pools[d].db ELSE NoHandle
    /\ checkerPc' = "publishing" /\ publishPc' = "up"
    /\ UNCHANGED <<pmRevision, ctxDone, reloadPc, toClose, removedDBs,
                   gaugeVars, pingVars, obs>>

\* updateDBUpMetrics: a pool counts as up whatever config it was made from.
PublishUp ==
    /\ publishPc = "up" /\ publishPc' = "applied"
    /\ dbUp' = [d \in DB |-> IF d \in Pooled THEN 1
                             ELSE IF d \in PendingDBs THEN 0 ELSE dbUp[d]]
    /\ UNCHANGED <<pmVars, ctxDone, reloadPc, toClose, removedDBs, checkerPc,
                   oldPool, dbConfigApplied, dbPoolStats, pingVars, obs>>

(***************************************************************************)
(* updateDBConfigAppliedMetrics: first 1 for every pool, then 0 for what   *)
(* is pending, with or without a pool.                                     *)
(***************************************************************************)
PublishApplied ==
    /\ publishPc = "applied" /\ publishPc' = "pending"
    /\ dbConfigApplied' =
           [d \in DB |-> IF d \in Pooled THEN 1 ELSE dbConfigApplied[d]]
    /\ UNCHANGED <<pmVars, ctxDone, reloadPc, toClose, removedDBs, checkerPc,
                   oldPool, dbUp, dbPoolStats, pingVars, obs>>

SetPending ==
    [d \in DB |-> IF d \in PendingDBs THEN 0 ELSE dbConfigApplied[d]]

\* Afterwards, with the workers reconciled, stateMu is released.
PublishPending ==
    /\ publishPc = "pending" /\ publishPc' = "done"
    /\ dbConfigApplied' = SetPending
    /\ reloadPc' = IF reloadPc = "publishing" THEN "closing" ELSE reloadPc
    /\ checkerPc' = IF checkerPc = "publishing" THEN "closing" ELSE checkerPc
    /\ UNCHANGED <<pmVars, ctxDone, toClose, removedDBs, oldPool, dbUp,
                   dbPoolStats, pingVars, obs>>

Without(gauge, D) == [d \in DB |-> IF d \in D THEN NoSeries ELSE gauge[d]]

\* closePools and deletePoolMetrics.
ReloadClose ==
    /\ reloadPc = "closing" /\ reloadPc' = "idle"
    /\ ClosePools(toClose)
    /\ toClose' = {}
    /\ dbUp' = Without(dbUp, removedDBs)
    /\ dbConfigApplied' = Without(dbConfigApplied, removedDBs)
    /\ dbPoolStats' = Without(dbPoolStats, removedDBs)
    /\ removedDBs' = {}
    /\ UNCHANGED <<ctxDone, checkerPc, oldPool, publishPc, pingVars, obs>>

ReconnectClose ==
    /\ checkerPc = "closing" /\ checkerPc' = "idle"
    /\ ClosePools({oldPool})
    /\ oldPool' = NoHandle
    /\ UNCHANGED <<ctxDone, reloadPc, toClose, removedDBs, publishPc, gaugeVars,
                   pingVars, obs>>

-----------------------------------------------------------------------------
(* metricsUpdater and activeHealthCheck                                    *)

\* The snapshot of one tick.
Observe(o) ==
    /\ obs[o].pc = "select"
    /\ obs' = [obs EXCEPT ![o].pc = "looping", ![o].todo = pools]
    /\ UNCHANGED <<pmVars, ctxDone, transitionVars, gaugeVars, pingVars>>

(***************************************************************************)
(* Stats, or a ping: that one fails if the server does not answer, the     *)
(* pool was closed meanwhile or the context is done.                       *)
(***************************************************************************)
Look(o, d) ==
    /\ obs[o].pc = "looping" /\ obs[o].todo[d] # NoPool
    /\ obs' = [obs EXCEPT
                  ![o].pc = "observed",
                  ![o].db = d,
                  ![o].up = /\ o = "activeHealthCheck"
                            /\ d \in answers /\ ~ctxDone
                            /\ obs[o].todo[d].db \in open]
    /\ UNCHANGED <<pmVars, ctxDone, transitionVars, gaugeVars, pingVars>>

\* The next database of the snapshot.
Passed(o) ==
    [obs EXCEPT ![o].pc = "looping", ![o].todo[obs[o].db] = NoPool,
                ![o].db = NoDB, ![o].up = FALSE]

IsCurrentPool(d, p) == pools[d] = p

Check(o) ==
    /\ obs[o].pc = "observed"
    /\ LET d == obs[o].db
           p == obs[o].todo[d]
       IN  IF IsCurrentPool(d, p)
           THEN /\ obs' = [obs EXCEPT ![o].pc = "checked"]
                /\ pingFailed' =
                       IF o = "metricsUpdater" THEN pingFailed
                       ELSE IF obs[o].up THEN pingFailed \ {p.db}
                       ELSE pingFailed \cup {p.db}
           ELSE /\ obs' = Passed(o)
                /\ UNCHANGED pingFailed
    /\ UNCHANGED <<pmVars, ctxDone, transitionVars, gaugeVars, answers>>

\* Fault: a failed ping is logged and not published.
PublishOnlySuccess(o) ==
    /\ obs[o].pc = "checked"
    /\ LET d == obs[o].db
       IN  IF o = "metricsUpdater"
           THEN /\ dbPoolStats' = [dbPoolStats EXCEPT ![d] = obs[o].todo[d].db]
                /\ UNCHANGED dbUp
           ELSE /\ dbUp' = IF obs[o].up THEN [dbUp EXCEPT ![d] = 1] ELSE dbUp
                /\ UNCHANGED dbPoolStats
    /\ obs' = Passed(o)
    /\ UNCHANGED <<pmVars, ctxDone, transitionVars, dbConfigApplied, pingVars>>

\* Fault: once a database has stats, they are left as they are.
PublishStatsOnce(o) ==
    /\ obs[o].pc = "checked"
    /\ LET d == obs[o].db
       IN  IF o = "metricsUpdater"
           THEN /\ dbPoolStats' = IF dbPoolStats[d] # NoSeries THEN dbPoolStats
                    ELSE [dbPoolStats EXCEPT ![d] = obs[o].todo[d].db]
                /\ UNCHANGED dbUp
           ELSE /\ dbUp' = [dbUp EXCEPT ![d] = IF obs[o].up THEN 1 ELSE 0]
                /\ UNCHANGED dbPoolStats
    /\ obs' = Passed(o)
    /\ UNCHANGED <<pmVars, ctxDone, transitionVars, dbConfigApplied, pingVars>>

Publish(o) ==
    /\ obs[o].pc = "checked"
    /\ LET d == obs[o].db
       IN  IF o = "metricsUpdater"
           THEN /\ dbPoolStats' = [dbPoolStats EXCEPT ![d] = obs[o].todo[d].db]
                /\ UNCHANGED dbUp
           ELSE /\ dbUp' = [dbUp EXCEPT ![d] = IF obs[o].up THEN 1 ELSE 0]
                /\ UNCHANGED dbPoolStats
    /\ obs' = Passed(o)
    /\ UNCHANGED <<pmVars, ctxDone, transitionVars, dbConfigApplied, pingVars>>

LoopDone(o) ==
    /\ obs[o].pc = "looping" /\ \A d \in DB : obs[o].todo[d] = NoPool
    /\ obs' = [obs EXCEPT ![o].pc = "select"]
    /\ UNCHANGED <<pmVars, ctxDone, transitionVars, gaugeVars, pingVars>>

ExitLoop(o) ==
    /\ obs[o].pc = "select" /\ ctxDone
    /\ obs' = [obs EXCEPT ![o].pc = "exited"]
    /\ UNCHANGED <<pmVars, ctxDone, transitionVars, gaugeVars, pingVars>>

ObserverStep(o) ==
    \/ Observe(o) \/ Check(o) \/ Publish(o) \/ LoopDone(o) \/ ExitLoop(o)
    \/ \E d \in DB : Look(o, d)

-----------------------------------------------------------------------------

\* A server stops to answer, or answers again.
ServerChanges(d) ==
    /\ answers' = IF d \in answers THEN answers \ {d} ELSE answers \cup {d}
    /\ UNCHANGED <<pmVars, ctxDone, transitionVars, gaugeVars, pingFailed, obs>>

Shutdown ==
    /\ ~ctxDone /\ ctxDone' = TRUE
    /\ UNCHANGED <<pmVars, transitionVars, gaugeVars, pingVars, obs>>

Next ==
    \/ \E dbs \in Wanted : \E ok \in SUBSET DB : Reload(dbs, ok)
    \/ \E d \in DB : Reconnect(d)
    \/ PublishUp \/ PublishApplied \/ PublishPending
    \/ ReloadClose \/ ReconnectClose
    \/ \E o \in Observers : ObserverStep(o)
    \/ \E d \in DB : ServerChanges(d)
    \/ Shutdown

Spec == Init /\ [][Next]_vars
=============================================================================
