--------------------------- MODULE AppProperties ---------------------------
(***************************************************************************)
(* What app, poolManager and workerManager together promise, stated about  *)
(* module App.                                                             *)
(***************************************************************************)
EXTENDS App

(***************************************************************************)
(* Type correctness of the pool map, the worker map and the two loops.     *)
(***************************************************************************)
TypeOK == PMTypeOK /\ WMTypeOK /\ AppTypeOK

-----------------------------------------------------------------------------
(* Connections                                                             *)

(***************************************************************************)
(* closePools never closes a *sql.DB that a worker goroutine still holds:  *)
(* reload and poolHealthChecker close what they replaced only after        *)
(* reconcile has stopped its workers (app.go, above closePools).           *)
(***************************************************************************)
NoUseAfterClose == \A g \in goroutines : g.worker.pool.db \in open

\* What has been opened and replaced nothing yet, or is about to be closed.
InFlight == ({dialed[d] : d \in DB} \cup {attemptDB, oldPool} \cup toClose)
                \ {NoHandle}

(***************************************************************************)
(* No connection leaks and no current one is closed: up to closeAll the    *)
(* open handles are those of the pool map and those that a reload or a     *)
(* reconnect in progress is going to commit or to close; after it, none.   *)
(***************************************************************************)
HandlesAccountedFor ==
    IF mainPc = "stopped" THEN open = {}
                          ELSE open = PoolHandles \cup InFlight

(***************************************************************************)
(* A query never runs twice at once: reconcile waits for the old goroutine *)
(* before it starts the next one.                                          *)
(***************************************************************************)
OneGoroutinePerQuery == \A g, h \in goroutines : g.name = h.name => g = h

\* Where the handles are, and who holds them.
Fresh   == ({dialed[d] : d \in DB} \cup {attemptDB}) \ {NoHandle}
Current == IF mainPc = "stopped" THEN {} ELSE PoolHandles
Retired == (toClose \cup {oldPool}) \ {NoHandle}
Opened  == UNION {{d} \X (1 .. serial[d]) : d \in DB}
Users   == {<<g.name, g.worker.pool.db>> : g \in goroutines}

(***************************************************************************)
(* Every handle goes from dialled to current to retired to closed, and     *)
(* workers start on current ones only: module Connections.                 *)
(***************************************************************************)
Conns == INSTANCE Connections WITH
    fresh <- Fresh, current <- Current, retired <- Retired,
    closed <- Opened \ open, users <- Users

ConnectionsSpec == Conns!Spec

-----------------------------------------------------------------------------
(* Pools and workers follow the configuration                              *)

WantedQuery(n) == Wanted(n, Snap)

(***************************************************************************)
(* Once committed, a reload decides every database: what left the config   *)
(* has neither a pool nor a pending attempt; the rest has a pool with      *)
(* exactly the wanted config, or waits in failedPools with the wanted      *)
(* config while a pool dialled with other parameters, if any, is kept. No  *)
(* late reconnect brings back an older config.                             *)
(***************************************************************************)
PoolsFollowConfig ==
    reloadPc \notin {"loaded", "dialled"} => \A d \in DB :
        IF newCfg.dbs[d] = NoConfig
        THEN pools[d] = NoPool /\ failedPools[d] = NoConfig
        ELSE \/ /\ failedPools[d] = newCfg.dbs[d]
                /\ pools[d] # NoPool => pools[d].cfg.conn # newCfg.dbs[d].conn
             \/ /\ failedPools[d] = NoConfig
                /\ pools[d] # NoPool
                /\ pools[d].cfg = newCfg.dbs[d]

(***************************************************************************)
(* Whoever gets stateMu finds both managers at the same revision, and the  *)
(* workers as the last reconcile has to leave them. A configured query has *)
(* a worker, unless its database is pending or this reconcile has stopped  *)
(* it for a change of its label schema. Only configured queries have one,  *)
(* each on the pool that its database has now and with its wanted config,  *)
(* unless that database is pending or the schema would change.             *)
(***************************************************************************)
StoppedForSchema(n) ==
    \E s \in stats.stopped : s.name = n /\ s.schema # WantedQuery(n).schema

WorkersFollowConfig ==
    stateMu = "free" =>
        /\ pmRevision = revision /\ lastQueriesRevision = revision
        /\ \A n \in Query : lastQueries[n] # NoQuery /\ ~Running(n) =>
               WantedQuery(n).db \in PendingDBs \/ StoppedForSchema(n)
        /\ \A n \in Query : Running(n) =>
               /\ lastQueries[n] # NoQuery
               /\ workers[n].pool = pools[workers[n].cfg.db]
               /\ \/ workers[n].cfg = WantedQuery(n)
                  \/ WantedQuery(n).db \in PendingDBs
                  \/ workers[n].cfg.schema # WantedQuery(n).schema

(***************************************************************************)
(* New SQL never meets an old connection: a worker gets a config it did    *)
(* not have only when its database is not pending (pool_manager.go, at     *)
(* pendingDBs).                                                            *)
(***************************************************************************)
NewSqlOnlyOnAppliedPool ==
    [][\A n \in Query :
           /\ workers'[n] # NoWorker
           /\ ~Running(n) \/ workers'[n].cfg # workers[n].cfg
           => workers'[n].cfg.db \notin PendingDBs']_vars

(***************************************************************************)
(* A query frozen by a change of its label schema never goes on with its   *)
(* old SQL on another connection (README.md:491); wanted databases that    *)
(* are pending are left to FrozenKeepsItsConnection.                       *)
(***************************************************************************)
SchemaFrozenKeepsItsPool ==
    [][\A n \in Query :
           /\ Running(n) /\ workers'[n] # NoWorker
           /\ lastQueries[n] # NoQuery
           /\ workers'[n].cfg.schema # WantedQuery(n).schema
           /\ WantedQuery(n).db \notin PendingDBs
           => workers'[n].pool = workers[n].pool]_vars

(***************************************************************************)
(* A reload disturbs nothing it does not change (watcher.go:24 counts on   *)
(* it): a worker is cancelled only if its query left the config, is wanted *)
(* otherwise, or its database has another connection or env now.           *)
(* applyConfig has to keep the address of an unchanged pool for that.      *)
(***************************************************************************)
CancelledNow(g) ==
    ~g.cancelled /\ [g EXCEPT !.cancelled = TRUE] \in goroutines'

UnaffectedQueriesRunOn ==
    [][\A g \in goroutines : CancelledNow(g) /\ ~ctxDone' =>
           \/ lastQueries[g.name] = NoQuery
           \/ WantedQuery(g.name) # g.worker.cfg
           \/ LET p == pools[g.worker.cfg.db]
              IN  p = NoPool \/ p.db # g.worker.pool.db
                             \/ p.cfg # g.worker.pool.cfg]_vars

-----------------------------------------------------------------------------
(* Progress                                                                *)

(***************************************************************************)
(* Go mutexes do not starve a waiter, and select picks among ready cases   *)
(* at random: strong fairness for what waits for a mutex or sits in a      *)
(* select. A query ends: runOnce gives it a context with a timeout. That a *)
(* database answers a dial again and again is an assumption about the      *)
(* environment.                                                            *)
(***************************************************************************)
ReloadBy(who) ==
    ReloadReject(who) \/ \E cfg \in Configs : ReloadLoad(who, cfg)

StepOf(n, Action(_)) == \E g \in goroutines : g.name = n /\ Action(g)

Fairness ==
    /\ \A who \in {"main", "watcher"} : SF_vars(ReloadBy(who))
    /\ SF_vars(\E ok \in SUBSET DB : ReloadDial(ok))
    /\ WF_vars(ReloadCommit \/ ReloadUnlock \/ ReloadClose)
    /\ WF_vars(ReconnectTick \/ ReconnectDial \/ ReconnectUnlock
                 \/ ReconnectClose \/ ReconnectDone)
    /\ \A d \in DB : SF_vars(ReconnectDialOk(d))
    /\ SF_vars(ReconnectLock)
    /\ SF_vars(ReconnectExit)
    /\ WF_vars(ReconcileStep)
    /\ \A n \in Query : /\ WF_vars(StepOf(n, Finish))
                        /\ SF_vars(StepOf(n, Exit))
    /\ SF_vars(WatcherExit)
    /\ WF_vars(MainStep)

FairSpec == Spec /\ Fairness

(***************************************************************************)
(* Every reload that starts comes to its end, whatever the workers and     *)
(* poolHealthChecker are doing: no deadlock among reloadMu, stateMu and    *)
(* the waits of reconcile.                                                 *)
(***************************************************************************)
ReloadReturns == reloadMu # "free" ~> reloadMu = "free"

(***************************************************************************)
(* A database that answers again does not stay pending.                    *)
(***************************************************************************)
PendingHeals ==
    \A d \in DB : d \in PendingDBs ~> d \notin PendingDBs \/ ctxDone

(***************************************************************************)
(* "After a successful reconnect the workers of that database start        *)
(* without a reload" (README.md:666): a query that waits for its database  *)
(* runs in the end, or is not wanted any more.                             *)
(***************************************************************************)
WaitsForItsDB(n) ==
    /\ stateMu = "free"
    /\ lastQueries[n] # NoQuery /\ ~Running(n)
    /\ WantedQuery(n).db \in PendingDBs

WaitingQueriesStart ==
    \A n \in Query :
        WaitsForItsDB(n) ~> Running(n) \/ lastQueries[n] = NoQuery \/ ctxDone

(***************************************************************************)
(* After SIGTERM the process gets through bgWG.Wait, stopAll and closeAll. *)
(***************************************************************************)
ShutdownCompletes == ctxDone ~> mainPc = "stopped"

-----------------------------------------------------------------------------
(* What the repository says and the code does not do                       *)

(***************************************************************************)
(* "This should be impossible" (app.go:174); "must always be 0"            *)
(* (README.md:714): app_internal_invariant_violations_total. The check     *)
(* compares the workers' revision with one read before the dial.           *)
(***************************************************************************)
InvariantNeverViolated == ~invariantViolated

(***************************************************************************)
(* "If the query was already running, it goes on with the old SQL on the   *)
(* old connection until a successful reconnect" (README.md:668).           *)
(***************************************************************************)
FrozenKeepsItsConnection ==
    [][\A n \in Query :
           /\ Running(n) /\ workers'[n] # NoWorker
           /\ lastQueries[n] # NoQuery
           /\ WantedQuery(n).db \in PendingDBs
           => workers'[n].pool.db = workers[n].pool.db]_vars

(***************************************************************************)
(* "success only if really EVERYTHING was applied" (app.go:288).           *)
(***************************************************************************)
EverythingApplied ==
    \A n \in Query : lastQueries[n] # NoQuery =>
        Running(n) /\ workers[n].cfg = WantedQuery(n)

SuccessMeansApplied ==
    [][ReloadClose /\ stateMu = "free" /\ result' = "success"
           => EverythingApplied]_vars
=============================================================================
