--------------------------- MODULE AppInvariants ---------------------------
(***************************************************************************)
(* The inductive invariant behind the safety properties of App: who holds  *)
(* which lock, where every *sql.DB is, and which worker may still hold a   *)
(* connection that is on its way out.                                      *)
(***************************************************************************)
EXTENDS AppProperties

(***************************************************************************)
(* The locks are held exactly in the sections that take them, and nobody   *)
(* is left to take them once main waits for the workers.                   *)
(***************************************************************************)
Locks ==
    /\ stateMu = "reload" <=> reloadPc \in {"dialled", "reconciling"}
    /\ stateMu = "reconnect" <=> checkerPc = "reconciling"
    /\ reloadMu = "free" <=> reloadPc = "none"
    /\ reloadMu = "main" => mainPc = "starting"
    /\ reloadMu = "watcher" => watcherPc = "calling"
    /\ mainPc \in {"joining", "stopped"} =>
           watcherPc = "exited" /\ checkerPc = "exited"

(***************************************************************************)
(* What the local variables hold at each point.                            *)
(***************************************************************************)
Locals ==
    /\ reloadPc # "dialled" => dialed = NothingDialed
    /\ \A d \in DB : dialed[d] # NoHandle => newCfg.dbs[d] # NoConfig
    /\ reloadPc \notin {"reconciling", "closing"} => toClose = {}
    /\ checkerPc = "dialled" => attempt \in DB /\ attemptDB \in Handle
    /\ checkerPc # "dialled" => attemptDB = NoHandle
    /\ checkerPc \notin {"reconciling", "closing"} => oldPool = NoHandle
    /\ ~Reconciling => recTodo = {} /\ recWait = NoQuery
    /\ recWait = NoQuery => recThen = NoWorker
    /\ recWait \notin recTodo
    /\ \A n \in recTodo : lastQueries[n] # NoQuery
    /\ WellFormed(newCfg)

(***************************************************************************)
(* Both managers carry the revision of the last committed reload.          *)
(***************************************************************************)
Revisions ==
    /\ lastQueriesRevision = pmRevision
    /\ revision = IF reloadPc = "dialled" THEN pmRevision + 1 ELSE pmRevision

(***************************************************************************)
(* A query without a database of its own has a default one: otherwise      *)
(* reconcile would pass it over and leave its worker as it is.             *)
(***************************************************************************)
DefaultKnown ==
    \A n \in Query :
        lastQueries[n] # NoQuery /\ lastQueries[n].db = NoDB => defaultDB # NoDB

Issued(h) == h \in Handle /\ h[2] <= serial[h[1]]

(***************************************************************************)
(* A handle belongs to one database and is in one place: it is the pool of *)
(* its database, or dialled and not committed, or about to be closed.      *)
(***************************************************************************)
Placed ==
    /\ \A d \in DB : pools[d] # NoPool =>
           /\ Issued(pools[d].db)
           /\ pools[d].db[1] = d
           /\ pools[d].db \notin toClose
           /\ pools[d].db # dialed[d]
           /\ pools[d].db # attemptDB
           /\ pools[d].db # oldPool
    /\ \A d \in DB : dialed[d] # NoHandle =>
           /\ Issued(dialed[d])
           /\ dialed[d][1] = d
           /\ dialed[d] # attemptDB
           /\ dialed[d] # oldPool
    /\ \A h \in toClose : Issued(h) /\ h # attemptDB /\ h # oldPool
    /\ attemptDB # NoHandle => /\ Issued(attemptDB)
                               /\ attemptDB[1] = attempt
                               /\ attemptDB # oldPool
    /\ oldPool # NoHandle => Issued(oldPool)

(***************************************************************************)
(* What the transition in progress has replaced and its reconcile has not  *)
(* taken from the workers yet.                                             *)
(***************************************************************************)
Retiring ==
    (IF reloadPc = "reconciling" THEN toClose ELSE {})
        \cup (IF checkerPc = "reconciling" THEN {oldPool} ELSE {})

OnCurrentPool(w) == pools[w.cfg.db] = w.pool

Settled(n) == n \notin recTodo /\ n # recWait /\ lastQueries[n] # NoQuery

(***************************************************************************)
(* A goroutine is that of the worker in the map, but for the one that      *)
(* reconcile waits for; workers that reconcile is done with are on the     *)
(* pool that their database has now; all others hold what is retiring at   *)
(* worst.                                                                  *)
(***************************************************************************)
Owned ==
    /\ OneGoroutinePerQuery
    /\ \A g \in goroutines : g.name # recWait => workers[g.name] = g.worker
    /\ \A g \in goroutines : g.worker.pool.db \in PoolHandles \cup Retiring
    /\ \A n \in Query : Running(n) /\ Settled(n) => OnCurrentPool(workers[n])
    /\ \A n \in Query :
           Running(n) /\ ~Reconciling => lastQueries[n] # NoQuery
    /\ recThen # NoWorker => OnCurrentPool(recThen)
    /\ recWait # NoQuery /\ recThen = NoWorker => ~Running(recWait)
    /\ mainPc = "stopped" => goroutines = {}

IInv ==
    /\ TypeOK
    /\ Locks /\ Locals /\ Revisions /\ DefaultKnown
    /\ Placed /\ HandlesAccountedFor /\ Owned

-----------------------------------------------------------------------------
(* What the workers' following of the configuration needs beyond IInv      *)

(***************************************************************************)
(* A worker has its wanted config unless its database is pending or its    *)
(* label schema would change.                                              *)
(***************************************************************************)
Follows(n, w) ==
    \/ w.cfg = WantedQuery(n)
    \/ WantedQuery(n).db \in PendingDBs
    \/ w.cfg.schema # WantedQuery(n).schema

(***************************************************************************)
(* The workers that reconcile is done with follow; one that it is about to *)
(* start in place of another has the old config if its database is         *)
(* pending, and otherwise the wanted one.                                  *)
(***************************************************************************)
WorkersFollow ==
    /\ \A n \in Query : Running(n) /\ Settled(n) => Follows(n, workers[n])
    /\ recThen # NoWorker =>
           /\ Running(recWait)
           /\ recThen.cfg = IF IsPending(recWait, Snap)
                            THEN workers[recWait].cfg ELSE WantedQuery(recWait)

(***************************************************************************)
(* A pool that looks like the one a worker holds is that one: applyConfig  *)
(* makes a new struct only where the connection or the env is another.     *)
(***************************************************************************)
PoolsKeepAddress ==
    \A n \in Query : Running(n) =>
        \A d \in DB :
            /\ pools[d] # NoPool
            /\ pools[d].db = workers[n].pool.db
            /\ pools[d].cfg = workers[n].pool.cfg
            => pools[d] = workers[n].pool

(***************************************************************************)
(* The database of a configured query has a pool or is pending, whichever  *)
(* reload is about to take its place: no query is stopped for lack of one, *)
(* unless it is frozen on a database that left the config.                 *)
(***************************************************************************)
QueriesHaveDatabases ==
    \A n \in Query : lastQueries[n] # NoQuery =>
        \/ WantedQuery(n).db \in PendingDBs
        \/ pools[WantedQuery(n).db] # NoPool

(***************************************************************************)
(* A query that reconcile has visited is left without a worker for one of  *)
(* two reasons.                                                            *)
(***************************************************************************)
VisitedAreServed ==
    \A n \in Query \ recTodo : lastQueries[n] # NoQuery /\ ~Running(n) =>
        WantedQuery(n).db \in PendingDBs \/ StoppedForSchema(n)

FollowInv ==
    /\ IInv
    /\ PoolsFollowConfig /\ WorkersFollow /\ PoolsKeepAddress
    /\ QueriesHaveDatabases /\ VisitedAreServed
=============================================================================
