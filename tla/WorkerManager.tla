--------------------------- MODULE WorkerManager ---------------------------
(***************************************************************************)
(* workerManager (src/worker_manager.go) and the life of the goroutines it *)
(* starts (startQueryWorker in src/worker.go).                             *)
(*                                                                         *)
(* reconcile visits the queries in the order of a Go map, that is in any   *)
(* order, and blocks in wg.Wait for a goroutine it has cancelled; the      *)
(* goroutines of the other queries run on meanwhile. Each visit is a step  *)
(* here, and a visit that has to wait is two. reconcileMu and the          *)
(* revision check order concurrent calls; wm.mu makes each access to the   *)
(* maps one step.                                                          *)
(***************************************************************************)
EXTENDS ConfigTypes

VARIABLES
    ctxDone,              \* wm.ctx (and pm.ctx) was cancelled: shutdown
    workers,              \* wm.workers
    lastQueries,          \* wm.lastQueries
    lastQueriesRevision,  \* wm.lastQueriesRevision
    goroutines,           \* the running startQueryWorker goroutines
    recTodo,              \* queries that reconcile has not visited yet
    recWait,              \* the query whose goroutine reconcile waits for
    recThen,              \* the worker it starts after that, if any
    stats                 \* ReconcileStats of this reconcile

wmVars == <<ctxDone, workers, lastQueries, lastQueriesRevision, goroutines,
            recTodo, recWait, recThen, stats>>

(***************************************************************************)
(* The default database has been filled in.                                *)
(***************************************************************************)
RunnableQuery == [db : DB, sql : Sql, schema : Schema]

Worker == [cfg : RunnableQuery, pool : Pool]

(***************************************************************************)
(* idle: in the select of startQueryWorker; running: inside runOnce, which *)
(* uses the *sql.DB of the pool. cancelled: the worker's context is done.  *)
(***************************************************************************)
Goroutine == [name : Query, worker : Worker,
              phase : {"idle", "running"}, cancelled : BOOLEAN]

(***************************************************************************)
(* The counters of ReconcileStats that decide the result of a reload, each *)
(* as the question whether it is above zero; and Stopped as the configured *)
(* queries that it counts, with the label schema that their worker had.    *)
(***************************************************************************)
Stats == [pending   : BOOLEAN,
          conflicts : BOOLEAN,
          stopped   : SUBSET [name : Query, schema : Schema]]
NoStats == [pending |-> FALSE, conflicts |-> FALSE, stopped |-> {}]

WMInit ==
    /\ ctxDone = FALSE
    /\ workers = [n \in Query |-> NoWorker]
    /\ lastQueries = [n \in Query |-> NoQuery]
    /\ lastQueriesRevision = 0
    /\ goroutines = {}
    /\ recTodo = {}
    /\ recWait = NoQuery
    /\ recThen = NoWorker
    /\ stats = NoStats

WMTypeOK ==
    /\ ctxDone \in BOOLEAN
    /\ workers \in [Query -> Worker \cup {NoWorker}]
    /\ lastQueries \in [Query -> QueryConfig \cup {NoQuery}]
    /\ lastQueriesRevision \in Nat
    /\ goroutines \subseteq Goroutine
    /\ recTodo \subseteq Query
    /\ recWait \in Query \cup {NoQuery}
    /\ recThen \in Worker \cup {NoWorker}
    /\ stats \in Stats

-----------------------------------------------------------------------------
(* What reconcile decides about one query. snap holds its arguments:       *)
(* snap.pools, snap.pending (pendingDBs) and snap.defaultDB.               *)

Running(n) == workers[n] # NoWorker

Wanted(n, snap) ==
    IF lastQueries[n].db = NoDB
    THEN [lastQueries[n] EXCEPT !.db = snap.defaultDB]
    ELSE lastQueries[n]

\* Fault: reconcile does not ask whether the database is pending.
IsPendingNever(n, snap) == FALSE

IsPending(n, snap) == Wanted(n, snap).db \in snap.pending

(***************************************************************************)
(* A running query on a pending database keeps its whole config, and so    *)
(* does one whose label schema would change.                               *)
(***************************************************************************)
Candidate(n, snap) ==
    IF Running(n) /\ IsPending(n, snap) THEN workers[n].cfg
                                        ELSE Wanted(n, snap)

SchemaChanged(n, snap) ==
    Running(n) /\ workers[n].cfg.schema # Candidate(n, snap).schema

Effective(n, snap) ==
    IF SchemaChanged(n, snap) THEN workers[n].cfg ELSE Candidate(n, snap)

TargetPool(n, snap) == snap.pools[Effective(n, snap).db]

Target(n, snap) ==
    [cfg |-> Effective(n, snap), pool |-> TargetPool(n, snap)]

\* Fault: the default database is filled in, but the query is still skipped.
SkipsWithoutOwnDB(n, snap) ==
    \/ lastQueries[n].db = NoDB
    \/ IsPending(n, snap) /\ ~Running(n)

Skips(n, snap) ==
    \/ Wanted(n, snap).db = NoDB
    \/ IsPending(n, snap) /\ ~Running(n)

\* Fault: a database without a pool is not caught.
StopsOnlyOnConflict(n, snap) ==
    /\ ~Skips(n, snap)
    /\ SchemaChanged(n, snap) /\ workers[n].pool # TargetPool(n, snap)

\* Fault: a frozen query follows its database to a new pool.
StopsOnlyWithoutPool(n, snap) ==
    ~Skips(n, snap) /\ TargetPool(n, snap) = NoPool

Stops(n, snap) ==
    /\ ~Skips(n, snap)
    /\ \/ TargetPool(n, snap) = NoPool
       \/ SchemaChanged(n, snap) /\ workers[n].pool # TargetPool(n, snap)

\* Fault: the address of the pool is not compared.
KeepsOnAnyPool(n, snap) ==
    /\ ~Skips(n, snap) /\ ~Stops(n, snap)
    /\ Running(n) /\ workers[n].cfg = Effective(n, snap)

Keeps(n, snap) ==
    /\ ~Skips(n, snap) /\ ~Stops(n, snap)
    /\ Running(n) /\ workers[n] = Target(n, snap)

Restarts(n, snap) ==
    /\ ~Skips(n, snap) /\ ~Stops(n, snap)
    /\ Running(n) /\ ~Keeps(n, snap)

Starts(n, snap) == ~Skips(n, snap) /\ ~Stops(n, snap) /\ ~Running(n)

(***************************************************************************)
(* Pending counts queries that did not start or did not change because of  *)
(* a pending database; SchemaConflicts those frozen or stopped by one, but *)
(* not those whose database is gone as well; Stopped those whose worker    *)
(* was taken away.                                                         *)
(***************************************************************************)
Count(n, snap) ==
    stats' = [pending   |-> \/ stats.pending
                            \/ /\ IsPending(n, snap)
                               /\ ~Running(n) \/ Keeps(n, snap),
              conflicts |-> \/ stats.conflicts
                            \/ /\ ~Skips(n, snap)
                               /\ SchemaChanged(n, snap)
                               /\ TargetPool(n, snap) # NoPool,
              stopped   |-> IF Stops(n, snap) /\ Running(n)
                            THEN stats.stopped \cup
                                     {[name   |-> n,
                                       schema |-> workers[n].cfg.schema]}
                            ELSE stats.stopped]

-----------------------------------------------------------------------------
(* The steps of reconcile                                                  *)

Spawned(n, w) ==
    [name |-> n, worker |-> w, phase |-> "idle", cancelled |-> ctxDone]

\* Fault: w.cancel() is not called.
WithoutCancel(n) == goroutines

Cancelled(n) ==
    {IF g.name = n THEN [g EXCEPT !.cancelled = TRUE] ELSE g : g \in goroutines}

(***************************************************************************)
(* An older revision returns without touching anything.                    *)
(***************************************************************************)
ReconcileBegin(rev, queries) ==
    IF rev < lastQueriesRevision
    THEN UNCHANGED wmVars
    ELSE /\ lastQueries' = queries
         /\ lastQueriesRevision' = rev
         /\ recTodo' = {n \in Query : queries[n] # NoQuery}
         /\ stats' = NoStats
         /\ UNCHANGED <<ctxDone, workers, goroutines, recWait, recThen>>

ReconcileLeave(n, snap) ==
    /\ n \in recTodo /\ recWait = NoQuery
    /\ \/ Skips(n, snap)
       \/ Keeps(n, snap)
       \/ Stops(n, snap) /\ ~Running(n)
    /\ recTodo' = recTodo \ {n}
    /\ Count(n, snap)
    /\ UNCHANGED <<ctxDone, workers, lastQueries, lastQueriesRevision,
                   goroutines, recWait, recThen>>

ReconcileStart(n, snap) ==
    /\ n \in recTodo /\ recWait = NoQuery
    /\ Starts(n, snap)
    /\ workers' = [workers EXCEPT ![n] = Target(n, snap)]
    /\ goroutines' = goroutines \cup {Spawned(n, Target(n, snap))}
    /\ recTodo' = recTodo \ {n}
    /\ Count(n, snap)
    /\ UNCHANGED <<ctxDone, lastQueries, lastQueriesRevision, recWait, recThen>>

(***************************************************************************)
(* A changed worker is cancelled and stays in wm.workers until its         *)
(* successor is started; stopWorker takes it out of the map first.         *)
(***************************************************************************)
ReconcileRestart(n, snap) ==
    /\ n \in recTodo /\ recWait = NoQuery
    /\ Restarts(n, snap)
    /\ goroutines' = Cancelled(n)
    /\ recTodo' = recTodo \ {n}
    /\ recWait' = n
    /\ recThen' = Target(n, snap)
    /\ Count(n, snap)
    /\ UNCHANGED <<ctxDone, workers, lastQueries, lastQueriesRevision>>

StopWorker(n) ==
    /\ workers' = [workers EXCEPT ![n] = NoWorker]
    /\ goroutines' = Cancelled(n)
    /\ recWait' = n
    /\ recThen' = NoWorker
    /\ UNCHANGED <<ctxDone, lastQueries, lastQueriesRevision>>

ReconcileStop(n, snap) ==
    /\ n \in recTodo /\ recWait = NoQuery
    /\ Stops(n, snap) /\ Running(n)
    /\ StopWorker(n)
    /\ recTodo' = recTodo \ {n}
    /\ Count(n, snap)

\* Fault: wg.Wait() is not called.
JoinedAtOnce(n) == TRUE

Joined(n) == \A g \in goroutines : g.name # n

(***************************************************************************)
(* wg.Wait returned.                                                       *)
(***************************************************************************)
ReconcileJoin ==
    /\ recWait # NoQuery
    /\ Joined(recWait)
    /\ IF recThen = NoWorker
       THEN UNCHANGED <<workers, goroutines>>
       ELSE /\ workers' = [workers EXCEPT ![recWait] = recThen]
            /\ goroutines' = goroutines \cup {Spawned(recWait, recThen)}
    /\ recWait' = NoQuery
    /\ recThen' = NoWorker
    /\ UNCHANGED <<ctxDone, lastQueries, lastQueriesRevision, recTodo, stats>>

\* Fault: workers of queries that left the config are not looked for.
NotInConfigNever(n) == FALSE

NotInConfig(n) == Running(n) /\ lastQueries[n] = NoQuery

ReconcileRemove(n) ==
    /\ recTodo = {} /\ recWait = NoQuery
    /\ NotInConfig(n)
    /\ StopWorker(n)
    /\ UNCHANGED <<recTodo, stats>>

ReconcileDone ==
    /\ recTodo = {} /\ recWait = NoQuery
    /\ \A n \in Query : ~NotInConfig(n)

-----------------------------------------------------------------------------
(* The goroutine of a worker. The select between ctx.Done and the ticker   *)
(* is free, so a tick may still win after the context was cancelled.       *)

WorkerTick(g) ==
    /\ g \in goroutines /\ g.phase = "idle"
    /\ goroutines' = (goroutines \ {g}) \cup {[g EXCEPT !.phase = "running"]}
    /\ UNCHANGED <<ctxDone, workers, lastQueries, lastQueriesRevision,
                   recTodo, recWait, recThen, stats>>

WorkerFinish(g) ==
    /\ g \in goroutines /\ g.phase = "running"
    /\ goroutines' = (goroutines \ {g}) \cup {[g EXCEPT !.phase = "idle"]}
    /\ UNCHANGED <<ctxDone, workers, lastQueries, lastQueriesRevision,
                   recTodo, recWait, recThen, stats>>

WorkerExit(g) ==
    /\ g \in goroutines /\ g.phase = "idle" /\ g.cancelled
    /\ goroutines' = goroutines \ {g}
    /\ UNCHANGED <<ctxDone, workers, lastQueries, lastQueriesRevision,
                   recTodo, recWait, recThen, stats>>

AllCancelled == {[g EXCEPT !.cancelled = TRUE] : g \in goroutines}

(***************************************************************************)
(* The process context is the parent of every worker's context.            *)
(***************************************************************************)
CancelContext ==
    /\ ~ctxDone
    /\ ctxDone' = TRUE
    /\ goroutines' = AllCancelled
    /\ UNCHANGED <<workers, lastQueries, lastQueriesRevision,
                   recTodo, recWait, recThen, stats>>
=============================================================================
