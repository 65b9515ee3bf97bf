------------------------------ MODULE QueryRows ------------------------------
(***************************************************************************)
(* The rows and gauges of the queries in the Prometheus registry: what the *)
(* runs of the workers (runOnce in src/worker.go) write, and what          *)
(* reconcile and stopWorker (src/worker_manager.go) take away.             *)
(*                                                                         *)
(* A step of reconcile is WorkerManager's, together with what it does to   *)
(* the registry. A reload and a reconnect are one step each up to their    *)
(* reconcile: the locks that make them so, the dials and the closing of    *)
(* handles are the subject of module App; handles are not told apart here. *)
(***************************************************************************)
EXTENDS PoolManager, WorkerManager

CONSTANTS
    Metric,       \* names of metrics
    LabelName,    \* names of labels other than db and env
    LabelValues,  \* the values of a query's static labels, taken together
    RowKey,       \* the values of the label columns of one row
    MetricOf,     \* the MetricName of each query; clones share one
    StaticNames,  \* the names of the static labels, by Schema
    MultiRow,     \* the Schemas with a value_column
    ValuesOf,     \* the values of the static labels, by Sql
    ColsOf,       \* the sets of label columns that a statement may return
    BadRow,       \* rows with a value that no label can have
    NoRow,        \* the row of a query without value_column
    NoVec,        \* a metric that is not in its map
    Configs,      \* the configurations that reload may find
    MaxReloads    \* bound: the reloads of a behaviour

ASSUME RowsAssumption ==
    /\ MetricOf \in [Query -> Metric]
    /\ StaticNames \in [Schema -> SUBSET LabelName]
    /\ MultiRow \subseteq Schema
    /\ ValuesOf \in [Sql -> LabelValues]
    /\ ColsOf \in [Sql -> SUBSET SUBSET LabelName]
    /\ BadRow \subseteq RowKey
    /\ NoRow \notin RowKey
    /\ \A names \in SUBSET LabelName : NoVec # names
    /\ \A c \in Configs : c \in Config /\ WellFormed(c)
    /\ MaxReloads \in Nat

VARIABLES
    config,       \* app.cfg
    reconciling,  \* reconcile is at work on config
    recGone,      \* the worker that stopWorker took out and waits for
    recShared,    \* its sharedByOthers
    vec,          \* queryResultMetrics: the label names of each GaugeVec
    dims,         \* the registry's dimHashesByName
    rows,         \* the series of each GaugeVec
    blank,        \* those of them that exist but were never set: value 0
    prev,         \* *prevLabels of each query's worker
    run,          \* the run that a worker is in
    up,           \* app_query_up
    mismatch,     \* app_query_runtime_schema_mismatch, where it is shown
    conflict      \* app_query_config_schema_conflict, where it is shown

managerVars == <<pmVars, wmVars, config, reconciling, recGone, recShared>>
registryVars == <<vec, dims, rows, blank, up, mismatch, conflict>>
rowVars == <<managerVars, registryVars, prev, run>>

(***************************************************************************)
(* A time series of a metric. Its label names count: GetMetricWith and     *)
(* Delete do nothing for a series with other names than the GaugeVec has.  *)
(***************************************************************************)
Series == [names : SUBSET LabelName, db : DB, env : Env,
           vals : LabelValues, row : RowKey \cup {NoRow}]

Run == [pc    : {"none", "asking", "register", "publish",
                 "ok", "db_error", "schema_mismatch"},
        names : SUBSET LabelName,
        batch : SUBSET Series]

NoRun == [pc |-> "none", names |-> {}, batch |-> {}]

RowsInit ==
    /\ PMInit /\ WMInit
    /\ config = [dbs |-> failedPools, queries |-> lastQueries,
                 defaultDB |-> NoDB, flawed |-> FALSE]
    /\ reconciling = FALSE
    /\ recGone = NoWorker
    /\ recShared = FALSE
    /\ vec = [m \in Metric |-> NoVec]
    /\ dims = [m \in Metric |-> NoVec]
    /\ rows = [m \in Metric |-> {}]
    /\ blank = [m \in Metric |-> {}]
    /\ prev = [n \in Query |-> {}]
    /\ run = [n \in Query |-> NoRun]
    /\ up = [md \in Metric \X DB |-> "absent"]
    /\ mismatch = {}
    /\ conflict = {}

-----------------------------------------------------------------------------
(* What a worker shows, and how it goes away                               *)

Snap == [pools |-> pools, pending |-> PendingDBs,
         defaultDB |-> config.defaultDB]

HealthOf(n, w) == <<MetricOf[n], w.cfg.db>>

(***************************************************************************)
(* buildLabelValues; DBEnv is the env of the pool the worker was given.    *)
(***************************************************************************)
SeriesOf(w, cols, row) ==
    [names |-> StaticNames[w.cfg.schema] \cup cols, db |-> w.cfg.db,
     env |-> w.pool.cfg.env, vals |-> ValuesOf[w.cfg.sql], row |-> row]

SingleSeries(w) == SeriesOf(w, {}, NoRow)

IsMultiRow(w) == w.cfg.schema \in MultiRow

DeleteRows(m, S) ==
    /\ rows' = [rows EXCEPT ![m] = @ \ S]
    /\ blank' = [blank EXCEPT ![m] = @ \ S]

DeleteWorkerRows(n, w) ==
    DeleteRows(MetricOf[n],
               IF prev[n] # {} THEN prev[n] ELSE {SingleSeries(w)})

UnregisterQueryMetric(m) ==
    /\ vec' = [vec EXCEPT ![m] = NoVec]
    /\ DeleteRows(m, rows[m])

-----------------------------------------------------------------------------
(* A run of a query                                                        *)

InRun(n, pc) == run[n].pc = pc

WorkerOf(n) == (CHOOSE g \in goroutines : g.name = n).worker

IsCancelled(n) == \E g \in goroutines : g.name = n /\ g.cancelled

Becomes(n, pc) == run' = [run EXCEPT ![n].pc = pc]

BeginRun(n) ==
    /\ \E g \in goroutines : g.name = n /\ WorkerTick(g)
    /\ Becomes(n, "asking")
    /\ UNCHANGED <<pmVars, config, reconciling, recGone, recShared,
                   registryVars, prev>>

(***************************************************************************)
(* The rows that a statement may return; what it returns without any label *)
(* column, twice, or above max_rows, is an error.                          *)
(***************************************************************************)
Answers(w) ==
    IF IsMultiRow(w)
    THEN {[pc |-> "register", names |-> StaticNames[w.cfg.schema] \cup cols,
           batch |-> {SeriesOf(w, cols, r) : r \in R}] :
             cols \in ColsOf[w.cfg.sql], R \in SUBSET RowKey}
    ELSE {[pc |-> "register", names |-> StaticNames[w.cfg.schema],
           batch |-> {SingleSeries(w)}]}

DatabaseAnswers(n) ==
    /\ InRun(n, "asking")
    /\ \E answer \in Answers(WorkerOf(n)) : run' = [run EXCEPT ![n] = answer]
    /\ UNCHANGED <<managerVars, registryVars, prev>>

\* Fault: a failed single-value query keeps its last value.
DatabaseFailsSilently(n) ==
    /\ InRun(n, "asking")
    /\ Becomes(n, "db_error")
    /\ UNCHANGED <<managerVars, registryVars, prev>>

(***************************************************************************)
(* A single-value run takes its row back at once, a multi-row run leaves   *)
(* that to runOnce.                                                        *)
(***************************************************************************)
DatabaseFails(n) ==
    /\ InRun(n, "asking")
    /\ Becomes(n, "db_error")
    /\ IF IsMultiRow(WorkerOf(n))
       THEN UNCHANGED <<rows, blank>>
       ELSE DeleteRows(MetricOf[n], {SingleSeries(WorkerOf(n))})
    /\ UNCHANGED <<managerVars, vec, dims, up, mismatch, conflict, prev>>

(***************************************************************************)
(* getOrCreateQueryMetric. The registry remembers the label names that a   *)
(* metric's name was first registered with, for ever.                      *)
(***************************************************************************)
MayRegister(m, names) == dims[m] \in {NoVec, names}

RegisterVec(n) ==
    LET m == MetricOf[n] IN
    /\ InRun(n, "register")
    /\ IF vec[m] # NoVec
       THEN Becomes(n, "publish") /\ UNCHANGED <<vec, dims>>
       ELSE IF MayRegister(m, run[n].names)
       THEN /\ vec' = [vec EXCEPT ![m] = run[n].names]
            /\ dims' = [dims EXCEPT ![m] = run[n].names]
            /\ Becomes(n, "publish")
       ELSE Becomes(n, "schema_mismatch") /\ UNCHANGED <<vec, dims>>
    /\ UNCHANGED <<managerVars, rows, blank, up, mismatch, conflict, prev>>

Resolves(m, s) == s.names = vec[m] /\ s.row \notin BadRow

(***************************************************************************)
(* The rows of the last run that this one did not return.                  *)
(***************************************************************************)
Stale(n) == prev[n] \ run[n].batch

PublishAll(n) ==
    LET m == MetricOf[n] IN
    /\ InRun(n, "publish")
    /\ \A s \in run[n].batch : Resolves(m, s)
    /\ rows' = [rows EXCEPT ![m] = (@ \cup run[n].batch) \ Stale(n)]
    /\ blank' = [blank EXCEPT ![m] = @ \ (run[n].batch \cup Stale(n))]
    /\ Becomes(n, "ok")
    /\ UNCHANGED <<managerVars, vec, dims, up, mismatch, conflict, prev>>

(***************************************************************************)
(* The first row that does not resolve ends the run before any value is    *)
(* set; GetMetricWith has created the rows before it.                      *)
(***************************************************************************)
PublishFails(n) ==
    LET m == MetricOf[n] IN
    /\ InRun(n, "publish")
    /\ \E s \in run[n].batch : ~Resolves(m, s)
    /\ \E created \in SUBSET {s \in run[n].batch : Resolves(m, s)} :
           /\ rows' = [rows EXCEPT ![m] = @ \cup created]
           /\ blank' = [blank EXCEPT ![m] = @ \cup (created \ rows[m])]
    /\ Becomes(n, "schema_mismatch")
    /\ UNCHANGED <<managerVars, vec, dims, up, mismatch, conflict, prev>>

-----------------------------------------------------------------------------
(* The end of a run: what runOnce makes of it                              *)

EndRun(n) ==
    /\ \E g \in goroutines : g.name = n /\ WorkerFinish(g)
    /\ run' = [run EXCEPT ![n] = NoRun]
    /\ UNCHANGED <<pmVars, config, reconciling, recGone, recShared,
                   vec, dims, conflict>>

Succeed(n) ==
    LET health == HealthOf(n, WorkerOf(n)) IN
    /\ InRun(n, "ok")
    /\ prev' = [prev EXCEPT ![n] = IF IsMultiRow(WorkerOf(n))
                                   THEN run[n].batch ELSE {}]
    /\ up' = [up EXCEPT ![health] = "up"]
    /\ mismatch' = mismatch \ {health}
    /\ UNCHANGED <<rows, blank>>
    /\ EndRun(n)

Erred(n) == InRun(n, "db_error") \/ InRun(n, "schema_mismatch")

\* Fault: prevLabels is lost when a run is cancelled.
GiveUpAndForget(n) ==
    /\ Erred(n) /\ IsCancelled(n)
    /\ prev' = [prev EXCEPT ![n] = {}]
    /\ UNCHANGED <<rows, blank, up, mismatch>>
    /\ EndRun(n)

(***************************************************************************)
(* An error of a worker that is being stopped says nothing of the query.   *)
(***************************************************************************)
GiveUp(n) ==
    /\ Erred(n) /\ IsCancelled(n)
    /\ UNCHANGED <<rows, blank, up, mismatch, prev>>
    /\ EndRun(n)

\* Fault: the rows of the last run stay when a run fails.
FailAndKeepRows(n) ==
    LET health == HealthOf(n, WorkerOf(n)) IN
    /\ Erred(n) /\ ~IsCancelled(n)
    /\ up' = [up EXCEPT ![health] = "down"]
    /\ \/ mismatch' = mismatch
       \/ InRun(n, "schema_mismatch") /\ mismatch' = mismatch \cup {health}
    /\ prev' = [prev EXCEPT ![n] = {}]
    /\ UNCHANGED <<rows, blank>>
    /\ EndRun(n)

(***************************************************************************)
(* A mismatch found when the timeout has expired too is counted as one.    *)
(***************************************************************************)
Fail(n) ==
    LET health == HealthOf(n, WorkerOf(n)) IN
    /\ Erred(n) /\ ~IsCancelled(n)
    /\ up' = [up EXCEPT ![health] = "down"]
    /\ \/ mismatch' = mismatch
       \/ InRun(n, "schema_mismatch") /\ mismatch' = mismatch \cup {health}
    /\ DeleteRows(MetricOf[n], prev[n])
    /\ prev' = [prev EXCEPT ![n] = {}]
    /\ EndRun(n)

ExitWorker(n) ==
    /\ \E g \in goroutines : g.name = n /\ WorkerExit(g)
    /\ UNCHANGED <<pmVars, config, reconciling, recGone, recShared,
                   registryVars, prev, run>>

-----------------------------------------------------------------------------
(* reload and the reconnect of poolHealthChecker, up to reconcile          *)

Reload ==
    /\ ~reconciling /\ pmRevision < MaxReloads
    /\ \E c \in Configs, ok \in SUBSET DB :
           LET dialed == [d \in DB |-> IF d \in ok THEN NextHandle(d)
                                                   ELSE NoHandle]
           IN  /\ ok \subseteq ToDial(c.dbs)
               /\ ApplyConfig(pmRevision + 1, c.dbs, dialed)
               /\ ReconcileBegin(pmRevision + 1, c.queries)
               /\ config' = c
    /\ reconciling' = TRUE
    /\ UNCHANGED <<recGone, recShared, registryVars, prev, run>>

Reconnect(d) ==
    /\ ~reconciling
    /\ CanCommit(d, failedPools[d], pmRevision)
    /\ CommitReconnect(d, failedPools[d], NextHandle(d))
    /\ ReconcileBegin(pmRevision, config.queries)
    /\ reconciling' = TRUE
    /\ UNCHANGED <<config, recGone, recShared, registryVars, prev, run>>

-----------------------------------------------------------------------------
(* The visits of reconcile                                                 *)

\* Fault: an unchanged worker is passed over before its gauge is decided.
ConflictOfChanged(n) ==
    IF Skips(n, Snap) \/ Stops(n, Snap) \/ ~Running(n) \/ Keeps(n, Snap)
    THEN conflict
    ELSE IF SchemaChanged(n, Snap)
         THEN conflict \cup {HealthOf(n, workers[n])}
         ELSE conflict \ {HealthOf(n, workers[n])}

(***************************************************************************)
(* The gauge of a schema conflict, decided once a visit is past the cases  *)
(* that end it early.                                                      *)
(***************************************************************************)
ConflictAfter(n) ==
    IF Skips(n, Snap) \/ Stops(n, Snap) \/ ~Running(n) THEN conflict
    ELSE IF SchemaChanged(n, Snap)
         THEN conflict \cup {HealthOf(n, workers[n])}
         ELSE conflict \ {HealthOf(n, workers[n])}

VisitAndPass(n) ==
    /\ reconciling
    /\ \/ ReconcileLeave(n, Snap) /\ UNCHANGED prev
       \/ ReconcileStart(n, Snap) /\ prev' = [prev EXCEPT ![n] = {}]
    /\ conflict' = ConflictAfter(n)
    /\ UNCHANGED <<pmVars, config, reconciling, recGone, recShared,
                   vec, dims, rows, blank, up, mismatch, run>>

VisitAndRestart(n) ==
    /\ reconciling
    /\ ReconcileRestart(n, Snap)
    /\ conflict' = ConflictAfter(n)
    /\ UNCHANGED <<pmVars, config, reconciling, recGone, recShared,
                   vec, dims, rows, blank, up, mismatch, prev, run>>

\* Fault: the worker that stops counts itself.
SharedWithItself(n) == \E x \in Query : Running(x) /\ MetricOf[x] = MetricOf[n]

\* Fault: nobody asks who else uses the metric.
SharedWithNobody(n) == FALSE

SharedByOthers(n) ==
    \E x \in Query \ {n} : Running(x) /\ MetricOf[x] = MetricOf[n]

VisitAndStop(n) ==
    /\ reconciling
    /\ ReconcileStop(n, Snap) \/ ReconcileRemove(n)
    /\ recGone' = workers[n]
    /\ recShared' = SharedByOthers(n)
    /\ UNCHANGED <<pmVars, config, reconciling, registryVars, prev, run>>

IdentityChanged(old, new) ==
    \/ old.cfg.db # new.cfg.db
    \/ old.pool.cfg.env # new.pool.cfg.env
    \/ ValuesOf[old.cfg.sql] # ValuesOf[new.cfg.sql]

\* Fault: a restart keeps what the old worker has shown.
RestartAndKeepRows ==
    /\ recGone = NoWorker
    /\ ReconcileJoin
    /\ UNCHANGED <<pmVars, config, reconciling, recGone, recShared,
                   registryVars, prev, run>>

(***************************************************************************)
(* wg.Wait returned, for a restart: under another identity the new worker  *)
(* starts with nothing of the old one; runtimeSchemaMismatch is not among  *)
(* what is taken away.                                                     *)
(***************************************************************************)
JoinAndRestart ==
    LET n == recWait
        w == workers[n]
    IN  /\ recGone = NoWorker
        /\ ReconcileJoin
        /\ IF IdentityChanged(w, recThen)
           THEN /\ DeleteWorkerRows(n, w)
                /\ up' = [up EXCEPT ![HealthOf(n, w)] = "absent"]
                /\ prev' = [prev EXCEPT ![n] = {}]
           ELSE UNCHANGED <<rows, blank, up, prev>>
        /\ UNCHANGED <<pmVars, config, reconciling, recGone, recShared,
                       vec, dims, mismatch, conflict, run>>

\* Fault: the gauges of a stopped query stay.
StopAndKeepHealth ==
    LET n == recWait
        w == recGone
    IN  /\ w # NoWorker
        /\ ReconcileJoin
        /\ IF recShared
           THEN DeleteWorkerRows(n, w) /\ UNCHANGED vec
           ELSE UnregisterQueryMetric(MetricOf[n])
        /\ prev' = [prev EXCEPT ![n] = {}]
        /\ recGone' = NoWorker
        /\ recShared' = FALSE
        /\ UNCHANGED <<pmVars, config, reconciling, dims, up, mismatch,
                       conflict, run>>

(***************************************************************************)
(* wg.Wait returned, in stopWorker: the last worker of a metric takes the  *)
(* GaugeVec with it, another one only its rows.                            *)
(***************************************************************************)
JoinAndStop ==
    LET n == recWait
        w == recGone
    IN  /\ w # NoWorker
        /\ ReconcileJoin
        /\ IF recShared
           THEN DeleteWorkerRows(n, w) /\ UNCHANGED vec
           ELSE UnregisterQueryMetric(MetricOf[n])
        /\ up' = [up EXCEPT ![HealthOf(n, w)] = "absent"]
        /\ conflict' = conflict \ {HealthOf(n, w)}
        /\ mismatch' = mismatch \ {HealthOf(n, w)}
        /\ prev' = [prev EXCEPT ![n] = {}]
        /\ recGone' = NoWorker
        /\ recShared' = FALSE
        /\ UNCHANGED <<pmVars, config, reconciling, dims, run>>

EndReconcile ==
    /\ reconciling /\ ReconcileDone
    /\ reconciling' = FALSE
    /\ UNCHANGED <<pmVars, wmVars, config, recGone, recShared,
                   registryVars, prev, run>>

-----------------------------------------------------------------------------
RunStep(n) ==
    \/ BeginRun(n)
    \/ DatabaseAnswers(n)
    \/ DatabaseFails(n)
    \/ RegisterVec(n)
    \/ PublishAll(n)
    \/ PublishFails(n)
    \/ Succeed(n)
    \/ GiveUp(n)
    \/ Fail(n)
    \/ ExitWorker(n)

ReconcileStep ==
    \/ \E n \in Query : VisitAndPass(n)
    \/ \E n \in Query : VisitAndRestart(n)
    \/ \E n \in Query : VisitAndStop(n)
    \/ JoinAndRestart
    \/ JoinAndStop
    \/ EndReconcile

Next ==
    \/ Reload
    \/ \E d \in DB : Reconnect(d)
    \/ ReconcileStep
    \/ \E n \in Query : RunStep(n)

Spec == RowsInit /\ [][Next]_rowVars
=============================================================================
