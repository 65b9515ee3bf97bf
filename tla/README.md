# Verification of sqlX-exporter

sqlX-exporter runs SQL queries from a YAML configuration against several
databases and serves the results to Prometheus. The configuration is reloaded
while queries run, connections are replaced, and databases come and go. This
directory models that in TLA+, checks it with TLC on small instances and proves
the core of it with TLAPS for any number of databases, queries and reloads.

Paths without a directory name files of the exporter's source tree (`src/`).

## 1. Inventory

| Component | State | Operations | Interacts with |
|---|---|---|---|
| **pool manager** `pool_manager.go`, `db.go` | `pools`, `failedPools`, `revision` under `mu`; `transitionMu` | `applyConfig`, `commitReconnect`, `dial`, `closePools`, `closeAll`, `deletePoolMetrics`, `update…Metrics`; loops `metricsUpdater`, `activeHealthCheck` | called by app; owns every `*sql.DB` |
| **worker manager** `worker_manager.go` | `workers`, `lastQueries`, `lastQueriesRevision` under `mu`; `reconcileMu` | `reconcile`, `stopWorker`, `stopAll`, `snapshotLastQueries` | called by app; starts, cancels and waits for worker goroutines |
| **app** `app.go` | `revision`, `defaultDB`, `reconnectInterval`, `configReady`; `reloadMu`, `stateMu`, `mu` | `reload`, loop `poolHealthChecker`, `publishWatchDirs` | the only caller of both managers |
| **lifecycle** `main.go` | contexts, `bgWG`, exit code | start order, `/readyz`, shutdown | starts every loop, waits for them, then `stopAll`, `closeAll` |
| **watcher** `watcher.go` | watched directories, debounce timer | `watchConfig` | calls `reload`; reads `watchDirsCh`; reports its death to main |
| **query execution** `worker.go` | `prevLabels` of each worker | `startQueryWorker`, `runOnce`, `runSingleValue`, `runMultiRow` | uses a pool's `*sql.DB`; writes the metric registry |
| **metric registry** `metrics.go` | `queryResultMetrics`, the fixed gauges | register, unregister, delete rows | written by every other part, read by `/metrics` |
| **schedules** `schedule.go` | none | `validateSchedule`, `parseSchedule`, `nextRun`, `same…` | used by workers and by `reconcile` |
| **config loader** `config.go` | none | load, include, clone, merge, sanitize, validate | called by `reload` |
| drivers, DSNs, HTTP, Helm | none of interest | | |

What is hard in it:

* *Three goroutines change or observe the pools* (`reload` by main or by the
  watcher, `poolHealthChecker`, the two metric loops), each with I/O outside of
  the locks and a check afterwards.
* *Two managers have to agree.* A pool map that is newer than the workers, or
  workers that are newer than the pools, runs new SQL on an old server.
* *Partial failure is the normal case.* Any dial may fail; the old pool is kept,
  and its queries are kept with their old config.
* *Waiting under locks.* `reconcile` waits for goroutines that are in a query
  while `reloadMu` and `stateMu` are held; the shutdown waits for all of that.
* *Prometheus cannot change a label schema*, so a running query can be frozen
  while everything around it changes.

What makes each part correct:

* connections: each is dialled, current, retired and closed once, in that order;
  none is lost; none is closed while a worker holds it;
* pools: after every reload the pool map and `failedPools` together are the
  wanted configuration, whatever reconnects finished late;
* workers: one goroutine per query, on the current pool, with the wanted config
  unless the database is pending or the schema is frozen; nothing else is
  disturbed by a reload;
* progress: reloads return, pending databases heal, waiting queries start,
  a shutdown ends;
* gauges: they say what is the case once things are quiet;
* rows: a value has a worker that answers for it; what one clone takes away, the
  others keep; a failed query shows no value;
* configuration: what runs is what the files say, and a broken include costs its
  own definitions only;
* watching: no edit of a watched file is lost, and the loss of the watch is not
  lost either;
* schedules: a run happens at a scheduled time, at the next one, and once.

`PROJECT.json` lists the hazards one by one, at their lines, with the properties
that would catch them.

## 2. Modules

| Module | Models | |
|---|---|---|
| `ConfigTypes` | the values the parts exchange: `DBConfig`, `dbPool`, `QueryConfig`, the loaded `Config`, and what validation guarantees of it | constants only |
| `PoolManager` | `applyConfig`, `commitReconnect`, `dial`, `closePools` on `pools`, `failedPools`, `pmRevision`, `open` | operators and state |
| `WorkerManager` | `reconcile` visit by visit, `stopWorker`, `stopAll`, and worker goroutines | operators and state |
| `App` | `reload`, `poolHealthChecker`, the watcher and main as callers, shutdown; composes the two managers | `Spec` |
| `AppProperties` | what App promises; fairness | |
| `Connections` | the abstract life of a `*sql.DB` | abstract specification |
| `AppInvariants` | the inductive invariants `IInv` and `FollowInv` | |
| `AppProofs` | theorems about App: types, connections, goroutines; App implements `Connections` | TLAPS |
| `AppFollowProofs` | theorems about App: pools and workers follow the configuration; what a step may never do | TLAPS |
| `MCApp` | instances of App | six `.cfg` |
| `PoolMetrics` | everything that writes the database gauges, with the two observing loops | `Spec`, on top of `PoolManager` |
| `PoolMetricsProperties` | what these gauges promise; fairness | |
| `PoolMetricsProofs` | theorem about PoolMetrics, with its inductive invariant | TLAPS |
| `MCPoolMetrics` | instances | three `.cfg` |
| `QueryRows` | the GaugeVecs and rows of queries, `runOnce` with both kinds of queries, `prevLabels`, and what `reconcile` and `stopWorker` clean up | `Spec`, on top of `PoolManager` and `WorkerManager` |
| `QueryRowsProperties`, `MCQueryRows` | what a scrape may rely on; instances | three `.cfg` |
| `QueryRowsInvariants` | the inductive invariants `RowsInv` and `ApartInv`, and `ClonesStayApart` | |
| `QueryRowsProofs` | theorems about QueryRows that hold for all configurations | TLAPS |
| `QueryRowsClonesProofs` | theorems about QueryRows where (query, db) is unique | TLAPS |
| `ConfigLoader` | `loadConfig` with includes, defaults, clones and dependencies; edits and reloads | `Spec` over a pure function |
| `ConfigLoaderProperties`, `MCConfigLoader` | what the result may be relied on for; instances | four `.cfg` |
| `ConfigLoaderProofs` | theorems about ConfigLoader, with induction over includes and the inductive invariant | TLAPS |
| `Lifecycle` | `main`, `watchConfig`, `publishWatchDirs` and the reading part of `reload` | `Spec`, fairness |
| `LifecycleProperties`, `MCLifecycle` | what these three promise; an instance | two `.cfg` |
| `LifecycleProofs` | theorems about Lifecycle, with their inductive invariant | TLAPS |
| `Schedule` | `parseSchedule`, `nextRun`, the loop of a scheduled worker | `Spec` over a pure function |
| `ScheduleProperties`, `MCSchedule` | when runs happen; instances | two `.cfg` |
| `ScheduleProofs` | theorems about Schedule, with the inductive invariant | TLAPS |

### How state and steps correspond to the code

A Go map is a total function with a `No…` value for a missing key. A `*sql.DB`
is `<<d, n>>`, the n-th one opened for database `d`. A `*dbPool` is compared by
address in the code; `made`, the revision in which it was allocated, makes two
structs with equal contents different. A `DBConfig` is `conn` (all that
`applyConfig` compares) and `env`; a `QueryConfig` is its database, `schema`
(`value_column` and label names) and `sql` (all the rest of `sameQueryConfig`).

*Locks.* What is inside `pm.mu` or `wm.mu` is one step. `stateMu` and `reloadMu`
are variables. `transitionMu` and `reconcileMu` are implied by `stateMu`, which
every caller holds, so they are not modelled. The early return of `reconcile`
for an older revision is in `ReconcileBegin`, but it never happens: `Revisions`
in `IInv` says so.

*reload* is `ReloadReject` (load or validation error), `ReloadLoad`,
`ReloadDial` (takes `stateMu`; a nondeterministic set of dials succeeds),
`ReloadCommit`, the steps of `reconcile`, `ReloadUnlock`, `ReloadClose` (closes
what was replaced, computes the result).

*poolHealthChecker* is `ReconnectTick` (the snapshot), then for each failed
database `ReconnectDialFail`, or `ReconnectDialOk` followed by `ReconnectDiscard`
or by `ReconnectCommit`, `reconcile`, `ReconnectUnlock`, `ReconnectClose`. The
order of databases is that of a Go map: any.

*reconcile* visits the queries in any order, one step each. A visit that
cancels a goroutine is two: the cancel, then `ReconcileJoin`, enabled when the
goroutine has gone, which starts the successor if there is one. Workers of other
queries tick and finish between any two of these steps. `stats` is the local
result of `reconcile`; to it the model adds `stopped`, the queries that were
stopped for a schema conflict, with the schema they had: a query without a
worker is in order for this reason only, or while its database is pending.

*A worker goroutine* is idle (in `select`) or running (in `runOnce`, using its
`*sql.DB`), and it ends at its next `select` after it was cancelled. An interval
worker's immediate first run is one of the behaviours (the first step may be a
tick); the model allows it to wait as well.

*PoolMetrics* keeps of a transition the commit, each publication to the gauges
as a step of its own (a scrape may fall in between), and the close with
`deletePoolMetrics`. A loop iteration is: snapshot; per pool observe, check
`isCurrentPool`, publish. These are the points where the code is outside its
lock. The dial is part of the commit step there: that a late dial is discarded
is App's subject.

*QueryRows* extends the two managers: a visit of `reconcile` is WorkerManager's
step together with what it does to the registry. A series is a record of its
label names and values; the names count, for `Delete` and `GetMetricWith` do
nothing with names that the GaugeVec does not have. `dims` is what the
Prometheus registry remembers of a name for ever (`dimHashesByName`). A run is
`BeginRun`, `DatabaseAnswers` or `DatabaseFails`, `RegisterVec`, `PublishAll` or
`PublishFails`, then `Succeed`, `Fail` or, for a worker that was cancelled,
`GiveUp`: the points between which another worker or `reconcile` may touch the
registry. The rows of one run are written in one step. A reload is one step up
to its `reconcile`, so is a reconnect; App is the module that takes them apart.
Only values in `rows` and not in `blank` were ever set: `GetMetricWith` creates
a series with value 0. In this module the *sql.DB* are those of PoolManager but
nothing closes them.

*ConfigLoader* writes the recursion of `loadConfigWithContext` as a function on
the number of levels that are left, applied to the parameters of the call. A
file is told by its absolute path. An include is a path as it is written, which
`Join` turns into a file in the directory of the file that includes it; the
entries of `include_defaults` are keyed by such paths or by base names, as in
the code, so one entry may serve two files. `PathOrder` is the sorted order in
which the includes of any file are loaded. A query is told by its name and the
databases that it was cloned for, so that `name__db` never collides with a query
of that very name. A reload is one step. Errors that concern one field only are left out. The two
loops over includes and over the databases of an entry are functions on the
number of files looked at (`CallsUpTo`) and of loads merged (`MergedUpTo`); they
are separate since which loads there are depends on the file alone, not on what
the loads return.

*Lifecycle* gives each file a version that edits raise. `read` is what the last
reload has read and `missed`, which the code does not have, the files that were
edited since then while nobody watched their directory. `select` is the disjunction of the enabled
cases. Events that wait are one flag, since reading one or ten of them arms the
same timer. `publishWatchDirs` is two steps, its two selects. An edit after
`bgWG.Wait` has begun is nobody's business and left out.

*Schedule* counts time in slots, for the instants as well as for the wall clock;
a zone is an offset with one summer. `Date` and `AddDays` are package `time`,
modelled after what `time.Date` does with readings that do not exist or come
twice; they are marked external. The properties do not use them: they read the
wall clock at each instant.

## 3. Runs

| Run (`.cfg`) | Bounds | Expect | Shows |
|---|---|---|---|
| `AppOneQuery` | 2 databases, 1 query, 7 configurations, 3 reloads | pass | safety of connections, pools and workers; App implements `Connections` |
| `AppLiveness` | 1 database, 1 query, 2 configurations, 2 reloads | pass | the four progress properties |
| `AppFrozenMoves` | as `AppOneQuery`, 2 reloads | violation | finding 1 |
| `PoolMetrics` | 1 database, 2 connections, removal, 2 reloads | pass | exactness and freshness of the gauges |
| `PoolMetricsGhost` | the same | violation | finding 2 |
| `QueryRows` | 2 databases, 2 clones of one metric, 3 configurations, 2 rows (one of which no label can hold), 2 reloads | pass | rows and gauges of queries |
| `QueryRowsMoved` | 1 query that changes its columns or its database | violation | finding 3 |
| `ConfigLoader` | a root and two includes with the same base name, one of which is `sub/y.yaml` from either directory, a file outside; 6, 7 and 3 contents of them; depth 2 | pass | what a configuration is made of, and that edits are noticed |
| `ConfigLoaderInherit` | the same | violation | finding 5 |
| `Schedule` | days of 4 slots, 3 weeks, 3 zones, 6 scheduled times | pass | runs are at the next scheduled time, once |
| `ScheduleSpring` | a time in the hour left out | violation | finding 4 |
| `Lifecycle` | 2 files in 2 directories, 2 edits each | pass | no edit and no signal is lost; what ends the process |

Why the bounds are enough. The seven configurations of `AppOneQuery` differ in
each way that `applyConfig` and `reconcile` tell apart: another connection, only
another env, another schema, a move to another database (which may be the
default one), a move with another schema, removal. Three reloads are an
established state, a change, and a change while the first one is still pending
or half healed. Two databases are needed for a query to move. A second query
matters only for what one visit of `reconcile` does to the other worker; that is
`AppTwoQueries` below, and the theorems are about any number of queries. The
liveness run is smaller because its properties do not depend on where a query
moves. `PoolMetrics` needs one database: no step of a loop or a publication
relates two of them, except that a publication for one rewrites the others,
which is what a reload that leaves the database as it is does to it.

`QueryRows` needs two clones for everything about sharing and two reloads for a
worker that was restarted once and is stopped, restarted or frozen by the next.
One configuration gives one clone another label schema while the other clone
gets another statement and another env; the third removes the second clone with
its database and moves the first database to another address, which stops its
worker once the new address is reached, so that the last worker of the metric
goes too. The columns that a statement returns follow its text. One row of
two cannot be a label, so that a commit fails half way. `ConfigLoader` starts
from every combination of contents and allows every edit, in any order and
without a bound; a depth of 2 lets a file that includes itself, or two that
include each other, reach the limit in the instance. `Schedule` starts at every
instant of the first week and covers both changes of the clock with a week
between and after them; no entry lies in the hour that spring leaves out, which
is what `ScheduleSpring` is about. In `Lifecycle` the first edit of the root
makes it include the other file and not validate, the second one not load; two
edits of each file put one edit before and one after the directory is watched.

`MaxReloads` bounds the committed reloads; rejected ones are not bounded. Ticks
of `poolHealthChecker` are not bounded, but each successful dial counts up
`serial`, and those are bounded by the number of reloads: a discarded dial needs
a reload in between.

Properties that go beyond one step of one actor:

* `NoUseAfterClose`, `HandlesAccountedFor`, `ConnectionsSpec`: the life of a
  connection over reload, reconnect, reconcile and shutdown.
* `PoolsFollowConfig`, `WorkersFollowConfig`: the result of a reload, however
  reconnects interleave.
* `NewSqlOnlyOnAppliedPool`, `SchemaFrozenKeepsItsPool`,
  `UnaffectedQueriesRunOn`: what a step may never do to a query.
* `ConfigAppliedIsExact`, `SilentDeathShows`, `StatsCatchUp`: the gauges.
* `ValuesHaveOwners`, `PublishedRowsStay`, `StopSparesOthers`: a row belongs to
  one clone, over runs, failures, restarts, freezes and stops of both.
* `VecLivesWithItsWorkers`, `NoValueWhileDown`, `HealthFollowsWorkers`,
  `ConflictIsShown`: registration and health follow the workers.
* `QuietMeansApplied` in ConfigLoader, about *which* directories have to be
  watched, `QuietMeansCurrent` in Lifecycle, about the *order* of watching,
  reading and events. A reload that fails keeps the last good configuration:
  when the root is broken, and also when validation rejects what was loaded, for
  instance since a broken include held the database of `settings.default_db`.
  The first property leaves out both.
* `BrokenIncludeIsContained` compares what is loaded with the same for an empty
  file; whether validation accepts it is another matter.
* `ExplicitDBRunsOnce`, `DefaultFromNearest` hold clones and defaults to their
  rules over nested includes: who may name the database of a query, on which way
  from the root to its file, by which of two keys.
* `LastSnapshotArrives`, `NoReloadAfterTeardown`, `EditsAreLoaded`,
  `DeathIsReported`, `RequiredOrStopped`: the process.
* `DueIsTheNextTime`, `NoTimeRunsTwice`: schedules.

`RowsTypeOK`, `LifecycleTypeOK` and `ScheduleTypeOK` say what the variables of
their modules hold; no run lists them, they are parts of the invariants proved.

Deadlock is checked for App, PoolMetrics and ConfigLoader. App stops for good
only in `Terminated`; PoolMetrics never does, for a server may always change,
nor does ConfigLoader. The other three really may stop: QueryRows when no query
is left and the reloads are used up, Lifecycle at the exit of the process,
Schedule when the worker was stopped.

The largest of these runs are `AppOneQuery` (794 235 states), `QueryRows`
(752 867) and `Lifecycle` (79 574, with its progress properties); `ConfigLoader`
has 4425, each with the value of a recursive function to compare.

Six more configurations reproduce what section 5 describes and are run by
hand: `AppMismatch`, `AppSuccess`, `PoolMetricsUp`, `LifecycleWindow`,
`QueryRowsRenamed` and `ConfigLoaderClones`, each a violation of the one
property it names (`tlc -config AppMismatch.cfg MCApp`, and so on). Two more
pass: `AppTwoQueries`, what `AppOneQuery` says of workers and connections with 2
queries on 2 databases, 3 configurations and 2 reloads, which adds the order of
visits and the interplay of two workers (221 133 states); and
`ConfigLoaderPlain`, the property of `ConfigLoaderClones` where includes are
plain, for one database, two, and one of them twice (1710 states).

### Fairness

App (`AppProperties!Fairness`):

* weak fairness for code that just runs on: commit, unlock, close, the visits of
  `reconcile`, main's teardown, the tick and the dials of `poolHealthChecker`
  (a ticker that nothing stops), the end of a run (`runOnce` has a timeout);
* strong fairness for what waits for a mutex: a Go mutex in starvation mode
  hands over to the longest waiter;
* strong fairness for `select` branches that compete with a ticker (`Exit`,
  `ReconnectExit`, `WatcherExit`): `select` picks a ready case at random;
* strong fairness of a successful dial, per database: the environment's part,
  needed for `PendingHeals` and `WaitingQueriesStart` only.

No fairness for other triggers: nothing forces the watcher to fire, a worker to
tick or a shutdown to begin.

Lifecycle: weak fairness of main, of a reload that runs and of the watcher's
setup; strong fairness of each case of the watcher's `select`, of the two
callers of `reload` at its mutex, and of the debounce timer. The last one is the
assumption that edits do not come less than 150 ms apart for ever: each restarts
the timer. No edit, signal or failure has to come.

QueryRows, ConfigLoader and Schedule state safety only.

PoolMetrics: weak fairness of the two loops alone. `StatsCatchUp` also relies on
there being finitely many reloads (`MaxReloads`): a configuration that changes
faster than the loops look can be missed for ever.

## 4. Proofs

A run checks a property on a small instance; these theorems state it for every
value of the constants: any finite or infinite `DB`, `Query` and `Configs`, any
number of reloads, any directories and edits.

| Module | Theorem | States |
|---|---|---|
| `AppProofs` | `Invariance` | `Spec => []IInv` |
| | `TypeCorrect` | `Spec => []TypeOK` |
| | `NoConnectionLeaks` | `Spec => []HandlesAccountedFor` |
| | `ConnectionsStayOpen` | `Spec => []NoUseAfterClose` |
| | `QueriesDoNotOverlap` | `Spec => []OneGoroutinePerQuery` |
| | `ConnectionsRefined` | `Spec => ConnectionsSpec` |
| `AppFollowProofs` | `FollowInvariance` | `Spec => []FollowInv` |
| | `PoolsAreFollowing` | `Spec => []PoolsFollowConfig` |
| | `WorkersAreFollowing` | `Spec => []WorkersFollowConfig` |
| | `NewSqlNeedsItsPool` | `Spec => NewSqlOnlyOnAppliedPool` |
| | `SchemaFreezeHolds` | `Spec => SchemaFrozenKeepsItsPool` |
| | `UnaffectedQueriesAreLeftAlone` | `Spec => UnaffectedQueriesRunOn` |
| `PoolMetricsProofs` | `PoolMetricsInvariance` | `Spec => []PoolMetricsInv` |
| | `ConfigAppliedHolds` | `Spec => []ConfigAppliedIsExact` |
| `LifecycleProofs` | `LifecycleInvariance` | `Spec => []LifecycleInv` |
| | `NoWatchedEditIsLost` | `Spec => []QuietMeansCurrent` |
| | `TheLastSnapshotArrives` | `Spec => []LastSnapshotArrives` |
| | `TeardownIsFinal` | `Spec => NoReloadAfterTeardown` |
| `QueryRowsProofs` | `RowsInvariance` | `Spec => []RowsInv` |
| | `VecsLiveWithTheirWorkers` | `Spec => []VecLivesWithItsWorkers` |
| | `HealthGoesWithTheWorker` | `Spec => []HealthFollowsWorkers` |
| | `NoValueWithoutOwner` | `Spec => []ValuesHaveOwners` |
| `QueryRowsClonesProofs` | `ApartInvariance` | `ClonesStayApart`: `Spec => []ApartInv` |
| | `PublishedRowsAreKept` | `ClonesStayApart`: `Spec => []PublishedRowsStay` |
| | `DownMeansNoValue` | `ClonesStayApart`: `Spec => []NoValueWhileDown` |
| | `ConflictsAreShown` | `ClonesStayApart`: `Spec => []ConflictIsShown` |
| | `StopsSpareOthers` | `ClonesStayApart`: `Spec => StopSparesOthers` |
| `ScheduleProofs` | `ScheduleInvariance` | `Spec => []ScheduleInv` |
| | `NothingRunsTwice` | `Spec => []NoTimeRunsTwice` |
| | `DueComesNext` | `SpringIsAvoided`: `Spec => []DueIsTheNextTime` |
| `ConfigLoaderProofs` | `DependenciesSuffice` | files that agree on the dependencies of a configuration give the same one |
| | `LoaderInvariance` | `Spec => []LoaderInv` |
| | `LoaderTypes` | `Spec => []LoaderTypeOK` |
| | `QuietIsCurrent` | `Spec => []QuietMeansApplied` |
| | `BrokenIncludes` | `Spec => []BrokenIncludeIsContained` |
| | `ExplicitDBs` | `Spec => []ExplicitDBRunsOnce` |
| | `Defaults` | `Spec => []DefaultFromNearest` |
| | `ClonesRunApart` | `PlainIncludes`: `Spec => []ClonesDiffer` |

Assumptions: `SentinelsAreNotValues` (the `No…` constants are not among the
values they stand beside), `ConfigsAreWellFormed` (what
`validateDatabasesAndSettings` and `sanitizeQueries` let through),
`WantedAreDatabases`, `LifecycleAssumption`, `RowsAssumption`,
`ScheduleAssumption` and `LoaderAssumption` (the types of the constants of these
modules; in QueryRows with sentinels and configurations as for App, in Schedule
with a summer that is longer than the slot it is ahead by, in ConfigLoader with
every path of an include in `PathOrder`, which makes these paths finitely many,
and with a file for each path in each directory, by `Join`, about which nothing
else is assumed; how many levels may be nested is any number). TLC evaluates each of them in a run.
`ClonesStayApart`, `SpringIsAvoided` and `PlainIncludes` are no assumptions but
hypotheses of the theorems that name them. TLC evaluates them too, for the
instances `QueryRows`, `Schedule` and `ConfigLoaderPlain`
(`ClonesAreApart` in MCQueryRows, `AutumnAvoidsSpring` in MCSchedule,
`PlainContentsArePlain` in MCConfigLoader).

### Connections and goroutines of App

`NoUseAfterClose` is not inductive: that a closed handle has no
user follows from where every handle is and from what `reconcile` has done so
far. `IInv` adds

* `Locks`, `Locals`: who is in which section, and what the local variables hold
  there (nothing is left of `toClose`, `attemptDB`, `oldPool` outside of theirs);
* `Revisions`: the two managers carry the same revision except between commit
  and `reconcile`, which are one step of the holder of `stateMu`;
* `Placed`: a handle is in one place only (the pool of its database, dialled,
  to be closed, a reconnect's old one), and none has a number not issued yet;
* `Owned`: a goroutine is that of the worker in the map, except for the one
  `reconcile` waits for; a worker that `reconcile` has dealt with is on the
  current pool of its database; any other holds, at worst, what is retiring;
* `DefaultKnown`: `reconcile` never passes over a running query because it has
  no database. Without this a worker could stay on a pool about to be closed;
  it is the one place where the safety of connections depends on the validation
  of the configuration.

When `reconcile` is done no query is left to visit, so every worker is on a
current pool, and `Placed` says that a current handle is not one of those to be
closed. There is one lemma per group of actions that preserves `IInv`, with a
step per action and under it one per conjunct that the action can disturb.

### Following the configuration

`PoolsFollowConfig` speaks of the config in force and `WorkersFollowConfig` of
the moments when `stateMu` is free. The latter has two halves: a worker that
runs does so as its query wants it, and a query of the config has a worker at
all, unless its database is pending or `reconcile` stopped it for a schema
conflict. `FollowInv` adds to both and `IInv` what holds in the middle of a
`reconcile`:

* `WorkersFollow`: a worker that was visited follows its query, that is, it has
  the wanted config unless its database is pending or its schema would change;
  a worker about to be started has the old config in the first case only;
* `PoolsKeepAddress`: a `*dbPool` that looks like the one a worker holds is the
  same struct. `reconcile` compares addresses, the property compares contents;
  that they agree is a promise of `applyConfig`, which must not allocate a new
  struct for a database that is left alone;
* `QueriesHaveDatabases`: the database of a configured query has a pool or is
  pending, also between a commit and its `reconcile`. So `reconcile` never finds
  a wanted query without a database to run on, and stops none for that;
* `VisitedAreServed`: the second half of `WorkersFollowConfig`, for the queries
  that `reconcile` is done with.

The action properties follow from it with a case per action that writes
`workers` or `goroutines`. `UnaffectedQueriesRunOn` needs `PoolsKeepAddress`:
without it `reconcile` could restart a query for a pool that is the old one in
all but its address.

### App implements Connections

The mapping is in `AppProperties`: a handle is fresh while it is dialled and not
committed, current in a pool, retired in `toClose` or `oldPool`. Initial states
map to the initial state. `ReloadDial` and `ReconnectDialOk` open; a commit makes
the fresh ones current and retires what they replace; `ReloadClose`,
`ReconnectClose` and a discarded dial close; a start in `reconcile` is the start
of a use, the end of a goroutine its end; `closeAll` closes all current ones;
everything else is a stutter. The invariant is `IInv` and `Numbered`: handles
count from one, so that those opened so far are those up to `serial`.

### The gauges of databases

`ConfigAppliedIsExact` holds while `stateMu` is free; `PoolMetricsInv` says how
it comes about: one transition publishes at a time (`OnePublisher`); what is
about to be deleted is neither in the pool map nor pending, and no reconnect can
bring it back before (`RemovedAreGone`); ones are set before zeros, for a pending
database may have an old pool (`AppliedSoFar`). `TypeOK` alone is not inductive
here: a loop that has looked at a pool counts on the snapshot to have one
(`LooksAtAPool`).

### The process

`LifecycleInv` has one caller of `reload` at a time (`ReloadHasACaller`); what is
in the channel is what was published last, since only the holder of `reloadMu`
fills it (`ChannelHoldsTheLast`); main does not reload before it knows whether
the watch is up (`WatchBeforeReload`), so that no edit of the root after its
reading goes unseen (`RootIsSafe`). `NothingIsForgotten` is the
heart of `NoWatchedEditIsLost`: a file is as it was read, or it is `missed`, or
a reload is coming: there is an event, a running timer, a call that waits for
`reloadMu` or a reload that has still to read. A reload takes the pending ones
away only by reading what they announce.

`missed` is the window of finding 9: an include whose directory is not watched
yet may be edited between its reading and `watcher.Add`, and nothing tells. The
theorem leaves out these edits, and no others; that they are really lost is what
`LifecycleWindow` shows, so nothing is claimed of them.

### The rows of queries

`RowsInv` holds for all configurations. While `reconcile` waits for a cancelled
goroutine, a query may be answered for by a worker that is in no map any more,
so the invariant speaks of `Holder(n)` and adds

* `Threads`: each goroutine is the only one of its query and runs its holder;
  a run is under way exactly while the goroutine is in its run;
* `Waiting`: what `reconcile` has taken out for good, what it will start
  instead, and that the answer of `sharedByOthers` is still right at the stop;
* `RowsFitTheirVec`: rows have the label names of their GaugeVec, so that
  `Delete` and `GetMetricWith` act on what they are given;
* `OwnIdentity`, `BatchOfRun`: what a worker remembers (`prevLabels`) and what
  its run has read carry its own query and database;
* `ValuesAreShown`: each value is one that some worker answers for (`Shows`):
  the rows of its last success, or those of this run from their publication to
  its end.

That `ValuesHaveOwners` follows from this without uniqueness of (query, db) was
not obvious: two workers with one identity may take rows away from each other,
but they leave none behind.

The other four properties are about rows that are *there*, and one clone can
take away another's only if the two share one. Finding 10 is that this happens,
so they need `ClonesStayApart`: queries with one metric never get the same
database. The key of a clone, which has the database in it (`config.go:528`),
is there for this. The hypothesis is about all configurations of a behaviour
together: it also leaves out two queries of one metric that swap databases
in a reload, for one of them is started while the other still has the old one.
It is a condition on `Configs`, not on states. `ApartInv` then adds

* `ConfigInForce`, `StaysHome`: every worker, also one about to be started, is
  on a database of its query. Hence two clones share neither a series nor a
  gauge (`ClonesShareNothing`, `HealthIsApart`), the lemmas all else rests on;
* `ShownIsThere`: what a worker with several rows answers for has a value;
* `DownShowsNothing`: nothing is left of a query that is down, up to the moment
  when its next run has published, nor of a single-value query whose run failed;
* `ConflictIsDecided`, `NextHasWantedSchema`: the conflict gauge of each worker
  that `reconcile` is done with.

### Schedules

`ScheduleInv` says of the loop that it waits for what `nextRun` gave and has run
at what `Date` gives; the work is in the lemmas about `nextRun`:

* `DateReads`: `Date` finds an instant for every reading but the one that spring
  leaves out, and one next to it for that; `DateOfItsReading`: of two instants
  with one reading it always takes the same;
* `CandidateIsLater`: a candidate is after now, whatever `Date` had to evade;
* `CandidateIsOn`, `NothingIsSkipped`: where it had nothing to evade, a
  candidate is on the first day with its weekday, or a week later if that was
  now or before, and a scheduled time before it is an occurrence of a repeated
  reading;
* `MinIsLeast`: the least candidate exists, by well-foundedness of the naturals.

`NothingRunsTwice` therefore needs no hypothesis on the schedule. `DueComesNext`
does: for a time that spring leaves out it is false, which is finding 4.

### The loaded configuration

What is claimed here is about the value of a recursive function, for every depth
and every set of files. The argument is induction, once over the levels that are
left to a load and, inside of it, once over the loads that a file's includes
amount to. The library's induction theorems take an operator and cannot be
instantiated, but the least element of a set of numbers can be had
(`LeastOfNaturals`, by well-foundedness), and with it `Induction` for the set of
those numbers of which a statement holds. `CallsUpToDef`, `MergedUpToDef` and
`LoadDef` show that the functions satisfy the equations they are defined by:
that each is a CHOOSE of such a function has to be discharged by constructing
one, level by level. The statements that are carried through the recursion are

* `LoadType`: a load returns a configuration, or the error, and the latter
  exactly if the file itself fails (`FileFails`), whatever its includes do;
* `QueriesHold`: each worker is a query of the file it is from; one that names
  its database is no clone and is absent where the loads reject such queries;
  each runs on a database that `MayRunOn` allows on some chain, that is, on some
  way from the root to its file;
* `IncludeHolds`: a load is made at the end of a chain, as long as the levels
  that are used up (`ComesBy`); the entries it is given are for each key that of
  the nearest file on the chain (`EntriesHold`), and so its database is one that
  `IncludeDefaults` allows there;
* `SameResult`, about two sets of files: if they agree on the dependencies of
  what is loaded from the first, the second gives the same;
* `Contained`, about two sets of files of which one has the broken file emptied:
  the loads of that file differ, an error or nothing, and no other load defines
  anything else;
* `KeysTell`, for plain includes: a key has the database in it exactly if its
  file is an include for several.

`QuietMeansApplied` is not inductive: an edit that the watcher does not see must
not matter, and that is known only if all dependencies are in watched
directories. `LoaderInv` says so, for the files *as they are now*, and
`SameResult` carries it over an edit of any other file. That an unparsed include
counts as a dependency before it is loaded is what the induction needs at each
include; without it the step fails, as does the mutant `OwnDependenciesOnly`.

`ClonesRunApart` states where the promise of README.md:379 holds for defaults
too: included files have neither a `default_db` nor includes, and the root
includes neither itself nor one file by two paths. These are the conditions that
finding 10 breaks; with them, and with
the key that clones get (`config.go:528`), the loader meets what `ClonesStayApart`
asks of a single configuration for the clones of one include.

### What is only model-checked

Liveness, in App, PoolMetrics and Lifecycle: fairness is out of the prover's
reach. Every other property of a passing run is a theorem.

## 5. What the code does differently from what it says

Shown by a run:

1. **A frozen query may change its connection** (`worker_manager.go:123`). A
   query that moves to a pending database keeps its old config with its old
   database; if that one gets a new URL in the same reload, the old SQL goes on
   on the new connection. README.md:668 promises the old one. Run
   `AppFrozenMoves`. The analogous case of a schema conflict is caught
   (`worker_manager.go:154`, `SchemaFrozenKeepsItsPool`).
2. **Series of removed databases may come back for ever**
   (`pool_manager.go:318`, `:354`): check under the lock, `Set` outside it. No
   later tick visits the database. Run `PoolMetricsGhost`.
3. **The gauge of a runtime schema mismatch outlives its query**
   (`worker_manager.go:200`): a query that moves to another database leaves
   `app_query_runtime_schema_mismatch` of the old one at 1. In the run the
   mismatch comes from a row that cannot be resolved. README.md:487 has it
   for what is active right now. Run `QueryRowsMoved`.
4. **A shifted hour after the spring change** (`schedule.go:164`): `nextRun`
   takes the time on today's date first and moves it by `AddDate`. Where today
   does not have that time, the other day gets the shifted one, although it has
   the right one. Run `ScheduleSpring`.
5. **An include does not inherit a default database** (`config.go:388`).
   README.md:273 lists the parent's `default_db` as what an include without one
   of its own falls back to, and the comment at `config.go:43` says so too, or
   else `settings.default_db`. The code hands down the database of the
   `include_defaults` entry and skips an include without an entry
   (`config.go:371`); no `default_db` from above reaches it. README.md:277 has
   it as in the code, against 273. Run `ConfigLoaderInherit`. What the code does instead is
   `DefaultFromNearest`.

Shown by a configuration that is run by hand:

6. **The counter of the impossible grows in normal operation** (`app.go:171`).
   `poolHealthChecker` compares the workers' revision with the one it read
   before the dial. A reload during the dial makes them differ, and
   `app_internal_invariant_violations_total` counts it although nothing is
   wrong ("this should be impossible", `app.go:174`; "must always be 0",
   README.md:714); the check of `commitReconnect` (`pool_manager.go:254`) for
   exactly this case is never reached. `AppMismatch`.
7. **A reload counts as success though a query was stopped**
   (`worker_manager.go:142`, `app.go:294`): labels change and the old database
   leaves the config; the query is stopped, no counter tells. `AppSuccess`.
8. **`app_db_up` is set to 1 without a ping** (`pool_manager.go:216`): each
   reload and each reconnect of any database does that for all pools.
   `PoolMetricsUp`.
9. **A new include directory has a window** (`watcher.go:117`): `main.go:94`
   explains why the watch has to precede the first reading; for a directory
   that an include has just brought, the reading precedes the watch. An edit in
   between is not noticed. `LifecycleWindow`.
10. **(query, db) is not unique** (`worker_manager.go:284`, `metrics.go:347`). A
   query that is renamed but keeps its `metric_name` and database is started
   before its predecessor is stopped, whose end takes away the new one's row and
   gauges (`QueryRowsRenamed`). An include for several databases whose file has
   a `default_db`, or an include of its own for one database, gives clones that
   run on the same database and write one metric, which README.md:379 forbids
   for an explicit `db` (`ConfigLoaderClones`).

Read off the code and the models, without a property: `configSchemaConflict` is
not updated while the database of a frozen query is pending
(`worker_manager.go:123`): a conflict that is still there goes unseen for that
time, which `ConflictIsShown` leaves out and no other property catches; an entry
of `include_defaults` for a path also serves an include of a nested file that is
written the same and means another file (`config.go:366`), which the comment at
`config.go:363`, against sharing of entries by two files, does not foresee; `runMultiRow` leaves
rows of value 0 when a later row cannot be resolved (`worker.go:421`, `blank` in
QueryRows), and no later run that does not return them deletes them; a worker stopped by a schema conflict
is said to be gone "temporarily" (README.md:491) but only another reconcile
starts it again; an include directory that is removed and created again is not
watched again (`watcher.go:76`).

## 6. Not modelled, and why

* `reconnectInterval`: when `poolHealthChecker` ticks does not matter to what it
  may do.
* Query results, SQL, DSNs, drivers, TLS: data and external code. A dial, ping
  or query succeeds or fails nondeterministically; `max_rows`, duplicate rows
  and bad columns are failures of a run.
* In `config.go`: the checks of single fields, environment variables in URLs,
  driver names, defaults of pools and time zones. They transform or reject
  values and keep no state; what they guarantee is `WellFormed` in ConfigTypes.
* In `schedule.go`: the parsing of weekdays and times.
* In `watcher.go`: which events pass the filter by file name, and directories
  that are removed. An overflow of fsnotify's queue is logged by the code and
  loses events; it is not modelled either.
* Counters, histograms and timestamps in `metrics.go`.
* HTTP, logging, Helm, Docker: no state that matters here.
* A panic or a kill of the process: nothing is persisted, so a restart is `Init`.

## 7. Plan

Done: all modules of section 2. Every safety property of the passing runs is a
theorem, and so is the refinement of `Connections`. What remains with TLC are
the progress properties. What could come next is what section 6 leaves out, the
checks of single fields and the events of directories that go away before all.
