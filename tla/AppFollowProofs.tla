--------------------------- MODULE AppFollowProofs ---------------------------
(***************************************************************************)
(* Pools and workers follow the configuration, and no step disturbs a      *)
(* query more than the configuration asks for, for any number of           *)
(* databases, queries, configurations and reloads: FollowInv is inductive. *)
(***************************************************************************)
EXTENDS AppProofs

USE DEF DBConfig, Handle, Pool, QueryConfig, Config, RunnableQuery, Worker,
        Goroutine, Snap

-----------------------------------------------------------------------------
(* Which steps matter                                                      *)

\* What the decisions of reconcile depend on, and their result.
decisionVars == <<pools, failedPools, defaultDB, lastQueries, workers,
                  recTodo, recWait, recThen, stats>>

\* A step that decides nothing about a database or a query.
Frame ==
    /\ UNCHANGED decisionVars
    /\ \/ reloadPc' = "loaded"
       \/ newCfg' = newCfg /\ reloadPc' = "dialled"
       \/ newCfg' = newCfg /\ reloadPc \notin {"loaded", "dialled"}

\* The two commits and the visits of reconcile are the only steps that decide
\* anything.
LEMMA StepKinds ==
    ASSUME IInv, [Next]_vars
    PROVE  Frame \/ ReloadCommit \/ ReconnectCommit \/ ReconcileStep
<1> USE DEF Frame, decisionVars, reloadVars, checkerVars, threadVars,
            sharedVars, appVars, pmVars, wmVars
<1>1. CASE ReloadStart
  <2>1. PICK who \in {"main", "watcher"} :
            ReloadReject(who) \/ \E cfg \in Configs : ReloadLoad(who, cfg)
    BY <1>1 DEF ReloadStart
  <2>2. CASE ReloadReject(who)
    BY <2>2 DEF ReloadReject, IInv, Locks
  <2>3. CASE \E cfg \in Configs : ReloadLoad(who, cfg)
    BY <2>3 DEF ReloadLoad
  <2> QED
    BY <2>1, <2>2, <2>3
<1>2. CASE ReloadStep
  BY <1>2 DEF ReloadStep, ReloadDial, ReloadUnlock, ReloadClose, ClosePools
<1>3. CASE ReconnectStep
  <2> SUFFICES ASSUME ReconnectStep, ~ReconnectCommit
               PROVE  UNCHANGED <<decisionVars, newCfg, reloadPc>>
    BY <1>3, Zenon DEF IInv, TypeOK, AppTypeOK
  <2> QED
    BY DEF ReconnectStep, ReconnectTick, ReconnectDial, ReconnectDialFail,
           ReconnectDialOk, ReconnectLock, ReconnectDiscard, ReconnectUnlock,
           ReconnectClose, ReconnectDone, ReconnectExit, ClosePools
<1>4. CASE WorkerStep
  BY <1>4 DEF WorkerStep, Tick, Finish, Exit, WorkerTick, WorkerFinish,
              WorkerExit
<1>5. CASE WatcherTrigger \/ WatcherExit \/ Shutdown \/ MainStep
  BY <1>5 DEF WatcherTrigger, WatcherExit, Shutdown, CancelContext, MainStep,
              StopAll, CloseAll, ClosePools
<1>6. CASE Terminated \/ UNCHANGED vars
  BY <1>6 DEF Terminated, vars
<1> QED
  BY <1>1, <1>2, <1>3, <1>4, <1>5, <1>6 DEF Next

-----------------------------------------------------------------------------
(* FollowInv holds at the start and is kept by every step                  *)

LEMMA InitFollowInv == Init => FollowInv
<1> SUFFICES ASSUME Init PROVE FollowInv
  OBVIOUS
<1>1. PoolsFollowConfig
  BY DEF Init, PMInit, EmptyConfig, PoolsFollowConfig
<1>2. WorkersFollow /\ PoolsKeepAddress
  BY DEF Init, WMInit, WorkersFollow, PoolsKeepAddress, Running
<1>3. QueriesHaveDatabases /\ VisitedAreServed
  BY DEF Init, WMInit, QueriesHaveDatabases, VisitedAreServed
<1> QED
  BY <1>1, <1>2, <1>3, InitIInv DEF FollowInv

\* A step that decides nothing keeps what has been decided.
LEMMA FrameKeepsFollow ==
    ASSUME FollowInv, Frame
    PROVE  (PoolsFollowConfig /\ WorkersFollow /\ PoolsKeepAddress)'
<1> USE DEF FollowInv, Frame, decisionVars
<1>1. PoolsFollowConfig'
  BY DEF PoolsFollowConfig
<1>2. WorkersFollow'
  BY DEF WorkersFollow, Follows, WantedQuery, Wanted, IsPending, PendingDBs,
         Running, Settled
<1>3. PoolsKeepAddress'
  BY DEF PoolsKeepAddress, Running
<1> QED
  BY <1>1, <1>2, <1>3

LEMMA FrameKeepsServed ==
    ASSUME FollowInv, Frame
    PROVE  (QueriesHaveDatabases /\ VisitedAreServed)'
BY DEF FollowInv, Frame, decisionVars, QueriesHaveDatabases, VisitedAreServed,
       StoppedForSchema, WantedQuery, Wanted, PendingDBs, Running

\* The database of a configured query that reconcile visits is known.
LEMMA VisitedIsConfigured ==
    ASSUME IInv, NEW n \in recTodo
    PROVE  n \in Query /\ lastQueries[n] # NoQuery /\ WantedQuery(n).db # NoDB
<1>1. n \in Query /\ lastQueries[n] # NoQuery
  BY DEF IInv, TypeOK, WMTypeOK, Locals
<1>2. lastQueries[n] \in QueryConfig
  BY <1>1 DEF IInv, TypeOK, WMTypeOK
<1>3. lastQueries[n].db = NoDB => defaultDB # NoDB
  BY <1>1 DEF IInv, DefaultKnown
<1> QED
  BY <1>1, <1>2, <1>3 DEF WantedQuery, Wanted

\* What reconcile decides to run has the wanted config, unless the query runs
\* already and its database is pending or its schema would change.
LEMMA EffectiveFollows ==
    ASSUME NEW n \in Query
    PROVE  /\ Effective(n, Snap) =
                  IF /\ Running(n)
                     /\ \/ IsPending(n, Snap)
                        \/ workers[n].cfg.schema # WantedQuery(n).schema
                  THEN workers[n].cfg ELSE WantedQuery(n)
           /\ IsPending(n, Snap) <=> WantedQuery(n).db \in PendingDBs
           /\ SchemaChanged(n, Snap) <=>
                  /\ Running(n) /\ ~IsPending(n, Snap)
                  /\ workers[n].cfg.schema # WantedQuery(n).schema
<1>1. WantedQuery(n) = Wanted(n, Snap)
  BY DEF WantedQuery
<1>2. IsPending(n, Snap) <=> Wanted(n, Snap).db \in PendingDBs
  BY DEF IsPending
<1> QED
  BY <1>1, <1>2 DEF Effective, Candidate, SchemaChanged

-----------------------------------------------------------------------------
(* The two commits                                                         *)

\* After the commit of a reload each database is decided.
LEMMA CommitFollowsConfig ==
    ASSUME FollowInv, ReloadCommit
    PROVE  PoolsFollowConfig'
<1> DEFINE dbs == newCfg.dbs
           Wrapped(d, h) == [cfg |-> dbs[d], db |-> h, made |-> revision]
<1>1. newCfg' = newCfg /\ reloadPc = "dialled"
  BY DEF ReloadCommit
<1>2. SUFFICES ASSUME NEW d \in DB
               PROVE  IF dbs[d] = NoConfig
                      THEN pools'[d] = NoPool /\ failedPools'[d] = NoConfig
                      ELSE \/ /\ failedPools'[d] = dbs[d]
                              /\ pools'[d] # NoPool =>
                                     pools'[d].cfg.conn # dbs[d].conn
                           \/ /\ failedPools'[d] = NoConfig
                              /\ pools'[d] # NoPool
                              /\ pools'[d].cfg = dbs[d]
  BY <1>1, Zenon DEF PoolsFollowConfig
<1>3. /\ pools[d] # NoPool => pools[d] \in Pool
      /\ dbs[d] # NoConfig => dbs[d] \in DBConfig
      /\ dialed[d] # NoHandle => dialed[d] \in Handle
      /\ revision \in Nat
  BY DEF FollowInv, IInv, TypeOK, PMTypeOK, AppTypeOK
<1>4. \A h \in Handle : dbs[d] # NoConfig =>
          Wrapped(d, h) # NoPool /\ Wrapped(d, h).cfg = dbs[d]
  BY <1>3, SentinelsAreNotValues
<1>5. pools'[d] = IF dbs[d] = NoConfig THEN NoPool
                  ELSE IF dialed[d] # NoHandle THEN Wrapped(d, dialed[d])
                  ELSE IF ~NeedUpdate(d, dbs) /\ pools[d].cfg.env # dbs[d].env
                       THEN Wrapped(d, pools[d].db)
                  ELSE pools[d]
  BY DEF ReloadCommit, ApplyConfig, NewPools
<1>6. failedPools'[d] = IF /\ dbs[d] # NoConfig /\ NeedUpdate(d, dbs)
                           /\ dialed[d] = NoHandle
                        THEN dbs[d] ELSE NoConfig
  BY DEF ReloadCommit, ApplyConfig, NewFailed, ToDial
<1>7. NeedUpdate(d, dbs) <=>
          pools[d] = NoPool \/ pools[d].cfg.conn # dbs[d].conn
  BY DEF NeedUpdate
<1> HIDE DEF dbs, Wrapped
<1>8. CASE dbs[d] = NoConfig
  BY <1>5, <1>6, <1>8
<1>9. CASE dbs[d] # NoConfig /\ dialed[d] # NoHandle
  BY <1>3, <1>4, <1>5, <1>6, <1>9
<1>10. CASE dbs[d] # NoConfig /\ dialed[d] = NoHandle
  <2>1. CASE NeedUpdate(d, dbs)
    BY <1>5, <1>6, <1>7, <1>10, <2>1
  <2>2. CASE ~NeedUpdate(d, dbs)
    <3>1. pools[d] # NoPool /\ pools[d].cfg.conn = dbs[d].conn
      BY <1>7, <2>2
    <3>2. CASE pools[d].cfg.env # dbs[d].env
      BY <1>3, <1>4, <1>5, <1>6, <1>10, <2>2, <3>1, <3>2
    <3>3. CASE pools[d].cfg.env = dbs[d].env
      <4>1. pools[d].cfg = dbs[d]
        BY <1>3, <1>10, <3>1, <3>3
      <4> QED
        BY <1>5, <1>6, <1>10, <2>2, <3>1, <3>3, <4>1
    <3> QED
      BY <3>2, <3>3
  <2> QED
    BY <2>1, <2>2
<1> QED
  BY <1>8, <1>9, <1>10

\* While stateMu is free nothing is left to visit, and each worker is on the
\* pool that its database has.
LEMMA BetweenTransitions ==
    ASSUME IInv, ~Reconciling
    PROVE  /\ recTodo = {} /\ recWait = NoQuery /\ recThen = NoWorker
           /\ \A n \in Query : Running(n) =>
                  /\ Settled(n) /\ workers[n].cfg.db \in DB
                  /\ workers[n].pool = pools[workers[n].cfg.db]
                  /\ workers[n].pool # NoPool
<1>1. recTodo = {} /\ recWait = NoQuery /\ recThen = NoWorker
  BY DEF IInv, Locals
<1>2. ASSUME NEW n \in Query, Running(n)
      PROVE  /\ Settled(n) /\ workers[n].cfg.db \in DB
             /\ workers[n].pool = pools[workers[n].cfg.db]
             /\ workers[n].pool # NoPool
  <2>1. Settled(n)
    BY <1>1, <1>2, SentinelsAreNotValues DEF IInv, Owned, Settled
  <2>2. workers[n] \in Worker
    BY <1>2 DEF IInv, TypeOK, WMTypeOK, Running
  <2>3. OnCurrentPool(workers[n])
    BY <1>2, <2>1 DEF IInv, Owned
  <2> QED
    BY <2>1, <2>2, <2>3, SentinelsAreNotValues DEF OnCurrentPool
<1> QED
  BY <1>1, <1>2

\* A handle that a pool keeps through the commit stays with its database, and
\* the struct is a new one only with another config.
LEMMA ReloadCommitKeepsFollow ==
    ASSUME FollowInv, ReloadCommit
    PROVE  (PoolsFollowConfig /\ WorkersFollow /\ PoolsKeepAddress)'
<1> USE DEF FollowInv
<1>1. ~Reconciling
  BY DEF IInv, Locks, Reconciling, ReloadCommit
<1>2. /\ lastQueries' = newCfg.queries
      /\ recTodo' = {n \in Query : newCfg.queries[n] # NoQuery}
      /\ UNCHANGED <<workers, recWait, recThen>>
  <2>1. revision >= lastQueriesRevision /\ revision \in Nat
    BY DEF ReloadCommit, IInv, Revisions, TypeOK, PMTypeOK, AppTypeOK
  <2> QED
    BY <2>1, ReconcileBeginFacts DEF ReloadCommit, IInv, TypeOK
<1>3. WorkersFollow'
  BY <1>1, <1>2, BetweenTransitions DEF WorkersFollow, Settled
<1>4. PoolsKeepAddress'
  <2> SUFFICES ASSUME NEW n \in Query, Running(n), NEW d \in DB,
                      pools'[d] # NoPool,
                      pools'[d].db = workers[n].pool.db,
                      pools'[d].cfg = workers[n].pool.cfg
               PROVE  pools'[d] = workers[n].pool
    BY <1>2 DEF PoolsKeepAddress, Running
  <2> DEFINE e == workers[n].cfg.db
  <2>1. e \in DB /\ pools[e] = workers[n].pool /\ pools[e] # NoPool
    BY <1>1, BetweenTransitions
  <2>2. pools[e].db[1] = e /\ pools[e].db # dialed[e]
    BY <2>1 DEF IInv, Placed
  <2>3. CASE dialed[d] # NoHandle /\ pools'[d].db = dialed[d]
    <3>1. dialed[d][1] = d
      BY <2>3 DEF IInv, Placed
    <3> QED
      BY <2>1, <2>2, <2>3, <3>1
  <2>4. CASE /\ dialed[d] = NoHandle /\ newCfg.dbs[d] # NoConfig
             /\ pools[d] # NoPool /\ pools'[d].db = pools[d].db
    <3>1. d = e
      BY <2>1, <2>2, <2>4 DEF IInv, Placed
    <3>2. \/ pools'[d] = pools[d]
          \/ /\ pools'[d].cfg = newCfg.dbs[d]
             /\ pools[d].cfg.env # newCfg.dbs[d].env
      BY <2>4 DEF ReloadCommit, ApplyConfig, NewPools
    <3> QED
      BY <2>1, <3>1, <3>2
  <2> QED
    BY <2>3, <2>4, CommitOneDatabase
<1> QED
  BY <1>3, <1>4, CommitFollowsConfig

\* A reconnect brings exactly the config that waits for its database, and a
\* connection that no worker holds yet.
LEMMA ReconnectCommitKeepsFollow ==
    ASSUME FollowInv, ReconnectCommit
    PROVE  (PoolsFollowConfig /\ WorkersFollow /\ PoolsKeepAddress)'
<1> USE DEF FollowInv
<1>1. ~Reconciling
  BY DEF IInv, Locks, Reconciling, ReconnectCommit
<1>2. /\ lastQueries' = lastQueries
      /\ recTodo' = {n \in Query : lastQueries[n] # NoQuery}
      /\ UNCHANGED <<workers, recWait, recThen>>
  <2>1. lastQueriesRevision \in Nat
    BY DEF IInv, TypeOK, WMTypeOK
  <2> QED
    BY <2>1, ReconcileBeginFacts DEF ReconnectCommit, IInv, TypeOK
<1>3. WorkersFollow'
  BY <1>1, <1>2, BetweenTransitions DEF WorkersFollow, Settled
<1>4. /\ attempt \in DB /\ attemptDB \in Handle
      /\ failedPools[attempt] # NoConfig
      /\ snapFailed[attempt] = failedPools[attempt]
      /\ pmRevision \in Nat
      /\ failedPools[attempt] \in DBConfig
  BY DEF ReconnectCommit, IsFresh, CanCommit, IInv, TypeOK, AppTypeOK,
         PMTypeOK, Locals
<1> DEFINE p == [cfg |-> failedPools[attempt], db |-> attemptDB,
                 made |-> pmRevision]
<1>5. /\ pools' = [pools EXCEPT ![attempt] = p]
      /\ failedPools' = [failedPools EXCEPT ![attempt] = NoConfig]
      /\ UNCHANGED <<newCfg, reloadPc>>
  BY <1>4 DEF ReconnectCommit, CommitReconnect, reloadVars
<1>6. p # NoPool /\ p.cfg = failedPools[attempt] /\ p.db = attemptDB
  BY <1>4, SentinelsAreNotValues
<1>7. /\ pools'[attempt] = p /\ failedPools'[attempt] = NoConfig
      /\ \A d \in DB \ {attempt} :
             pools'[d] = pools[d] /\ failedPools'[d] = failedPools[d]
  BY <1>4, <1>5 DEF IInv, TypeOK, PMTypeOK
<1> HIDE DEF p
<1>8. PoolsFollowConfig'
  <2> SUFFICES ASSUME reloadPc \notin {"loaded", "dialled"}, NEW d \in DB
               PROVE  IF newCfg.dbs[d] = NoConfig
                      THEN pools'[d] = NoPool /\ failedPools'[d] = NoConfig
                      ELSE \/ /\ failedPools'[d] = newCfg.dbs[d]
                              /\ pools'[d] # NoPool =>
                                     pools'[d].cfg.conn # newCfg.dbs[d].conn
                           \/ /\ failedPools'[d] = NoConfig
                              /\ pools'[d] # NoPool
                              /\ pools'[d].cfg = newCfg.dbs[d]
    BY <1>5, Zenon DEF PoolsFollowConfig
  <2>1. CASE d = attempt
    <3>1. newCfg.dbs[d] # NoConfig /\ failedPools[d] = newCfg.dbs[d]
      BY <1>4, <2>1 DEF PoolsFollowConfig
    <3> QED
      BY <1>6, <1>7, <2>1, <3>1
  <2>2. CASE d # attempt
    BY <1>7, <2>2 DEF PoolsFollowConfig
  <2> QED
    BY <2>1, <2>2
<1>9. PoolsKeepAddress'
  <2> SUFFICES ASSUME NEW n \in Query, Running(n), NEW d \in DB,
                      pools'[d] # NoPool,
                      pools'[d].db = workers[n].pool.db,
                      pools'[d].cfg = workers[n].pool.cfg
               PROVE  pools'[d] = workers[n].pool
    BY <1>2 DEF PoolsKeepAddress, Running
  <2>1. CASE d = attempt
    <3>1. workers[n].pool.db # attemptDB
      BY <1>1, BetweenTransitions DEF IInv, Placed
    <3> QED
      BY <1>6, <1>7, <2>1, <3>1
  <2>2. CASE d # attempt
    BY <1>7, <2>2 DEF PoolsKeepAddress
  <2> QED
    BY <2>1, <2>2
<1> QED
  BY <1>3, <1>8, <1>9

-----------------------------------------------------------------------------
(* The visits of reconcile                                                 *)

\* reconcile changes neither the configuration nor the pools.
LEMMA ReconcileFrame ==
    ASSUME FollowInv, Reconciling,
           UNCHANGED <<appVars, pmVars, lastQueries>>
    PROVE  /\ PoolsFollowConfig'
           /\ PendingDBs' = PendingDBs
           /\ \A n \in Query :
                  /\ WantedQuery(n)' = WantedQuery(n)
                  /\ IsPending(n, Snap)' = IsPending(n, Snap)
           /\ UNCHANGED <<pools, failedPools, defaultDB>>
BY DEF FollowInv, PoolsFollowConfig, PendingDBs, WantedQuery, Wanted,
       IsPending, appVars, pmVars, reloadVars, checkerVars, threadVars,
       sharedVars

\* A worker on the pool its database has now keeps the address: no other
\* database has its handle.
LEMMA OnCurrentPoolKeepsAddress ==
    ASSUME IInv, NEW w \in Worker, OnCurrentPool(w), NEW d \in DB,
           pools[d] # NoPool, pools[d].db = w.pool.db
    PROVE  pools[d] = w.pool
<1>1. w.cfg.db \in DB /\ pools[w.cfg.db] = w.pool /\ w.pool # NoPool
  BY SentinelsAreNotValues DEF OnCurrentPool
<1>2. pools[d].db[1] = d /\ w.pool.db[1] = w.cfg.db
  BY <1>1 DEF IInv, Placed
<1> QED
  BY <1>1, <1>2

\* A query that reconcile leaves as it is follows, or has no worker.
LEMMA LeaveKeepsFollow ==
    ASSUME FollowInv, NEW n \in Query, Reconcile(ReconcileLeave(n, Snap))
    PROVE  (PoolsFollowConfig /\ WorkersFollow /\ PoolsKeepAddress)'
<1> USE DEF FollowInv
<1>1. /\ Reconciling /\ n \in recTodo
      /\ UNCHANGED <<appVars, pmVars, lastQueries, workers, recWait, recThen>>
      /\ recTodo' = recTodo \ {n}
  BY DEF Reconcile, ReconcileLeave
<1>2. Running(n) => Follows(n, workers[n])
  <2> SUFFICES ASSUME Running(n) PROVE Follows(n, workers[n])
    OBVIOUS
  <2>1. ~Skips(n, Snap)
    BY <1>1, VisitedIsConfigured DEF Skips, WantedQuery
  <2>2. workers[n] = Target(n, Snap)
    BY <2>1 DEF Reconcile, ReconcileLeave, Keeps
  <2>3. workers[n].cfg = Effective(n, Snap)
    BY <2>2 DEF Target
  <2> QED
    BY <2>3, EffectiveFollows DEF Follows
<1>3. \A m \in Query : Follows(m, workers[m])' = Follows(m, workers[m])
  BY <1>1, ReconcileFrame DEF Follows
<1>4. \A m \in Query : /\ Running(m)' = Running(m)
                       /\ m # n => Settled(m)' = Settled(m)
  BY <1>1 DEF Running, Settled
<1>5. WorkersFollow'
  <2>1. \A m \in Query : Running(m)' /\ Settled(m)' => Follows(m, workers[m])'
    BY <1>2, <1>3, <1>4 DEF WorkersFollow
  <2>2. recThen = NoWorker
    BY DEF Reconcile, ReconcileLeave, IInv, Locals
  <2> QED
    BY <1>1, <2>1, <2>2 DEF WorkersFollow
<1>6. PoolsKeepAddress'
  BY <1>1, <1>4, ReconcileFrame DEF PoolsKeepAddress
<1> QED
  BY <1>1, <1>5, <1>6, ReconcileFrame

\* A new worker has the wanted config and the pool of its database.
LEMMA StartKeepsFollow ==
    ASSUME FollowInv, NEW n \in Query, Reconcile(ReconcileStart(n, Snap))
    PROVE  (PoolsFollowConfig /\ WorkersFollow /\ PoolsKeepAddress)'
<1> USE DEF FollowInv
<1>1. /\ Reconciling /\ n \in recTodo /\ ~Running(n)
      /\ ~Skips(n, Snap) /\ ~Stops(n, Snap)
      /\ UNCHANGED <<appVars, pmVars, lastQueries, recWait, recThen>>
      /\ workers' = [workers EXCEPT ![n] = Target(n, Snap)]
      /\ recTodo' = recTodo \ {n} /\ recThen = NoWorker
  BY DEF Reconcile, ReconcileStart, Starts, IInv, Locals
<1>2. workers'[n] = Target(n, Snap) /\ \A m \in Query \ {n} : workers'[m] = workers[m]
  BY <1>1 DEF IInv, TypeOK, WMTypeOK
<1>3. Follows(n, Target(n, Snap))
  BY <1>1, EffectiveFollows DEF Follows, Target
<1>4. WorkersFollow'
  <2> SUFFICES ASSUME NEW m \in Query, Running(m)', Settled(m)'
               PROVE  Follows(m, workers[m])'
    BY <1>1 DEF WorkersFollow
  <2>1. CASE m = n
    BY <1>1, <1>2, <1>3, <2>1, ReconcileFrame DEF Follows
  <2>2. CASE m # n
    <3>1. Follows(m, workers[m])
      BY <1>1, <1>2, <2>2 DEF WorkersFollow, Running, Settled
    <3> QED
      BY <1>1, <1>2, <2>2, <3>1, ReconcileFrame DEF Follows
  <2> QED
    BY <2>1, <2>2
<1>5. PoolsKeepAddress'
  <2> SUFFICES ASSUME NEW m \in Query, workers'[m] # NoWorker, NEW d \in DB,
                      pools[d] # NoPool,
                      pools[d].db = workers'[m].pool.db,
                      pools[d].cfg = workers'[m].pool.cfg
               PROVE  pools[d] = workers'[m].pool
    BY <1>1, ReconcileFrame DEF PoolsKeepAddress, Running
  <2>1. CASE m = n
    BY <1>1, <1>2, <2>1, TargetIsOnCurrentPool, OnCurrentPoolKeepsAddress
  <2>2. CASE m # n
    BY <1>2, <2>2 DEF PoolsKeepAddress, Running
  <2> QED
    BY <2>1, <2>2
<1> QED
  BY <1>1, <1>4, <1>5, ReconcileFrame

\* A restart is of a running query; what it is going to run is the target.
LEMMA RestartKeepsFollow ==
    ASSUME FollowInv, NEW n \in Query, Reconcile(ReconcileRestart(n, Snap))
    PROVE  (PoolsFollowConfig /\ WorkersFollow /\ PoolsKeepAddress)'
<1> USE DEF FollowInv
<1>1. /\ Reconciling /\ n \in recTodo /\ Running(n)
      /\ ~Skips(n, Snap) /\ ~Stops(n, Snap) /\ ~Keeps(n, Snap)
      /\ UNCHANGED <<appVars, pmVars, lastQueries, workers>>
      /\ recTodo' = recTodo \ {n} /\ recWait = NoQuery
      /\ recWait' = n /\ recThen' = Target(n, Snap)
  BY DEF Reconcile, ReconcileRestart, Restarts, Keeps
<1>2. Target(n, Snap).cfg = IF IsPending(n, Snap) THEN workers[n].cfg
                                                  ELSE WantedQuery(n)
  <2>1. Target(n, Snap).cfg = Effective(n, Snap)
    BY DEF Target
  <2>2. ASSUME SchemaChanged(n, Snap) PROVE FALSE
    <3>1. Effective(n, Snap) = workers[n].cfg
      BY <2>2 DEF Effective
    <3>2. workers[n].pool = TargetPool(n, Snap)
      BY <1>1, <2>2 DEF Stops
    <3>3. workers[n] \in Worker
      BY <1>1 DEF Running, IInv, TypeOK, WMTypeOK
    <3>4. workers[n] = Target(n, Snap)
      BY <3>1, <3>2, <3>3 DEF Target
    <3> QED
      BY <1>1, <3>4 DEF Keeps
  <2> QED
    BY <1>1, <2>1, <2>2, EffectiveFollows
<1>3. WorkersFollow'
  <2>1. ASSUME NEW m \in Query, Running(m)', Settled(m)'
        PROVE  Follows(m, workers[m])'
    <3>1. m # n /\ m # NoQuery
      BY <1>1, <2>1, SentinelsAreNotValues DEF Settled
    <3>2. Follows(m, workers[m])
      BY <1>1, <2>1, <3>1 DEF WorkersFollow, Running, Settled
    <3> QED
      BY <1>1, <3>2, ReconcileFrame DEF Follows
  <2>2. /\ Running(n)'
        /\ recThen'.cfg = IF IsPending(n, Snap)' THEN workers'[n].cfg
                                                 ELSE WantedQuery(n)'
    BY <1>1, <1>2, ReconcileFrame DEF Running
  <2> QED
    BY <1>1, <2>1, <2>2 DEF WorkersFollow
<1>4. PoolsKeepAddress'
  BY <1>1, ReconcileFrame DEF PoolsKeepAddress, Running
<1> QED
  BY <1>1, <1>3, <1>4, ReconcileFrame

\* stopWorker only takes a worker away.
LEMMA StopKeepsFollow ==
    ASSUME FollowInv, NEW n \in Query,
           \/ Reconcile(ReconcileStop(n, Snap))
           \/ Reconcile(ReconcileRemove(n))
    PROVE  (PoolsFollowConfig /\ WorkersFollow /\ PoolsKeepAddress)'
<1> USE DEF FollowInv
<1>1. /\ Reconciling
      /\ UNCHANGED <<appVars, pmVars, lastQueries>>
      /\ workers' = [workers EXCEPT ![n] = NoWorker]
      /\ recTodo' \in {recTodo, recTodo \ {n}} /\ recWait = NoQuery
      /\ recThen' = NoWorker
  BY DEF Reconcile, ReconcileStop, ReconcileRemove, StopWorker
<1>2. workers'[n] = NoWorker /\ \A m \in Query \ {n} : workers'[m] = workers[m]
  BY <1>1 DEF IInv, TypeOK, WMTypeOK
<1>3. WorkersFollow'
  <2> SUFFICES ASSUME NEW m \in Query, Running(m)', Settled(m)'
               PROVE  Follows(m, workers[m])'
    BY <1>1 DEF WorkersFollow
  <2>1. m # n /\ m # NoQuery
    BY <1>2, SentinelsAreNotValues DEF Running
  <2>2. Follows(m, workers[m])
    BY <1>1, <1>2, <2>1 DEF WorkersFollow, Running, Settled
  <2> QED
    BY <1>1, <1>2, <2>1, <2>2, ReconcileFrame DEF Follows
<1>4. PoolsKeepAddress'
  BY <1>1, <1>2, ReconcileFrame DEF PoolsKeepAddress, Running
<1> QED
  BY <1>1, <1>3, <1>4, ReconcileFrame

\* The successor was decided with the pools and the config of this reconcile.
LEMMA JoinKeepsFollow ==
    ASSUME FollowInv, Reconcile(ReconcileJoin)
    PROVE  (PoolsFollowConfig /\ WorkersFollow /\ PoolsKeepAddress)'
<1> USE DEF FollowInv
<1> DEFINE n == recWait
<1>1. /\ Reconciling /\ n \in Query
      /\ UNCHANGED <<appVars, pmVars, lastQueries, recTodo>>
      /\ workers' = IF recThen = NoWorker THEN workers
                    ELSE [workers EXCEPT ![n] = recThen]
      /\ recWait' = NoQuery /\ recThen' = NoWorker
  BY DEF Reconcile, ReconcileJoin, IInv, TypeOK, WMTypeOK
<1>2. /\ workers'[n] = IF recThen = NoWorker THEN workers[n] ELSE recThen
      /\ \A m \in Query \ {n} : workers'[m] = workers[m]
  BY <1>1 DEF IInv, TypeOK, WMTypeOK
<1>3. recThen = NoWorker => ~Running(n)
  BY <1>1, SentinelsAreNotValues DEF IInv, Owned
<1>4. recThen # NoWorker =>
          recThen \in Worker /\ OnCurrentPool(recThen) /\ Follows(n, recThen)
  BY <1>1, EffectiveFollows
     DEF IInv, TypeOK, WMTypeOK, Owned, WorkersFollow, Follows
<1> HIDE DEF n
<1>5. WorkersFollow'
  <2> SUFFICES ASSUME NEW m \in Query, Running(m)', Settled(m)'
               PROVE  Follows(m, workers[m])'
    BY <1>1 DEF WorkersFollow
  <2>1. CASE m = n
    BY <1>1, <1>2, <1>3, <1>4, <2>1, ReconcileFrame DEF Follows, Running
  <2>2. CASE m # n
    <3>1. Follows(m, workers[m])
      BY <1>1, <1>2, <2>2 DEF WorkersFollow, Running, Settled, n
    <3> QED
      BY <1>1, <1>2, <2>2, <3>1, ReconcileFrame DEF Follows
  <2> QED
    BY <2>1, <2>2
<1>6. PoolsKeepAddress'
  <2> SUFFICES ASSUME NEW m \in Query, workers'[m] # NoWorker, NEW d \in DB,
                      pools[d] # NoPool,
                      pools[d].db = workers'[m].pool.db,
                      pools[d].cfg = workers'[m].pool.cfg
               PROVE  pools[d] = workers'[m].pool
    BY <1>1, ReconcileFrame DEF PoolsKeepAddress, Running
  <2>1. CASE m = n
    BY <1>2, <1>3, <1>4, <2>1, OnCurrentPoolKeepsAddress DEF Running
  <2>2. CASE m # n
    BY <1>2, <2>2 DEF PoolsKeepAddress, Running
  <2> QED
    BY <2>1, <2>2
<1> QED
  BY <1>1, <1>5, <1>6, ReconcileFrame

-----------------------------------------------------------------------------
(* Configured queries are served: they have a database, and a worker unless *)
(* one of two reasons stands against it                                     *)

\* A database that is configured has a pool or is pending after the commit.
LEMMA ReloadCommitKeepsServed ==
    ASSUME FollowInv, ReloadCommit
    PROVE  (QueriesHaveDatabases /\ VisitedAreServed)'
<1>1. /\ lastQueries' = newCfg.queries /\ defaultDB' = newCfg.defaultDB
      /\ recTodo' = {n \in Query : newCfg.queries[n] # NoQuery}
      /\ newCfg' = newCfg /\ reloadPc' = "reconciling"
  <2>1. revision >= lastQueriesRevision /\ revision \in Nat
    BY DEF FollowInv, ReloadCommit, IInv, Revisions, TypeOK, PMTypeOK, AppTypeOK
  <2> QED
    BY <2>1, ReconcileBeginFacts DEF ReloadCommit, FollowInv, IInv, TypeOK
<1>2. ASSUME NEW n \in Query, lastQueries'[n] # NoQuery
      PROVE  \/ WantedQuery(n)'.db \in PendingDBs'
             \/ pools'[WantedQuery(n)'.db] # NoPool
  <2> DEFINE d == WantedQuery(n)'.db
  <2>1. newCfg \in Config /\ WellFormed(newCfg)
    BY DEF FollowInv, IInv, TypeOK, AppTypeOK, Locals
  <2>2. newCfg.queries[n] \in QueryConfig /\ newCfg.defaultDB \in DB \cup {NoDB}
    BY <1>1, <1>2, <2>1
  <2>3. d = IF newCfg.queries[n].db = NoDB THEN newCfg.defaultDB
                                           ELSE newCfg.queries[n].db
    BY <1>1, <2>2 DEF WantedQuery, Wanted, Snap
  <2>4. d \in DB /\ newCfg.dbs[d] # NoConfig
    BY <1>1, <1>2, <2>1, <2>2, <2>3 DEF WellFormed
  <2> HIDE DEF d
  <2>5. failedPools'[d] # NoConfig \/ pools'[d] # NoPool
    BY <1>1, <2>4, CommitFollowsConfig DEF PoolsFollowConfig
  <2> QED
    BY <2>4, <2>5 DEF PendingDBs, d
<1> QED
  BY <1>1, <1>2 DEF QueriesHaveDatabases, VisitedAreServed

\* The database that was reconnected has a pool now; the others are as they
\* were.
LEMMA ReconnectCommitKeepsServed ==
    ASSUME FollowInv, ReconnectCommit
    PROVE  (QueriesHaveDatabases /\ VisitedAreServed)'
<1>1. /\ lastQueries' = lastQueries /\ defaultDB' = defaultDB
      /\ recTodo' = {n \in Query : lastQueries[n] # NoQuery}
  <2>1. lastQueriesRevision \in Nat
    BY DEF FollowInv, IInv, TypeOK, WMTypeOK
  <2> QED
    BY <2>1, ReconcileBeginFacts DEF ReconnectCommit, FollowInv, IInv, TypeOK
<1>2. \A n \in Query : WantedQuery(n)' = WantedQuery(n)
  BY <1>1 DEF WantedQuery, Wanted
<1>3. /\ attempt \in DB /\ attemptDB \in Handle /\ pmRevision \in Nat
      /\ snapFailed[attempt] \in DBConfig
  BY DEF ReconnectCommit, IsFresh, CanCommit, FollowInv, IInv, TypeOK,
         AppTypeOK, PMTypeOK, Locals
<1>4. /\ pools'[attempt] # NoPool
      /\ \A d \in DB \ {attempt} :
             /\ pools'[d] = pools[d]
             /\ d \in PendingDBs => d \in PendingDBs'
  BY <1>3, SentinelsAreNotValues
     DEF ReconnectCommit, CommitReconnect, PendingDBs, FollowInv, IInv, TypeOK,
         PMTypeOK
<1>5. QueriesHaveDatabases'
  <2> SUFFICES ASSUME NEW n \in Query, lastQueries[n] # NoQuery
               PROVE  \/ WantedQuery(n).db \in PendingDBs'
                      \/ pools'[WantedQuery(n).db] # NoPool
    BY <1>1, <1>2 DEF QueriesHaveDatabases
  <2>1. \/ WantedQuery(n).db \in PendingDBs
        \/ pools[WantedQuery(n).db] # NoPool
    BY DEF FollowInv, QueriesHaveDatabases
  <2>2. WantedQuery(n).db \in DB
    <3>1. lastQueries[n] \in QueryConfig /\ defaultDB \in DB \cup {NoDB}
      BY DEF FollowInv, IInv, TypeOK, WMTypeOK, AppTypeOK
    <3>2. lastQueries[n].db = NoDB => defaultDB # NoDB
      BY DEF FollowInv, IInv, DefaultKnown
    <3> QED
      BY <3>1, <3>2 DEF WantedQuery, Wanted
  <2>3. CASE WantedQuery(n).db = attempt
    BY <1>4, <2>3
  <2>4. CASE WantedQuery(n).db # attempt
    BY <1>4, <2>1, <2>2, <2>4
  <2> QED
    BY <2>3, <2>4
<1> QED
  BY <1>1, <1>5 DEF VisitedAreServed

\* ReconcileStats.Stopped only grows while reconcile visits the queries.
LEMMA CountKeepsStopped ==
    ASSUME NEW n \in Query, Count(n, Snap)
    PROVE  stats.stopped \subseteq stats'.stopped
BY DEF Count

\* A query that reconcile leaves without a worker is pending: it cannot lack
\* its database otherwise.
LEMMA LeftIsPending ==
    ASSUME FollowInv, NEW n \in Query, Reconcile(ReconcileLeave(n, Snap)),
           ~Running(n)
    PROVE  WantedQuery(n).db \in PendingDBs
<1>1. /\ n \in recTodo
      /\ Skips(n, Snap) \/ Stops(n, Snap)
  BY DEF Reconcile, ReconcileLeave, Keeps
<1>2. lastQueries[n] # NoQuery /\ WantedQuery(n).db # NoDB
  BY <1>1, VisitedIsConfigured DEF FollowInv
<1>3. CASE Skips(n, Snap)
  BY <1>2, <1>3, EffectiveFollows DEF Skips, WantedQuery
<1>4. CASE Stops(n, Snap)
  <2>1. Effective(n, Snap) = WantedQuery(n) /\ ~SchemaChanged(n, Snap)
    BY EffectiveFollows
  <2>2. pools[WantedQuery(n).db] = NoPool
    BY <1>4, <2>1 DEF Stops, TargetPool, Snap
  <2> QED
    BY <1>2, <2>2 DEF FollowInv, QueriesHaveDatabases
<1> QED
  BY <1>1, <1>3, <1>4

\* A query whose worker reconcile stops is pending, or counted with the schema
\* that its worker had.
LEMMA StoppedIsExplained ==
    ASSUME FollowInv, NEW n \in Query, Reconcile(ReconcileStop(n, Snap))
    PROVE  \/ WantedQuery(n).db \in PendingDBs
           \/ \E s \in stats'.stopped :
                  s.name = n /\ s.schema # WantedQuery(n).schema
<1> SUFFICES ASSUME WantedQuery(n).db \notin PendingDBs
             PROVE  \E s \in stats'.stopped :
                        s.name = n /\ s.schema # WantedQuery(n).schema
  OBVIOUS
<1>1. n \in recTodo /\ Stops(n, Snap) /\ Running(n) /\ Count(n, Snap)
  BY DEF Reconcile, ReconcileStop
<1>2. pools[WantedQuery(n).db] # NoPool
  BY <1>1, VisitedIsConfigured DEF FollowInv, QueriesHaveDatabases
<1>3. workers[n].cfg.schema # WantedQuery(n).schema
  <2> SUFFICES ASSUME workers[n].cfg.schema = WantedQuery(n).schema
               PROVE  FALSE
    OBVIOUS
  <2>1. Effective(n, Snap) = WantedQuery(n) /\ ~SchemaChanged(n, Snap)
    BY EffectiveFollows
  <2> QED
    BY <1>1, <1>2, <2>1 DEF Stops, TargetPool, Snap
<1>4. [name |-> n, schema |-> workers[n].cfg.schema] \in stats'.stopped
  BY <1>1 DEF Count
<1> QED
  BY <1>3, <1>4

\* Each visit starts a worker, keeps one, or has one of the two reasons.
LEMMA ReconcileKeepsServed ==
    ASSUME FollowInv, ReconcileStep
    PROVE  (QueriesHaveDatabases /\ VisitedAreServed)'
<1>1. Reconciling /\ UNCHANGED <<appVars, pmVars, lastQueries>>
  BY DEF ReconcileStep, Reconcile, ReconcileLeave, ReconcileStart,
         ReconcileRestart, ReconcileStop, ReconcileRemove, ReconcileJoin,
         StopWorker
<1>2. QueriesHaveDatabases'
  BY <1>1, ReconcileFrame DEF FollowInv, QueriesHaveDatabases
<1>3. ASSUME NEW n \in Query, stats.stopped \subseteq stats'.stopped,
             recTodo \subseteq recTodo' \cup {n},
             \A m \in Query \ {n} : Running(m) => Running(m)',
             \/ n \in recTodo' /\ n \in recTodo
             \/ Running(n)'
             \/ lastQueries[n] = NoQuery
             \/ WantedQuery(n).db \in PendingDBs
             \/ \E s \in stats'.stopped :
                    s.name = n /\ s.schema # WantedQuery(n).schema
      PROVE  VisitedAreServed'
  <2> SUFFICES ASSUME NEW m \in Query \ recTodo', lastQueries[m] # NoQuery,
                      ~Running(m)', WantedQuery(m).db \notin PendingDBs
               PROVE  \E s \in stats'.stopped :
                          s.name = m /\ s.schema # WantedQuery(m).schema
    BY <1>1, ReconcileFrame DEF VisitedAreServed, StoppedForSchema
  <2>1. CASE m = n
    BY <1>3, <2>1
  <2>2. CASE m # n
    <3>1. m \notin recTodo /\ ~Running(m)
      BY <1>3, <2>2
    <3> QED
      BY <1>3, <3>1 DEF FollowInv, VisitedAreServed, StoppedForSchema
  <2> QED
    BY <2>1, <2>2
<1>4. ASSUME NEW n \in Query, Reconcile(ReconcileLeave(n, Snap))
      PROVE  VisitedAreServed'
  <2>1. /\ recTodo' = recTodo \ {n} /\ UNCHANGED workers /\ Count(n, Snap)
    BY <1>4 DEF Reconcile, ReconcileLeave
  <2> QED
    BY <1>3, <1>4, <2>1, LeftIsPending, CountKeepsStopped DEF Running
<1>5. ASSUME NEW n \in Query, Reconcile(ReconcileStart(n, Snap))
      PROVE  VisitedAreServed'
  <2>1. /\ recTodo' = recTodo \ {n} /\ Count(n, Snap)
        /\ workers' = [workers EXCEPT ![n] = Target(n, Snap)]
        /\ n \in recTodo /\ Starts(n, Snap)
    BY <1>5 DEF Reconcile, ReconcileStart
  <2>2. Target(n, Snap) \in Worker
    BY <1>1, <2>1, TargetIsOnCurrentPool DEF FollowInv, Starts
  <2>3. Running(n)' /\ \A m \in Query \ {n} : Running(m) => Running(m)'
    BY <2>1, <2>2, SentinelsAreNotValues
       DEF Running, FollowInv, IInv, TypeOK, WMTypeOK
  <2> QED
    BY <1>3, <2>1, <2>3, CountKeepsStopped
<1>6. ASSUME NEW n \in Query, Reconcile(ReconcileRestart(n, Snap))
      PROVE  VisitedAreServed'
  <2>1. /\ recTodo' = recTodo \ {n} /\ UNCHANGED workers /\ Count(n, Snap)
        /\ Running(n)
    BY <1>6 DEF Reconcile, ReconcileRestart, Restarts
  <2> QED
    BY <1>3, <2>1, CountKeepsStopped DEF Running
<1>7. ASSUME NEW n \in Query, Reconcile(ReconcileStop(n, Snap))
      PROVE  VisitedAreServed'
  <2>1. /\ recTodo' = recTodo \ {n} /\ Count(n, Snap)
        /\ workers' = [workers EXCEPT ![n] = NoWorker]
    BY <1>7 DEF Reconcile, ReconcileStop, StopWorker
  <2>2. \A m \in Query \ {n} : Running(m) => Running(m)'
    BY <2>1 DEF Running, FollowInv, IInv, TypeOK, WMTypeOK
  <2> QED
    BY <1>3, <1>7, <2>1, <2>2, CountKeepsStopped, StoppedIsExplained
<1>8. ASSUME NEW n \in Query, Reconcile(ReconcileRemove(n))
      PROVE  VisitedAreServed'
  <2>1. /\ UNCHANGED <<recTodo, stats>> /\ lastQueries[n] = NoQuery
        /\ workers' = [workers EXCEPT ![n] = NoWorker]
    BY <1>8 DEF Reconcile, ReconcileRemove, NotInConfig, StopWorker
  <2>2. \A m \in Query \ {n} : Running(m) => Running(m)'
    BY <2>1 DEF Running, FollowInv, IInv, TypeOK, WMTypeOK
  <2> QED
    BY <1>3, <2>1, <2>2
<1>9. ASSUME Reconcile(ReconcileJoin) PROVE VisitedAreServed'
  <2>1. /\ UNCHANGED <<recTodo, stats>>
        /\ workers' = IF recThen = NoWorker THEN workers
                      ELSE [workers EXCEPT ![recWait] = recThen]
    BY <1>9 DEF Reconcile, ReconcileJoin
  <2>2. \A m \in Query : Running(m) => Running(m)'
    BY <2>1 DEF Running, FollowInv, IInv, TypeOK, WMTypeOK
  <2> QED
    BY <1>1, <2>1, <2>2, ReconcileFrame
       DEF FollowInv, VisitedAreServed, StoppedForSchema
<1> QED
  BY <1>2, <1>4, <1>5, <1>6, <1>7, <1>8, <1>9 DEF ReconcileStep

-----------------------------------------------------------------------------
(* The theorems                                                            *)

LEMMA NextKeepsFollowInv == FollowInv /\ [Next]_vars => FollowInv'
<1> SUFFICES ASSUME FollowInv, [Next]_vars PROVE FollowInv'
  OBVIOUS
<1>1. IInv'
  BY NextKeepsIInv DEF FollowInv
<1>2. CASE Frame
  BY <1>1, <1>2, FrameKeepsFollow, FrameKeepsServed DEF FollowInv
<1>3. CASE ReloadCommit
  BY <1>1, <1>3, ReloadCommitKeepsFollow, ReloadCommitKeepsServed
     DEF FollowInv
<1>4. CASE ReconnectCommit
  BY <1>1, <1>4, ReconnectCommitKeepsFollow, ReconnectCommitKeepsServed
     DEF FollowInv
<1>5. CASE ReconcileStep
  <2>1. (PoolsFollowConfig /\ WorkersFollow /\ PoolsKeepAddress)'
    BY <1>5, LeaveKeepsFollow, StartKeepsFollow, RestartKeepsFollow,
       StopKeepsFollow, JoinKeepsFollow DEF ReconcileStep
  <2> QED
    BY <1>1, <1>5, <2>1, ReconcileKeepsServed DEF FollowInv
<1> QED
  BY <1>2, <1>3, <1>4, <1>5, StepKinds DEF FollowInv

\* IInv and, with it, what pools and workers have of the configuration.
THEOREM FollowInvariance == Spec => []FollowInv
<1>1. Init => FollowInv
  BY InitFollowInv
<1>2. FollowInv /\ [Next]_vars => FollowInv'
  BY NextKeepsFollowInv
<1> QED
  BY <1>1, <1>2, PTL DEF Spec

\* Once committed, a reload has decided every database, and no late reconnect
\* brings back an older config.
THEOREM PoolsAreFollowing == Spec => []PoolsFollowConfig
<1>1. FollowInv => PoolsFollowConfig
  BY DEF FollowInv
<1> QED
  BY <1>1, FollowInvariance, PTL

\* Whoever gets stateMu finds both managers at one revision; a worker for each
\* configured query, unless its database is pending or the last reconcile has
\* stopped it for another label schema; workers of configured queries only;
\* and each on the pool and with the config that reconcile had to give it.
THEOREM WorkersAreFollowing == Spec => []WorkersFollowConfig
<1>1. FollowInv => WorkersFollowConfig
  <2> SUFFICES ASSUME FollowInv, stateMu = "free" PROVE WorkersFollowConfig
    BY DEF WorkersFollowConfig
  <2> USE DEF FollowInv
  <2>1. ~Reconciling /\ reloadPc # "dialled"
    BY DEF IInv, Locks, Reconciling
  <2>2. pmRevision = revision /\ lastQueriesRevision = revision
    BY <2>1 DEF IInv, Revisions
  <2>3. \A n \in Query : Running(n) =>
            /\ lastQueries[n] # NoQuery
            /\ workers[n].pool = pools[workers[n].cfg.db]
            /\ Follows(n, workers[n])
    BY <2>1, BetweenTransitions DEF Settled, WorkersFollow
  <2>4. \A n \in Query : lastQueries[n] # NoQuery /\ ~Running(n) =>
            WantedQuery(n).db \in PendingDBs \/ StoppedForSchema(n)
    BY <2>1, BetweenTransitions DEF VisitedAreServed
  <2> QED
    BY <2>2, <2>3, <2>4 DEF WorkersFollowConfig, Follows
<1> QED
  BY <1>1, FollowInvariance, PTL

-----------------------------------------------------------------------------
(* What a step never does to a query                                       *)

\* Only a start and the end of a restart give a query a worker.
LEMMA NewWorkers ==
    ASSUME IInv, [Next]_vars, NEW n \in Query,
           workers'[n] # NoWorker, workers'[n] # workers[n]
    PROVE  /\ UNCHANGED <<appVars, pmVars, lastQueries>> /\ Reconciling
           /\ \/ /\ n \in recTodo /\ ~Running(n)
                 /\ ~Skips(n, Snap) /\ ~Stops(n, Snap)
                 /\ workers'[n] = Target(n, Snap)
              \/ /\ n = recWait /\ recThen # NoWorker
                 /\ workers'[n] = recThen
<1>1. workers \in [Query -> Worker \cup {NoWorker}]
  BY DEF IInv, TypeOK, WMTypeOK
<1>2. ReconcileStep
  <2>1. CASE Frame
    BY <2>1 DEF Frame, decisionVars
  <2>2. CASE ReloadCommit
    BY <2>2 DEF ReloadCommit, ReconcileBegin, wmVars
  <2>3. CASE ReconnectCommit
    BY <2>3 DEF ReconnectCommit, ReconcileBegin, wmVars
  <2> QED
    BY <2>1, <2>2, <2>3, StepKinds
<1>3. CASE \E m \in Query : Reconcile(ReconcileStart(m, Snap))
  BY <1>1, <1>3 DEF Reconcile, ReconcileStart, Starts
<1>4. CASE Reconcile(ReconcileJoin)
  BY <1>1, <1>4 DEF Reconcile, ReconcileJoin
<1>5. CASE \E m \in Query : \/ Reconcile(ReconcileLeave(m, Snap))
                            \/ Reconcile(ReconcileRestart(m, Snap))
  BY <1>5 DEF Reconcile, ReconcileLeave, ReconcileRestart
<1>6. CASE \E m \in Query : \/ Reconcile(ReconcileStop(m, Snap))
                            \/ Reconcile(ReconcileRemove(m))
  BY <1>1, <1>6 DEF Reconcile, ReconcileStop, ReconcileRemove, StopWorker
<1> QED
  BY <1>2, <1>3, <1>4, <1>5, <1>6 DEF ReconcileStep

\* A worker gets a config it did not have only when the database of that
\* config is not pending.
THEOREM NewSqlNeedsItsPool == Spec => NewSqlOnlyOnAppliedPool
<1> DEFINE Ok == \A n \in Query :
               /\ workers'[n] # NoWorker
               /\ ~Running(n) \/ workers'[n].cfg # workers[n].cfg
               => workers'[n].cfg.db \notin PendingDBs'
<1>1. FollowInv /\ [Next]_vars => Ok
  <2> SUFFICES ASSUME FollowInv, [Next]_vars, NEW n \in Query,
                      workers'[n] # NoWorker,
                      ~Running(n) \/ workers'[n].cfg # workers[n].cfg
               PROVE  workers'[n].cfg.db \notin PendingDBs'
    OBVIOUS
  <2> USE DEF FollowInv
  <2>1. workers'[n] # workers[n]
    BY DEF Running
  <2>2. PendingDBs' = PendingDBs
    BY <2>1, NewWorkers DEF PendingDBs, pmVars
  <2>3. CASE /\ n \in recTodo /\ ~Running(n)
             /\ ~Skips(n, Snap) /\ ~Stops(n, Snap)
             /\ workers'[n] = Target(n, Snap)
    BY <2>2, <2>3, EffectiveFollows DEF Target, Skips
  <2>4. CASE n = recWait /\ recThen # NoWorker /\ workers'[n] = recThen
    BY <2>2, <2>4, EffectiveFollows DEF WorkersFollow
  <2> QED
    BY <2>1, <2>3, <2>4, NewWorkers
<1> QED
  BY <1>1, FollowInvariance, PTL DEF Spec, NewSqlOnlyOnAppliedPool

\* While its schema would change, a query whose wanted database is not pending
\* stays on its pool.
THEOREM SchemaFreezeHolds == Spec => SchemaFrozenKeepsItsPool
<1> DEFINE Ok == \A n \in Query :
               /\ Running(n) /\ workers'[n] # NoWorker
               /\ lastQueries[n] # NoQuery
               /\ workers'[n].cfg.schema # WantedQuery(n).schema
               /\ WantedQuery(n).db \notin PendingDBs
               => workers'[n].pool = workers[n].pool
<1>1. FollowInv /\ [Next]_vars => Ok
  <2> SUFFICES ASSUME FollowInv, [Next]_vars, NEW n \in Query,
                      Running(n), workers'[n] # NoWorker,
                      workers'[n] # workers[n],
                      workers'[n].cfg.schema # WantedQuery(n).schema,
                      WantedQuery(n).db \notin PendingDBs
               PROVE  FALSE
    OBVIOUS
  <2> USE DEF FollowInv
  <2>1. n = recWait /\ recThen # NoWorker /\ workers'[n] = recThen
    BY NewWorkers
  <2>2. recThen.cfg = WantedQuery(n)
    BY <2>1, EffectiveFollows DEF WorkersFollow
  <2> QED
    BY <2>1, <2>2
<1> QED
  BY <1>1, FollowInvariance, PTL DEF Spec, SchemaFrozenKeepsItsPool

\* Before the shutdown only a restart, a stop or a removal of a query cancels
\* its goroutine: any other step leaves it or replaces it as it is.
LEMMA WhoCancels ==
    ASSUME IInv, [Next]_vars, NEW g \in goroutines, CancelledNow(g), ~ctxDone'
    PROVE  \/ Reconcile(ReconcileRestart(g.name, Snap))
           \/ Reconcile(ReconcileStop(g.name, Snap))
           \/ Reconcile(ReconcileRemove(g.name))
<1> DEFINE c == [g EXCEPT !.cancelled = TRUE]
<1>1. /\ goroutines \subseteq Goroutine /\ OneGoroutinePerQuery
      /\ g \in Goroutine /\ ~g.cancelled /\ c \in goroutines'
  BY DEF IInv, TypeOK, WMTypeOK, Owned, CancelledNow
<1>2. c.name = g.name /\ c.cancelled = TRUE /\ c # g
  BY <1>1
<1> HIDE DEF c
<1>3. c \notin goroutines
  BY <1>1, <1>2 DEF OneGoroutinePerQuery
<1>4. ASSUME UNCHANGED goroutines PROVE FALSE
  BY <1>1, <1>3, <1>4
<1>5. ASSUME goroutines' \subseteq goroutines PROVE FALSE
  BY <1>1, <1>3, <1>5
<1>6. ASSUME NEW m, Reconciling, goroutines' = Cancelled(m) PROVE m = g.name
  <2>1. PICK h \in goroutines :
            c = IF h.name = m THEN [h EXCEPT !.cancelled = TRUE] ELSE h
    BY <1>1, <1>6 DEF Cancelled
  <2>2. h # c
    BY <1>3, <2>1
  <2>3. h.name = m /\ c = [h EXCEPT !.cancelled = TRUE]
    BY <2>1, <2>2
  <2> QED
    BY <1>1, <1>2, <2>3
<1>7. ASSUME NEW m, NEW w, ~ctxDone,
             goroutines' = goroutines \cup {Spawned(m, w)}
      PROVE  FALSE
  <2>1. c = Spawned(m, w)
    BY <1>1, <1>3, <1>7
  <2> QED
    BY <1>2, <1>7, <2>1 DEF Spawned
<1>8. CASE ReconcileStep
  <2>1. PICK m \in Query : \/ Reconcile(ReconcileLeave(m, Snap))
                           \/ Reconcile(ReconcileStart(m, Snap))
                           \/ Reconcile(ReconcileRestart(m, Snap))
                           \/ Reconcile(ReconcileStop(m, Snap))
                           \/ Reconcile(ReconcileRemove(m))
                           \/ Reconcile(ReconcileJoin)
    BY <1>1, <1>8 DEF ReconcileStep
  <2>2. CASE Reconcile(ReconcileLeave(m, Snap))
    BY <1>4, <2>2 DEF Reconcile, ReconcileLeave
  <2>3. CASE Reconcile(ReconcileStart(m, Snap))
    BY <1>7, <2>3 DEF Reconcile, ReconcileStart
  <2>4. CASE Reconcile(ReconcileRestart(m, Snap))
    BY <1>6, <2>4 DEF Reconcile, ReconcileRestart
  <2>5. CASE Reconcile(ReconcileStop(m, Snap))
    BY <1>6, <2>5 DEF Reconcile, ReconcileStop, StopWorker
  <2>6. CASE Reconcile(ReconcileRemove(m))
    BY <1>6, <2>6 DEF Reconcile, ReconcileRemove, StopWorker
  <2>7. CASE Reconcile(ReconcileJoin)
    BY <1>4, <1>7, <2>7 DEF Reconcile, ReconcileJoin
  <2> QED
    BY <2>1, <2>2, <2>3, <2>4, <2>5, <2>6, <2>7
<1>9. CASE WorkerStep
  <2>1. PICK h \in goroutines : Tick(h) \/ Finish(h) \/ Exit(h)
    BY <1>9 DEF WorkerStep
  <2>2. CASE Exit(h)
    BY <1>5, <2>2 DEF Exit, WorkerExit
  <2>3. ASSUME NEW phase,
               goroutines' = (goroutines \ {h}) \cup {[h EXCEPT !.phase = phase]}
        PROVE  FALSE
    <3>1. c = [h EXCEPT !.phase = phase]
      BY <1>1, <1>3, <2>3
    <3>2. c.name = h.name /\ c.cancelled = h.cancelled
      BY <1>1, <3>1
    <3>3. h = g
      BY <1>1, <1>2, <3>2 DEF OneGoroutinePerQuery
    <3> QED
      BY <1>1, <1>2, <3>2, <3>3
  <2>4. CASE Tick(h) \/ Finish(h)
    BY <2>3, <2>4 DEF Tick, Finish, WorkerTick, WorkerFinish
  <2> QED
    BY <2>1, <2>2, <2>4
<1>10. CASE Shutdown \/ StopAll
  BY <1>10 DEF Shutdown, CancelContext, StopAll
<1>11. CASE ReloadStart \/ ReloadStep
  <2> USE DEF wmVars
  <2>1. CASE ReloadStart
    BY <1>4, <2>1 DEF ReloadStart, ReloadReject, ReloadLoad
  <2>2. CASE ReloadStep
    BY <1>4, <2>2 DEF ReloadStep, ReloadDial, ReloadCommit, ReloadUnlock,
                      ReloadClose, ReconcileBegin
  <2> QED
    BY <1>11, <2>1, <2>2
<1>12. CASE ReconnectStep
  BY <1>4, <1>12
     DEF ReconnectStep, ReconnectTick, ReconnectDial, ReconnectDialFail,
         ReconnectDialOk, ReconnectLock, ReconnectDiscard, ReconnectCommit,
         ReconnectUnlock, ReconnectClose, ReconnectDone, ReconnectExit,
         ReconcileBegin, wmVars
<1>13. CASE \/ WatcherTrigger \/ WatcherExit \/ CloseAll
            \/ Terminated \/ UNCHANGED vars
  BY <1>4, <1>13 DEF WatcherTrigger, WatcherExit, CloseAll, Terminated, vars,
                     wmVars
<1> QED
  BY <1>8, <1>9, <1>10, <1>11, <1>12, <1>13 DEF Next, MainStep

\* A query whose config, connection and env stay as they are is not cancelled
\* by any reload or reconnect.
THEOREM UnaffectedQueriesAreLeftAlone == Spec => UnaffectedQueriesRunOn
<1> DEFINE Ok == \A g \in goroutines : CancelledNow(g) /\ ~ctxDone' =>
               \/ lastQueries[g.name] = NoQuery
               \/ WantedQuery(g.name) # g.worker.cfg
               \/ LET p == pools[g.worker.cfg.db]
                  IN  p = NoPool \/ p.db # g.worker.pool.db
                                 \/ p.cfg # g.worker.pool.cfg
<1>1. FollowInv /\ [Next]_vars => Ok
  <2> SUFFICES ASSUME FollowInv, [Next]_vars, NEW g \in goroutines,
                      CancelledNow(g), ~ctxDone',
                      lastQueries[g.name] # NoQuery,
                      WantedQuery(g.name) = g.worker.cfg,
                      pools[g.worker.cfg.db] # NoPool,
                      pools[g.worker.cfg.db].db = g.worker.pool.db,
                      pools[g.worker.cfg.db].cfg = g.worker.pool.cfg
               PROVE  FALSE
    OBVIOUS
  <2> DEFINE n == g.name
  <2> USE DEF FollowInv
  <2>1. /\ n \in Query /\ g.worker \in Worker
        /\ ~Reconcile(ReconcileRemove(n))
    BY DEF IInv, TypeOK, WMTypeOK, Reconcile, ReconcileRemove, NotInConfig
  <2>2. recWait = NoQuery /\ (Restarts(n, Snap) \/ Stops(n, Snap))
    BY <2>1, WhoCancels DEF Reconcile, ReconcileRestart, ReconcileStop
  <2>3. workers[n] = g.worker /\ Running(n)
    BY <2>1, <2>2, SentinelsAreNotValues DEF IInv, Owned, Running
  <2>4. pools[g.worker.cfg.db] = g.worker.pool
    BY <2>1, <2>3 DEF PoolsKeepAddress
  <2>5. Effective(n, Snap) = g.worker.cfg /\ ~SchemaChanged(n, Snap)
    BY <2>1, <2>3, EffectiveFollows
  <2>6. TargetPool(n, Snap) = g.worker.pool
    BY <2>4, <2>5 DEF TargetPool
  <2>7. Target(n, Snap) = workers[n]
    BY <2>1, <2>3, <2>5, <2>6 DEF Target
  <2>8. ~Stops(n, Snap)
    BY <2>4, <2>5, <2>6 DEF Stops
  <2> QED
    BY <2>2, <2>3, <2>7, <2>8 DEF Restarts, Keeps
<1> QED
  BY <1>1, FollowInvariance, PTL DEF Spec, UnaffectedQueriesRunOn
=============================================================================
