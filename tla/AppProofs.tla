----------------------------- MODULE AppProofs -----------------------------
(***************************************************************************)
(* The safety of app, poolManager and workerManager for any number of      *)
(* databases, queries, configurations and reloads: IInv of AppInvariants   *)
(* is inductive, and the properties of AppProperties follow from it.       *)
(***************************************************************************)
EXTENDS AppInvariants, TLAPS

USE DEF DBConfig, Handle, Pool, QueryConfig, Config, RunnableQuery, Worker,
        Goroutine, Snap

-----------------------------------------------------------------------------
(* The operators that the steps are built from                             *)

LEMMA EmptyConfigOK == EmptyConfig \in Config /\ WellFormed(EmptyConfig)
BY SentinelsAreNotValues DEF EmptyConfig, WellFormed

\* What reconcile decides to run is a worker on the pool that its database
\* has at the moment.
LEMMA TargetIsOnCurrentPool ==
    ASSUME IInv, NEW n \in recTodo, ~Skips(n, Snap), ~Stops(n, Snap)
    PROVE  /\ Target(n, Snap) \in Worker
           /\ OnCurrentPool(Target(n, Snap))
           /\ Target(n, Snap).pool.db \in PoolHandles
<1> USE SentinelsAreNotValues
    DEF IInv, TypeOK, PMTypeOK, WMTypeOK, AppTypeOK
<1>1. lastQueries[n] \in QueryConfig /\ n \in Query
  BY DEF Locals
<1>2. Wanted(n, Snap) \in RunnableQuery
  BY <1>1 DEF Wanted, Skips
<1>3. Running(n) => workers[n].cfg \in RunnableQuery
  BY <1>1 DEF Running
<1>4. Effective(n, Snap) \in RunnableQuery
  BY <1>2, <1>3 DEF Effective, Candidate, SchemaChanged
<1>5. TargetPool(n, Snap) \in Pool
  BY <1>4 DEF TargetPool, Stops
<1> QED
  BY <1>4, <1>5 DEF Target, TargetPool, OnCurrentPool, PoolHandles

\* Cancelling changes nothing else about a goroutine.
LEMMA CancelledGoroutines ==
    ASSUME goroutines \subseteq Goroutine, OneGoroutinePerQuery,
           NEW n \in Query
    PROVE  /\ Cancelled(n) \subseteq Goroutine
           /\ \A h \in Cancelled(n) : \E g \in goroutines :
                  h.name = g.name /\ h.worker = g.worker
           /\ \A h1, h2 \in Cancelled(n) : h1.name = h2.name => h1 = h2
<1>1. \A h \in Cancelled(n) : \E g \in goroutines :
          /\ h = IF g.name = n THEN [g EXCEPT !.cancelled = TRUE] ELSE g
          /\ h \in Goroutine /\ h.name = g.name /\ h.worker = g.worker
  <2> SUFFICES ASSUME NEW g \in goroutines,
                      NEW h, h = IF g.name = n
                                 THEN [g EXCEPT !.cancelled = TRUE] ELSE g
               PROVE  h \in Goroutine /\ h.name = g.name /\ h.worker = g.worker
    BY Zenon DEF Cancelled
  <2> QED
    OBVIOUS
<1>2. ASSUME NEW h1 \in Cancelled(n), NEW h2 \in Cancelled(n),
             h1.name = h2.name
      PROVE  h1 = h2
  <2>1. PICK g1 \in goroutines :
            /\ h1 = IF g1.name = n THEN [g1 EXCEPT !.cancelled = TRUE] ELSE g1
            /\ h1.name = g1.name
    BY <1>1
  <2>2. PICK g2 \in goroutines :
            /\ h2 = IF g2.name = n THEN [g2 EXCEPT !.cancelled = TRUE] ELSE g2
            /\ h2.name = g2.name
    BY <1>1
  <2>3. g1 = g2
    BY <1>2, <2>1, <2>2 DEF OneGoroutinePerQuery
  <2> QED
    BY <2>1, <2>2, <2>3
<1> QED
  BY <1>1, <1>2

LEMMA AllCancelledGoroutines ==
    ASSUME goroutines \subseteq Goroutine, OneGoroutinePerQuery
    PROVE  /\ AllCancelled \subseteq Goroutine
           /\ \A h \in AllCancelled : \E g \in goroutines :
                  h.name = g.name /\ h.worker = g.worker
           /\ \A h1, h2 \in AllCancelled : h1.name = h2.name => h1 = h2
<1>1. \A g \in goroutines : [g EXCEPT !.cancelled = TRUE] \in Goroutine
  OBVIOUS
<1>2. \A g \in goroutines :
          LET h == [g EXCEPT !.cancelled = TRUE]
          IN  h.name = g.name /\ h.worker = g.worker
  OBVIOUS
<1>3. ASSUME NEW h1 \in AllCancelled, NEW h2 \in AllCancelled,
             h1.name = h2.name
      PROVE  h1 = h2
  <2>1. PICK g1 \in goroutines : h1 = [g1 EXCEPT !.cancelled = TRUE]
    BY DEF AllCancelled
  <2>2. PICK g2 \in goroutines : h2 = [g2 EXCEPT !.cancelled = TRUE]
    BY DEF AllCancelled
  <2>3. g1 = g2
    BY <1>2, <1>3, <2>1, <2>2 DEF OneGoroutinePerQuery
  <2> QED
    BY <2>1, <2>2, <2>3
<1>4. \A h \in AllCancelled : \E g \in goroutines :
          h.name = g.name /\ h.worker = g.worker
  BY <1>2 DEF AllCancelled
<1>5. AllCancelled \subseteq Goroutine
  BY <1>1 DEF AllCancelled
<1> QED
  BY <1>3, <1>4, <1>5

\* What reconcile counts about a query.
LEMMA CountIsStats ==
    ASSUME WMTypeOK, NEW n \in Query, NEW snap, Count(n, snap)
    PROVE  stats' \in Stats
<1> DEFINE s == [name |-> n, schema |-> workers[n].cfg.schema]
<1>1. stats'.stopped \subseteq stats.stopped \cup {s}
  BY DEF Count
<1>2. Running(n) => workers[n].cfg.schema \in Schema
  BY DEF WMTypeOK, Running, Worker, RunnableQuery
<1>3. Stops(n, snap) /\ Running(n) => s \in [name : Query, schema : Schema]
  BY <1>2
<1>4. stats \in Stats
  BY DEF WMTypeOK
<1>5. stats'.stopped \in SUBSET [name : Query, schema : Schema]
  BY <1>3, <1>4 DEF Count, Stats
<1> HIDE DEF s
<1> QED
  BY <1>5 DEF Count, Stats

\* A reconcile that is not older than the last one is not skipped.
LEMMA ReconcileBeginFacts ==
    ASSUME WMTypeOK, NEW rev \in Nat, rev >= lastQueriesRevision,
           NEW queries, ReconcileBegin(rev, queries)
    PROVE  /\ lastQueries' = queries
           /\ lastQueriesRevision' = rev
           /\ recTodo' = {n \in Query : queries[n] # NoQuery}
           /\ stats' \in Stats
           /\ UNCHANGED <<ctxDone, workers, goroutines, recWait, recThen>>
<1>1. ~(rev < lastQueriesRevision)
  BY DEF WMTypeOK
<1>2. NoStats \in Stats
  BY DEF NoStats, Stats
<1> QED
  BY <1>1, <1>2 DEF ReconcileBegin

\* The commit of applyConfig for one database: the handle of its pool stays
\* where it is or goes to toClose, and the dialled one becomes its pool.
LEMMA CommitOneDatabase ==
    ASSUME IInv, ReloadCommit, NEW d \in DB
    PROVE  /\ pools[d] # NoPool =>
                  \/ pools[d].db \in toClose'
                  \/ pools'[d] # NoPool /\ pools'[d].db = pools[d].db
           /\ dialed[d] # NoHandle =>
                  pools'[d] # NoPool /\ pools'[d].db = dialed[d]
           /\ pools'[d] # NoPool =>
                  \/ dialed[d] # NoHandle /\ pools'[d].db = dialed[d]
                  \/ /\ dialed[d] = NoHandle /\ newCfg.dbs[d] # NoConfig
                     /\ pools[d] # NoPool /\ pools'[d].db = pools[d].db
<1> DEFINE dbs == newCfg.dbs
           Wrapped(h) == [cfg |-> dbs[d], db |-> h, made |-> revision]
<1>1. /\ pools[d] # NoPool => pools[d] \in Pool
      /\ dbs[d] # NoConfig => dbs[d] \in DBConfig
      /\ dialed[d] # NoHandle => dialed[d] \in Handle /\ dbs[d] # NoConfig
      /\ revision \in Nat
  BY DEF IInv, TypeOK, PMTypeOK, AppTypeOK, Locals
<1>2. \A h \in Handle : dbs[d] # NoConfig =>
                            Wrapped(h) # NoPool /\ Wrapped(h).db = h
  BY <1>1, SentinelsAreNotValues
<1>3. pools'[d] = IF dbs[d] = NoConfig THEN NoPool
                  ELSE IF dialed[d] # NoHandle THEN Wrapped(dialed[d])
                  ELSE IF ~NeedUpdate(d, dbs) /\ pools[d].cfg.env # dbs[d].env
                       THEN Wrapped(pools[d].db)
                  ELSE pools[d]
  BY DEF ReloadCommit, ApplyConfig, NewPools
<1>4. toClose' = {pools[x].db : x \in {y \in DB :
          pools[y] # NoPool /\ (dbs[y] = NoConfig \/ dialed[y] # NoHandle)}}
  BY DEF ReloadCommit, Replaced
<1>5. ~NeedUpdate(d, dbs) => pools[d] # NoPool
  BY DEF NeedUpdate
<1>6. pools[d] # NoPool => pools[d].db \in Handle
  BY <1>1
<1> HIDE DEF dbs, Wrapped
<1>7. CASE dbs[d] = NoConfig
  BY <1>1, <1>3, <1>4, <1>7
<1>8. CASE dbs[d] # NoConfig /\ dialed[d] # NoHandle
  <2>1. pools'[d] = Wrapped(dialed[d])
    BY <1>3, <1>8
  <2>2. pools[d] # NoPool => pools[d].db \in toClose'
    BY <1>4, <1>8
  <2> QED
    BY <1>1, <1>2, <1>8, <2>1, <2>2
<1>9. CASE dbs[d] # NoConfig /\ dialed[d] = NoHandle
  <2>1. \/ pools[d] # NoPool /\ pools'[d] = Wrapped(pools[d].db)
        \/ pools'[d] = pools[d]
    BY <1>3, <1>5, <1>9
  <2> QED
    BY <1>2, <1>6, <1>9, <2>1 DEF dbs
<1> QED
  BY <1>7, <1>8, <1>9

\* What applyConfig is going to close was the pool of a database that leaves
\* the config or that has been dialled again.
LEMMA CommitRetires ==
    ASSUME IInv, ReloadCommit, NEW h \in toClose'
    PROVE  \E d \in DB : /\ pools[d] # NoPool /\ h = pools[d].db
                         /\ newCfg.dbs[d] = NoConfig \/ dialed[d] # NoHandle
BY DEF ReloadCommit, Replaced

-----------------------------------------------------------------------------
(* IInv holds at the start and is kept by every step                       *)

LEMMA InitIInv == Init => IInv
<1> SUFFICES ASSUME Init PROVE IInv
  OBVIOUS
<1> USE SentinelsAreNotValues
    DEF Init, PMInit, WMInit, NothingDialed, NothingFailed
<1>1. PMTypeOK
  BY DEF PMTypeOK
<1>2. WMTypeOK
  BY DEF WMTypeOK, NoStats, Stats
<1>3. AppTypeOK
  BY EmptyConfigOK DEF AppTypeOK
<1>4. Locks
  BY DEF Locks
<1>5. Locals
  BY EmptyConfigOK DEF Locals, Reconciling
<1>6. Revisions /\ DefaultKnown
  BY DEF Revisions, DefaultKnown
<1>7. Placed
  BY DEF Placed
<1>8. HandlesAccountedFor
  BY DEF HandlesAccountedFor, PoolHandles, InFlight
<1>9. Owned
  BY DEF Owned, OneGoroutinePerQuery, Running, Settled
<1> QED
  BY <1>1, <1>2, <1>3, <1>4, <1>5, <1>6, <1>7, <1>8, <1>9 DEF IInv, TypeOK

-----------------------------------------------------------------------------
(* reload and its callers                                                  *)

\* The watcher only changes its own program counter.
LEMMA WatcherTriggerKeeps ==
    ASSUME IInv, WatcherTrigger
    PROVE  IInv'
<1> USE DEF IInv, reloadVars, checkerVars, threadVars, sharedVars, appVars,
           pmVars, wmVars
<1>1. TypeOK'
  BY SentinelsAreNotValues DEF WatcherTrigger, NothingDialed, NothingFailed,
     TypeOK, PMTypeOK, WMTypeOK, AppTypeOK
<1>2. (Locks /\ Locals)'
  BY SentinelsAreNotValues DEF WatcherTrigger, Locks, Locals, Reconciling,
     NothingDialed, TypeOK, PMTypeOK, WMTypeOK, AppTypeOK
<1>3. (Revisions /\ DefaultKnown)'
  BY SentinelsAreNotValues DEF WatcherTrigger, Revisions, DefaultKnown,
     Locks, Locals, TypeOK, PMTypeOK, WMTypeOK, AppTypeOK
<1>4. (Placed /\ HandlesAccountedFor)'
  BY SentinelsAreNotValues DEF WatcherTrigger, Placed, Issued,
     HandlesAccountedFor, InFlight, PoolHandles, Locals, Locks,
     NothingDialed, TypeOK, PMTypeOK, WMTypeOK, AppTypeOK
<1>5. Owned'
  BY SentinelsAreNotValues DEF WatcherTrigger, Owned, OneGoroutinePerQuery,
     Retiring, PoolHandles, OnCurrentPool, Settled, Running, Reconciling,
     Locals, Locks, TypeOK, PMTypeOK, WMTypeOK, AppTypeOK
<1> QED
  BY <1>1, <1>2, <1>3, <1>4, <1>5

\* The watcher leaves only when it is not inside reload.
LEMMA WatcherExitKeeps ==
    ASSUME IInv, WatcherExit
    PROVE  IInv'
<1> USE DEF IInv, reloadVars, checkerVars, threadVars, sharedVars, appVars,
           pmVars, wmVars
<1>1. TypeOK'
  BY SentinelsAreNotValues DEF WatcherExit, NothingDialed, NothingFailed,
     TypeOK, PMTypeOK, WMTypeOK, AppTypeOK
<1>2. (Locks /\ Locals)'
  BY SentinelsAreNotValues DEF WatcherExit, Locks, Locals, Reconciling,
     NothingDialed, TypeOK, PMTypeOK, WMTypeOK, AppTypeOK
<1>3. (Revisions /\ DefaultKnown)'
  BY SentinelsAreNotValues DEF WatcherExit, Revisions, DefaultKnown, Locks,
     Locals, TypeOK, PMTypeOK, WMTypeOK, AppTypeOK
<1>4. (Placed /\ HandlesAccountedFor)'
  BY SentinelsAreNotValues DEF WatcherExit, Placed, Issued,
     HandlesAccountedFor, InFlight, PoolHandles, Locals, Locks,
     NothingDialed, TypeOK, PMTypeOK, WMTypeOK, AppTypeOK
<1>5. Owned'
  BY SentinelsAreNotValues DEF WatcherExit, Owned, OneGoroutinePerQuery,
     Retiring, PoolHandles, OnCurrentPool, Settled, Running, Reconciling,
     Locals, Locks, TypeOK, PMTypeOK, WMTypeOK, AppTypeOK
<1> QED
  BY <1>1, <1>2, <1>3, <1>4, <1>5

\* A rejected config leaves both managers and the locks alone.
LEMMA ReloadRejectKeeps ==
    ASSUME IInv, NEW who \in {"main", "watcher"}, ReloadReject(who)
    PROVE  IInv'
<1> USE DEF IInv, reloadVars, checkerVars, threadVars, sharedVars, appVars,
           pmVars, wmVars
<1>1. TypeOK'
  BY SentinelsAreNotValues DEF ReloadReject, Calling, ReturnTo,
     NothingDialed, NothingFailed, TypeOK, PMTypeOK, WMTypeOK, AppTypeOK
<1>2. (Locks /\ Locals)'
  BY SentinelsAreNotValues DEF ReloadReject, Calling, ReturnTo, Locks,
     Locals, Reconciling, NothingDialed, TypeOK, PMTypeOK, WMTypeOK,
     AppTypeOK
<1>3. (Revisions /\ DefaultKnown)'
  BY SentinelsAreNotValues DEF ReloadReject, Calling, ReturnTo, Revisions,
     DefaultKnown, Locks, Locals, TypeOK, PMTypeOK, WMTypeOK, AppTypeOK
<1>4. (Placed /\ HandlesAccountedFor)'
  BY SentinelsAreNotValues DEF ReloadReject, Calling, ReturnTo, Placed,
     Issued, HandlesAccountedFor, InFlight, PoolHandles, Locals, Locks,
     NothingDialed, TypeOK, PMTypeOK, WMTypeOK, AppTypeOK
<1>5. Owned'
  BY SentinelsAreNotValues DEF ReloadReject, Calling, ReturnTo, Owned,
     OneGoroutinePerQuery, Retiring, PoolHandles, OnCurrentPool, Settled,
     Running, Reconciling, Locals, Locks, TypeOK, PMTypeOK, WMTypeOK,
     AppTypeOK
<1> QED
  BY <1>1, <1>2, <1>3, <1>4, <1>5

\* A loaded config is well formed, and taking reloadMu opens no section that is
\* guarded by stateMu.
LEMMA ReloadLoadKeeps ==
    ASSUME IInv, NEW who \in {"main", "watcher"}, NEW cfg \in Configs,
           ReloadLoad(who, cfg)
    PROVE  IInv'
<1> USE DEF IInv, reloadVars, checkerVars, threadVars, sharedVars, appVars,
           pmVars, wmVars
<1>1. TypeOK'
  BY SentinelsAreNotValues, ConfigsAreWellFormed DEF ReloadLoad, Calling,
     NothingDialed, NothingFailed, TypeOK, PMTypeOK, WMTypeOK, AppTypeOK
<1>2. (Locks /\ Locals)'
  BY SentinelsAreNotValues, ConfigsAreWellFormed DEF ReloadLoad, Calling,
     Locks, Locals, Reconciling, NothingDialed, TypeOK, PMTypeOK, WMTypeOK,
     AppTypeOK
<1>3. (Revisions /\ DefaultKnown)'
  BY SentinelsAreNotValues, ConfigsAreWellFormed DEF ReloadLoad, Calling,
     Revisions, DefaultKnown, Locks, Locals, TypeOK, PMTypeOK, WMTypeOK,
     AppTypeOK
<1>4. (Placed /\ HandlesAccountedFor)'
  BY SentinelsAreNotValues, ConfigsAreWellFormed DEF ReloadLoad, Calling,
     Placed, Issued, HandlesAccountedFor, InFlight, PoolHandles, Locals,
     Locks, NothingDialed, TypeOK, PMTypeOK, WMTypeOK, AppTypeOK
<1>5. Owned'
  BY SentinelsAreNotValues, ConfigsAreWellFormed DEF ReloadLoad, Calling,
     Owned, OneGoroutinePerQuery, Retiring, PoolHandles, OnCurrentPool,
     Settled, Running, Reconciling, Locals, Locks, TypeOK, PMTypeOK,
     WMTypeOK, AppTypeOK
<1> QED
  BY <1>1, <1>2, <1>3, <1>4, <1>5

\* Dialling adds handles that were never issued before, so they are in no other
\* place yet.
LEMMA ReloadDialKeeps ==
    ASSUME IInv, NEW ok \in SUBSET DB, ReloadDial(ok)
    PROVE  IInv'
<1> USE DEF IInv, reloadVars, checkerVars, threadVars, sharedVars, appVars,
           pmVars, wmVars
<1>1. TypeOK'
  BY SentinelsAreNotValues DEF ReloadDial, Dial, NextHandle, ToDial,
     NothingDialed, NothingFailed, TypeOK, PMTypeOK, WMTypeOK, AppTypeOK
<1>2. (Locks /\ Locals)'
  BY SentinelsAreNotValues DEF ReloadDial, Dial, NextHandle, ToDial, Locks,
     Locals, Reconciling, NothingDialed, TypeOK, PMTypeOK, WMTypeOK,
     AppTypeOK
<1>3. (Revisions /\ DefaultKnown)'
  BY SentinelsAreNotValues DEF ReloadDial, Dial, NextHandle, ToDial,
     Revisions, DefaultKnown, Locks, Locals, TypeOK, PMTypeOK, WMTypeOK,
     AppTypeOK
<1>4. (Placed /\ HandlesAccountedFor)'
  <2>1. \A d \in ok : /\ NextHandle(d) \in Handle /\ NextHandle(d)[1] = d
                      /\ NextHandle(d)[2] = serial[d] + 1
                      /\ serial'[d] = serial[d] + 1
    BY DEF ReloadDial, Dial, NextHandle, TypeOK, PMTypeOK
  <2>2. ASSUME NEW h, Issued(h)
        PROVE  Issued(h)' /\ \A d \in ok : h # NextHandle(d)
    <3>1. h[1] \in DB /\ h[2] \in Nat /\ h \in Handle
      BY <2>2 DEF Issued
    <3>2. serial[h[1]] \in Nat /\ serial'[h[1]] \in {serial[h[1]], serial[h[1]] + 1}
      BY <3>1 DEF ReloadDial, Dial, TypeOK, PMTypeOK
    <3>3. h[2] <= serial[h[1]] /\ h[2] <= serial'[h[1]]
      BY <2>2, <3>1, <3>2 DEF Issued
    <3>4. Issued(h)'
      BY <3>1, <3>3 DEF Issued
    <3>5. ASSUME NEW d \in ok, h = NextHandle(d) PROVE FALSE
      <4>1. h[1] = d /\ h[2] = serial[d] + 1
        BY <2>1, <3>5
      <4> QED
        BY <3>2, <3>3, <4>1
    <3> QED
      BY <3>4, <3>5
  <2>3. \A d \in DB : IF d \in ok THEN dialed'[d] = NextHandle(d)
                                  ELSE dialed'[d] = NoHandle
    BY DEF ReloadDial
  <2>4. UNCHANGED <<pools, toClose, attempt, attemptDB, oldPool, mainPc>>
    BY DEF ReloadDial
  <2>5. Placed'
    BY <2>1, <2>2, <2>3, <2>4, SentinelsAreNotValues DEF Placed, Issued
  <2>6. mainPc # "stopped" /\ \A d \in DB : dialed[d] = NoHandle
    BY DEF ReloadDial, Locks, Locals, NothingDialed, TypeOK, AppTypeOK
  <2>7. {dialed'[d] : d \in DB} \ {NoHandle} = {NextHandle(d) : d \in ok}
    BY <2>1, <2>3, SentinelsAreNotValues
  <2>8. open' = open \cup {NextHandle(d) : d \in ok}
    BY DEF ReloadDial, Dial
  <2>9. HandlesAccountedFor'
    BY <2>4, <2>6, <2>7, <2>8 DEF HandlesAccountedFor, InFlight, PoolHandles
  <2> QED
    BY <2>5, <2>9
<1>5. Owned'
  BY SentinelsAreNotValues DEF ReloadDial, Dial, NextHandle, ToDial, Owned,
     OneGoroutinePerQuery, Retiring, PoolHandles, OnCurrentPool, Settled,
     Running, Reconciling, Locals, Locks, TypeOK, PMTypeOK, WMTypeOK,
     AppTypeOK
<1> QED
  BY <1>1, <1>2, <1>3, <1>4, <1>5

\* The commit moves every handle: dialled ones become pools, replaced ones go
\* to toClose, and every goroutine is on one or the other.
LEMMA ReloadCommitKeeps ==
    ASSUME IInv, ReloadCommit
    PROVE  IInv'
<1> USE DEF IInv, reloadVars, checkerVars, threadVars, sharedVars, appVars,
           pmVars, wmVars
<1>a. /\ lastQueries' = newCfg.queries /\ lastQueriesRevision' = revision
      /\ recTodo' = {n \in Query : newCfg.queries[n] # NoQuery}
      /\ stats' \in Stats
      /\ UNCHANGED <<ctxDone, workers, goroutines, recWait, recThen>>
  <2>1. revision >= lastQueriesRevision /\ revision \in Nat
    BY DEF ReloadCommit, Revisions, TypeOK, PMTypeOK, AppTypeOK
  <2> QED
    BY <2>1, ReconcileBeginFacts DEF ReloadCommit, TypeOK
<1>1. TypeOK'
  <2>1. pools' \in [DB -> Pool \cup {NoPool}]
    BY DEF ReloadCommit, ApplyConfig, NewPools, NeedUpdate, Locals, TypeOK,
           PMTypeOK, AppTypeOK
  <2>2. failedPools' \in [DB -> DBConfig \cup {NoConfig}]
    BY DEF ReloadCommit, ApplyConfig, NewFailed, ToDial, TypeOK, AppTypeOK
  <2>3. WMTypeOK'
    BY <1>a DEF TypeOK, WMTypeOK, AppTypeOK
  <2>4. toClose' \subseteq Handle
    BY DEF ReloadCommit, Replaced, TypeOK, PMTypeOK
  <2> QED
    BY <2>1, <2>2, <2>3, <2>4
       DEF ReloadCommit, ApplyConfig, NothingDialed, TypeOK, PMTypeOK, AppTypeOK
<1>2. (Locks /\ Locals)'
  BY <1>a, SentinelsAreNotValues
     DEF ReloadCommit, Locks, Locals, Reconciling, NothingDialed, TypeOK, WMTypeOK,
         AppTypeOK
<1>3. (Revisions /\ DefaultKnown)'
  BY <1>a DEF ReloadCommit, ApplyConfig, Revisions, DefaultKnown, Locals,
              WellFormed, TypeOK, AppTypeOK
<1>4. (Placed /\ HandlesAccountedFor)'
  <2>1. /\ UNCHANGED <<serial, open, attempt, attemptDB, oldPool, mainPc>>
        /\ toClose = {} /\ \A d \in DB : dialed'[d] = NoHandle
    BY DEF ReloadCommit, ApplyConfig, Locals, NothingDialed
  <2>2. \A h \in toClose' : Issued(h) /\ h # attemptDB /\ h # oldPool
    BY CommitRetires DEF Placed
  <2>3. ASSUME NEW d \in DB, pools'[d] # NoPool
        PROVE  /\ Issued(pools'[d].db) /\ pools'[d].db[1] = d
               /\ pools'[d].db # attemptDB /\ pools'[d].db # oldPool
               /\ pools'[d].db \notin toClose'
    <3>1. /\ Issued(pools'[d].db) /\ pools'[d].db[1] = d
          /\ pools'[d].db # attemptDB /\ pools'[d].db # oldPool
      BY <2>3, CommitOneDatabase DEF Placed
    <3>2. ASSUME pools'[d].db \in toClose' PROVE FALSE
      <4>1. PICK e \in DB : /\ pools[e] # NoPool /\ pools'[d].db = pools[e].db
                            /\ newCfg.dbs[e] = NoConfig \/ dialed[e] # NoHandle
        BY <3>2, CommitRetires
      <4>2. e = d
        BY <3>1, <4>1 DEF Placed
      <4> QED
        BY <2>3, <4>1, <4>2, CommitOneDatabase DEF Placed
    <3> QED
      BY <3>1, <3>2
  <2>4. Placed'
    BY <2>1, <2>2, <2>3, SentinelsAreNotValues DEF Placed, Issued
  <2>5. mainPc # "stopped"
    BY DEF ReloadCommit, Locks, TypeOK, AppTypeOK
  <2>6. toClose' \subseteq PoolHandles /\ NoHandle \notin toClose'
    BY CommitRetires, SentinelsAreNotValues DEF PoolHandles, TypeOK, PMTypeOK
  <2>7. (PoolHandles \cup toClose)' =
            PoolHandles \cup ({dialed[d] : d \in DB} \ {NoHandle})
    BY <2>6, CommitOneDatabase DEF PoolHandles
  <2>8. HandlesAccountedFor'
    BY <2>1, <2>5, <2>6, <2>7 DEF HandlesAccountedFor, InFlight
  <2> QED
    BY <2>4, <2>8
<1>5. Owned'
  <2>1. /\ mainPc # "stopped" /\ recWait = NoQuery /\ recThen = NoWorker
        /\ checkerPc # "reconciling" /\ reloadPc = "dialled"
        /\ reloadPc' = "reconciling" /\ UNCHANGED <<mainPc, checkerPc>>
    BY DEF ReloadCommit, Locks, Locals, Reconciling, TypeOK, AppTypeOK
  <2>2. \A g \in goroutines : g.worker.pool.db \in PoolHandles
    BY <2>1 DEF Owned, Retiring
  <2>3. PoolHandles \subseteq (PoolHandles \cup toClose)'
    BY CommitOneDatabase DEF PoolHandles
  <2> QED
    BY <1>a, <2>1, <2>2, <2>3
       DEF Owned, OneGoroutinePerQuery, Retiring, Settled, Running, Reconciling
<1> QED
  BY <1>1, <1>2, <1>3, <1>4, <1>5

\* When reconcile is done every worker is settled on a current pool, so that
\* nothing holds what toClose lists.
LEMMA ReloadUnlockKeeps ==
    ASSUME IInv, ReloadUnlock
    PROVE  IInv'
<1> USE DEF IInv, reloadVars, checkerVars, threadVars, sharedVars, appVars,
           pmVars, wmVars
<1>1. TypeOK'
  BY SentinelsAreNotValues DEF ReloadUnlock, ReconcileDone, NotInConfig,
     NothingDialed, NothingFailed, TypeOK, PMTypeOK, WMTypeOK, AppTypeOK
<1>2. (Locks /\ Locals)'
  BY SentinelsAreNotValues DEF ReloadUnlock, ReconcileDone, NotInConfig,
     Locks, Locals, Reconciling, NothingDialed, TypeOK, PMTypeOK, WMTypeOK,
     AppTypeOK
<1>3. (Revisions /\ DefaultKnown)'
  BY SentinelsAreNotValues DEF ReloadUnlock, ReconcileDone, NotInConfig,
     Revisions, DefaultKnown, Locks, Locals, TypeOK, PMTypeOK, WMTypeOK,
     AppTypeOK
<1>4. (Placed /\ HandlesAccountedFor)'
  BY SentinelsAreNotValues DEF ReloadUnlock, ReconcileDone, NotInConfig,
     Placed, Issued, HandlesAccountedFor, InFlight, PoolHandles, Locals,
     Locks, NothingDialed, TypeOK, PMTypeOK, WMTypeOK, AppTypeOK
<1>5. Owned'
  BY SentinelsAreNotValues DEF ReloadUnlock, ReconcileDone, NotInConfig,
     Owned, OneGoroutinePerQuery, Retiring, PoolHandles, OnCurrentPool,
     Settled, Running, Reconciling, Locals, Locks, TypeOK, PMTypeOK,
     WMTypeOK, AppTypeOK
<1> QED
  BY <1>1, <1>2, <1>3, <1>4, <1>5

\* Only handles that no goroutine holds any more are closed.
LEMMA ReloadCloseKeeps ==
    ASSUME IInv, ReloadClose
    PROVE  IInv'
<1> USE DEF IInv, reloadVars, checkerVars, threadVars, sharedVars, appVars,
           pmVars, wmVars
<1>1. TypeOK'
  <2>1. /\ result' \in {"none", "rejected", "success", "partial_success"}
        /\ mainPc' \in {"starting", "serving", "joining", "stopped"}
        /\ watcherPc' \in {"select", "calling", "exited"}
    BY DEF ReloadClose, ReturnTo, TypeOK, AppTypeOK
  <2>2. partial' \in BOOLEAN /\ toClose' \subseteq Handle
    BY DEF ReloadClose
  <2>3. AppTypeOK'
    BY <2>1, <2>2 DEF ReloadClose, TypeOK, AppTypeOK
  <2> QED
    BY <2>3 DEF ReloadClose, ClosePools, TypeOK, PMTypeOK, WMTypeOK
<1>2. (Locks /\ Locals)'
  BY SentinelsAreNotValues DEF ReloadClose, ClosePools, ReturnTo, Locks,
     Locals, Reconciling, NothingDialed, TypeOK, PMTypeOK, WMTypeOK,
     AppTypeOK
<1>3. (Revisions /\ DefaultKnown)'
  BY SentinelsAreNotValues DEF ReloadClose, ClosePools, ReturnTo, Revisions,
     DefaultKnown, Locks, Locals, TypeOK, PMTypeOK, WMTypeOK, AppTypeOK
<1>4. (Placed /\ HandlesAccountedFor)'
  BY SentinelsAreNotValues DEF ReloadClose, ClosePools, ReturnTo, Placed,
     Issued, HandlesAccountedFor, InFlight, PoolHandles, Locals, Locks,
     NothingDialed, TypeOK, PMTypeOK, WMTypeOK, AppTypeOK
<1>5. Owned'
  BY SentinelsAreNotValues DEF ReloadClose, ClosePools, ReturnTo, Owned,
     OneGoroutinePerQuery, Retiring, PoolHandles, OnCurrentPool, Settled,
     Running, Reconciling, Locals, Locks, TypeOK, PMTypeOK, WMTypeOK,
     AppTypeOK
<1> QED
  BY <1>1, <1>2, <1>3, <1>4, <1>5

-----------------------------------------------------------------------------
(* poolHealthChecker                                                       *)

\* The snapshot is a copy: nothing shared changes.
LEMMA ReconnectTickKeeps ==
    ASSUME IInv, ReconnectTick
    PROVE  IInv'
<1> USE DEF IInv, reloadVars, checkerVars, threadVars, sharedVars, appVars,
           pmVars, wmVars
<1>1. TypeOK'
  BY SentinelsAreNotValues DEF ReconnectTick, NothingDialed, NothingFailed,
     TypeOK, PMTypeOK, WMTypeOK, AppTypeOK
<1>2. (Locks /\ Locals)'
  BY SentinelsAreNotValues DEF ReconnectTick, Locks, Locals, Reconciling,
     NothingDialed, TypeOK, PMTypeOK, WMTypeOK, AppTypeOK
<1>3. (Revisions /\ DefaultKnown)'
  BY SentinelsAreNotValues DEF ReconnectTick, Revisions, DefaultKnown, Locks,
     Locals, TypeOK, PMTypeOK, WMTypeOK, AppTypeOK
<1>4. (Placed /\ HandlesAccountedFor)'
  BY SentinelsAreNotValues DEF ReconnectTick, Placed, Issued,
     HandlesAccountedFor, InFlight, PoolHandles, Locals, Locks,
     NothingDialed, TypeOK, PMTypeOK, WMTypeOK, AppTypeOK
<1>5. Owned'
  BY SentinelsAreNotValues DEF ReconnectTick, Owned, OneGoroutinePerQuery,
     Retiring, PoolHandles, OnCurrentPool, Settled, Running, Reconciling,
     Locals, Locks, TypeOK, PMTypeOK, WMTypeOK, AppTypeOK
<1> QED
  BY <1>1, <1>2, <1>3, <1>4, <1>5

\* A failed dial drops one database from the snapshot.
LEMMA ReconnectDialFailKeeps ==
    ASSUME IInv, NEW d \in DB, ReconnectDialFail(d)
    PROVE  IInv'
<1> USE DEF IInv, reloadVars, checkerVars, threadVars, sharedVars, appVars,
           pmVars, wmVars
<1>1. TypeOK'
  BY SentinelsAreNotValues DEF ReconnectDialFail, NothingDialed,
     NothingFailed, TypeOK, PMTypeOK, WMTypeOK, AppTypeOK
<1>2. (Locks /\ Locals)'
  BY SentinelsAreNotValues DEF ReconnectDialFail, Locks, Locals, Reconciling,
     NothingDialed, TypeOK, PMTypeOK, WMTypeOK, AppTypeOK
<1>3. (Revisions /\ DefaultKnown)'
  BY SentinelsAreNotValues DEF ReconnectDialFail, Revisions, DefaultKnown,
     Locks, Locals, TypeOK, PMTypeOK, WMTypeOK, AppTypeOK
<1>4. (Placed /\ HandlesAccountedFor)'
  BY SentinelsAreNotValues DEF ReconnectDialFail, Placed, Issued,
     HandlesAccountedFor, InFlight, PoolHandles, Locals, Locks,
     NothingDialed, TypeOK, PMTypeOK, WMTypeOK, AppTypeOK
<1>5. Owned'
  BY SentinelsAreNotValues DEF ReconnectDialFail, Owned,
     OneGoroutinePerQuery, Retiring, PoolHandles, OnCurrentPool, Settled,
     Running, Reconciling, Locals, Locks, TypeOK, PMTypeOK, WMTypeOK,
     AppTypeOK
<1> QED
  BY <1>1, <1>2, <1>3, <1>4, <1>5

\* The handle dialled is a new one and is only attemptDB.
LEMMA ReconnectDialOkKeeps ==
    ASSUME IInv, NEW d \in DB, ReconnectDialOk(d)
    PROVE  IInv'
<1> USE DEF IInv, reloadVars, checkerVars, threadVars, sharedVars, appVars,
           pmVars, wmVars
<1>a. NextHandle(d) \in Handle /\ NextHandle(d)[1] = d
  BY DEF NextHandle, TypeOK, PMTypeOK
<1>1. TypeOK'
  BY SentinelsAreNotValues DEF ReconnectDialOk, Dial, NextHandle,
     NothingDialed, NothingFailed, TypeOK, PMTypeOK, WMTypeOK, AppTypeOK
<1>2. (Locks /\ Locals)'
  BY <1>a DEF ReconnectDialOk, Locks, Locals, Reconciling, TypeOK, AppTypeOK
<1>3. (Revisions /\ DefaultKnown)'
  BY SentinelsAreNotValues DEF ReconnectDialOk, Dial, NextHandle, Revisions,
     DefaultKnown, Locks, Locals, TypeOK, PMTypeOK, WMTypeOK, AppTypeOK
<1>4. (Placed /\ HandlesAccountedFor)'
  BY SentinelsAreNotValues DEF ReconnectDialOk, Dial, NextHandle, Placed,
     Issued, HandlesAccountedFor, InFlight, PoolHandles, Locals, Locks,
     NothingDialed, TypeOK, PMTypeOK, WMTypeOK, AppTypeOK
<1>5. Owned'
  BY SentinelsAreNotValues DEF ReconnectDialOk, Dial, NextHandle, Owned,
     OneGoroutinePerQuery, Retiring, PoolHandles, OnCurrentPool, Settled,
     Running, Reconciling, Locals, Locks, TypeOK, PMTypeOK, WMTypeOK,
     AppTypeOK
<1> QED
  BY <1>1, <1>2, <1>3, <1>4, <1>5

\* A stale attempt closes the handle that it alone knows.
LEMMA ReconnectDiscardKeeps ==
    ASSUME IInv, ReconnectDiscard
    PROVE  IInv'
<1> USE DEF IInv, reloadVars, checkerVars, threadVars, sharedVars, appVars,
           pmVars, wmVars
<1>1. TypeOK'
  <2>1. invariantViolated' \in BOOLEAN
    BY DEF ReconnectDiscard, TypeOK, AppTypeOK
  <2>2. snapFailed' \in [DB -> DBConfig \cup {NoConfig}]
    BY DEF ReconnectDiscard, ReconnectNext, TypeOK, AppTypeOK
  <2>3. AppTypeOK'
    BY <2>1, <2>2 DEF ReconnectDiscard, ReconnectNext, TypeOK, AppTypeOK
  <2> QED
    BY <2>3 DEF ReconnectDiscard, ClosePools, TypeOK, PMTypeOK, WMTypeOK
<1>2. (Locks /\ Locals)'
  BY SentinelsAreNotValues DEF ReconnectDiscard, ReconnectNext, ClosePools,
     Locks, Locals, Reconciling, NothingDialed, TypeOK, PMTypeOK, WMTypeOK,
     AppTypeOK
<1>3. (Revisions /\ DefaultKnown)'
  BY SentinelsAreNotValues DEF ReconnectDiscard, ReconnectNext, ClosePools,
     Revisions, DefaultKnown, Locks, Locals, TypeOK, PMTypeOK, WMTypeOK,
     AppTypeOK
<1>4. (Placed /\ HandlesAccountedFor)'
  BY SentinelsAreNotValues DEF ReconnectDiscard, ReconnectNext, ClosePools,
     Placed, Issued, HandlesAccountedFor, InFlight, PoolHandles, Locals,
     Locks, NothingDialed, TypeOK, PMTypeOK, WMTypeOK, AppTypeOK
<1>5. Owned'
  BY SentinelsAreNotValues DEF ReconnectDiscard, ReconnectNext, ClosePools,
     Owned, OneGoroutinePerQuery, Retiring, PoolHandles, OnCurrentPool,
     Settled, Running, Reconciling, Locals, Locks, TypeOK, PMTypeOK,
     WMTypeOK, AppTypeOK
<1> QED
  BY <1>1, <1>2, <1>3, <1>4, <1>5

\* attemptDB becomes the pool of its database and the old pool moves to
\* oldPool, which reconcile then takes from its workers.
LEMMA ReconnectCommitKeeps ==
    ASSUME IInv, ReconnectCommit
    PROVE  IInv'
<1> USE DEF IInv, reloadVars, checkerVars, threadVars, sharedVars, appVars,
           pmVars, wmVars
<1>a. /\ lastQueries' = lastQueries
      /\ lastQueriesRevision' = lastQueriesRevision
      /\ recTodo' = {n \in Query : lastQueries[n] # NoQuery}
      /\ stats' \in Stats
      /\ UNCHANGED <<ctxDone, workers, goroutines, recWait, recThen>>
  BY ReconcileBeginFacts DEF ReconnectCommit, TypeOK, WMTypeOK
<1>b. attempt \in DB /\ attemptDB \in Handle /\ snapFailed[attempt] \in DBConfig
  BY DEF ReconnectCommit, IsFresh, CanCommit, Locals, TypeOK, AppTypeOK
<1>1. TypeOK'
  <2>1. PMTypeOK'
    BY <1>b DEF ReconnectCommit, CommitReconnect, TypeOK, PMTypeOK
  <2>2. WMTypeOK'
    BY <1>a DEF TypeOK, WMTypeOK
  <2>3. /\ snapFailed' \in [DB -> DBConfig \cup {NoConfig}]
        /\ oldPool' \in Handle \cup {NoHandle}
    BY <1>b DEF ReconnectCommit, ReconnectNext, TypeOK, PMTypeOK, AppTypeOK
  <2>4. AppTypeOK'
    BY <2>3 DEF ReconnectCommit, ReconnectNext, TypeOK, AppTypeOK
  <2> QED
    BY <2>1, <2>2, <2>4 DEF TypeOK
<1>2. (Locks /\ Locals)'
  BY <1>a, SentinelsAreNotValues
     DEF ReconnectCommit, ReconnectNext, Locks, Locals, Reconciling, TypeOK,
         WMTypeOK, AppTypeOK
<1>3. (Revisions /\ DefaultKnown)'
  BY <1>a DEF ReconnectCommit, CommitReconnect, Revisions, DefaultKnown
<1>4. (Placed /\ HandlesAccountedFor)'
  <2>1. /\ pools' = [pools EXCEPT ![attempt] =
               [cfg |-> snapFailed[attempt], db |-> attemptDB, made |-> pmRevision]]
        /\ oldPool' = IF pools[attempt] = NoPool THEN NoHandle
                                                 ELSE pools[attempt].db
        /\ attemptDB' = NoHandle /\ oldPool = NoHandle
        /\ UNCHANGED <<serial, open, dialed, toClose, mainPc>>
    BY DEF ReconnectCommit, CommitReconnect, ReconnectNext, Locals
  <2>2. /\ pools'[attempt] # NoPool /\ pools'[attempt].db = attemptDB
        /\ \A d \in DB \ {attempt} : pools'[d] = pools[d]
    BY <1>b, <2>1, SentinelsAreNotValues DEF TypeOK, PMTypeOK
  <2>3. Placed'
    BY <1>b, <2>1, <2>2, SentinelsAreNotValues
       DEF Placed, Issued, TypeOK, PMTypeOK
  <2>4. mainPc # "stopped"
    BY DEF ReconnectCommit, Locks, TypeOK, AppTypeOK
  <2>5. (PoolHandles \cup ({oldPool} \ {NoHandle}))' =
            PoolHandles \cup {attemptDB}
    BY <1>b, <2>1, <2>2, SentinelsAreNotValues
       DEF PoolHandles, TypeOK, PMTypeOK
  <2>6. HandlesAccountedFor'
    BY <1>b, <2>1, <2>4, <2>5, SentinelsAreNotValues
       DEF HandlesAccountedFor, InFlight
  <2> QED
    BY <2>3, <2>6
<1>5. Owned'
  BY SentinelsAreNotValues DEF ReconnectCommit, IsFresh, CanCommit,
     ReconnectNext, CommitReconnect, ReconcileBegin, Owned,
     OneGoroutinePerQuery, Retiring, PoolHandles, OnCurrentPool, Settled,
     Running, Reconciling, Locals, Locks, TypeOK, PMTypeOK, WMTypeOK,
     AppTypeOK
<1> QED
  BY <1>1, <1>2, <1>3, <1>4, <1>5

\* When reconcile is done nothing holds oldPool.
LEMMA ReconnectUnlockKeeps ==
    ASSUME IInv, ReconnectUnlock
    PROVE  IInv'
<1> USE DEF IInv, reloadVars, checkerVars, threadVars, sharedVars, appVars,
           pmVars, wmVars
<1>1. TypeOK'
  BY SentinelsAreNotValues DEF ReconnectUnlock, ReconcileDone, NotInConfig,
     NothingDialed, NothingFailed, TypeOK, PMTypeOK, WMTypeOK, AppTypeOK
<1>2. (Locks /\ Locals)'
  BY SentinelsAreNotValues DEF ReconnectUnlock, ReconcileDone, NotInConfig,
     Locks, Locals, Reconciling, NothingDialed, TypeOK, PMTypeOK, WMTypeOK,
     AppTypeOK
<1>3. (Revisions /\ DefaultKnown)'
  BY SentinelsAreNotValues DEF ReconnectUnlock, ReconcileDone, NotInConfig,
     Revisions, DefaultKnown, Locks, Locals, TypeOK, PMTypeOK, WMTypeOK,
     AppTypeOK
<1>4. (Placed /\ HandlesAccountedFor)'
  BY SentinelsAreNotValues DEF ReconnectUnlock, ReconcileDone, NotInConfig,
     Placed, Issued, HandlesAccountedFor, InFlight, PoolHandles, Locals,
     Locks, NothingDialed, TypeOK, PMTypeOK, WMTypeOK, AppTypeOK
<1>5. Owned'
  BY SentinelsAreNotValues DEF ReconnectUnlock, ReconcileDone, NotInConfig,
     Owned, OneGoroutinePerQuery, Retiring, PoolHandles, OnCurrentPool,
     Settled, Running, Reconciling, Locals, Locks, TypeOK, PMTypeOK,
     WMTypeOK, AppTypeOK
<1> QED
  BY <1>1, <1>2, <1>3, <1>4, <1>5

\* Only the replaced pool is closed.
LEMMA ReconnectCloseKeeps ==
    ASSUME IInv, ReconnectClose
    PROVE  IInv'
<1> USE DEF IInv, reloadVars, checkerVars, threadVars, sharedVars, appVars,
           pmVars, wmVars
<1>1. TypeOK'
  BY SentinelsAreNotValues DEF ReconnectClose, ClosePools, NothingDialed,
     NothingFailed, TypeOK, PMTypeOK, WMTypeOK, AppTypeOK
<1>2. (Locks /\ Locals)'
  BY SentinelsAreNotValues DEF ReconnectClose, ClosePools, Locks, Locals,
     Reconciling, NothingDialed, TypeOK, PMTypeOK, WMTypeOK, AppTypeOK
<1>3. (Revisions /\ DefaultKnown)'
  BY SentinelsAreNotValues DEF ReconnectClose, ClosePools, Revisions,
     DefaultKnown, Locks, Locals, TypeOK, PMTypeOK, WMTypeOK, AppTypeOK
<1>4. (Placed /\ HandlesAccountedFor)'
  BY SentinelsAreNotValues DEF ReconnectClose, ClosePools, Placed, Issued,
     HandlesAccountedFor, InFlight, PoolHandles, Locals, Locks,
     NothingDialed, TypeOK, PMTypeOK, WMTypeOK, AppTypeOK
<1>5. Owned'
  BY SentinelsAreNotValues DEF ReconnectClose, ClosePools, Owned,
     OneGoroutinePerQuery, Retiring, PoolHandles, OnCurrentPool, Settled,
     Running, Reconciling, Locals, Locks, TypeOK, PMTypeOK, WMTypeOK,
     AppTypeOK
<1> QED
  BY <1>1, <1>2, <1>3, <1>4, <1>5

\* The end of a tick changes nothing shared.
LEMMA ReconnectDoneKeeps ==
    ASSUME IInv, ReconnectDone
    PROVE  IInv'
<1> USE DEF IInv, reloadVars, checkerVars, threadVars, sharedVars, appVars,
           pmVars, wmVars
<1>1. TypeOK'
  BY SentinelsAreNotValues DEF ReconnectDone, NothingDialed, NothingFailed,
     TypeOK, PMTypeOK, WMTypeOK, AppTypeOK
<1>2. (Locks /\ Locals)'
  BY SentinelsAreNotValues DEF ReconnectDone, Locks, Locals, Reconciling,
     NothingDialed, TypeOK, PMTypeOK, WMTypeOK, AppTypeOK
<1>3. (Revisions /\ DefaultKnown)'
  BY SentinelsAreNotValues DEF ReconnectDone, Revisions, DefaultKnown, Locks,
     Locals, TypeOK, PMTypeOK, WMTypeOK, AppTypeOK
<1>4. (Placed /\ HandlesAccountedFor)'
  BY SentinelsAreNotValues DEF ReconnectDone, Placed, Issued,
     HandlesAccountedFor, InFlight, PoolHandles, Locals, Locks,
     NothingDialed, TypeOK, PMTypeOK, WMTypeOK, AppTypeOK
<1>5. Owned'
  BY SentinelsAreNotValues DEF ReconnectDone, Owned, OneGoroutinePerQuery,
     Retiring, PoolHandles, OnCurrentPool, Settled, Running, Reconciling,
     Locals, Locks, TypeOK, PMTypeOK, WMTypeOK, AppTypeOK
<1> QED
  BY <1>1, <1>2, <1>3, <1>4, <1>5

\* The checker leaves holding neither a lock nor a handle.
LEMMA ReconnectExitKeeps ==
    ASSUME IInv, ReconnectExit
    PROVE  IInv'
<1> USE DEF IInv, reloadVars, checkerVars, threadVars, sharedVars, appVars,
           pmVars, wmVars
<1>1. TypeOK'
  BY SentinelsAreNotValues DEF ReconnectExit, NothingDialed, NothingFailed,
     TypeOK, PMTypeOK, WMTypeOK, AppTypeOK
<1>2. (Locks /\ Locals)'
  BY SentinelsAreNotValues DEF ReconnectExit, Locks, Locals, Reconciling,
     NothingDialed, TypeOK, PMTypeOK, WMTypeOK, AppTypeOK
<1>3. (Revisions /\ DefaultKnown)'
  BY SentinelsAreNotValues DEF ReconnectExit, Revisions, DefaultKnown, Locks,
     Locals, TypeOK, PMTypeOK, WMTypeOK, AppTypeOK
<1>4. (Placed /\ HandlesAccountedFor)'
  BY SentinelsAreNotValues DEF ReconnectExit, Placed, Issued,
     HandlesAccountedFor, InFlight, PoolHandles, Locals, Locks,
     NothingDialed, TypeOK, PMTypeOK, WMTypeOK, AppTypeOK
<1>5. Owned'
  BY SentinelsAreNotValues DEF ReconnectExit, Owned, OneGoroutinePerQuery,
     Retiring, PoolHandles, OnCurrentPool, Settled, Running, Reconciling,
     Locals, Locks, TypeOK, PMTypeOK, WMTypeOK, AppTypeOK
<1> QED
  BY <1>1, <1>2, <1>3, <1>4, <1>5

-----------------------------------------------------------------------------
(* reconcile                                                               *)

\* A worker that is left as it is runs on the current pool already: a query
\* with a default database is never skipped while it runs.
LEMMA ReconcileLeaveKeeps ==
    ASSUME IInv, NEW n \in Query, Reconcile(ReconcileLeave(n, Snap))
    PROVE  IInv'
<1> USE DEF IInv, reloadVars, checkerVars, threadVars, sharedVars, appVars,
           pmVars, wmVars
<1>1. TypeOK'
  <2>1. stats' \in Stats
    BY CountIsStats DEF Reconcile, ReconcileLeave, TypeOK
  <2> QED
    BY <2>1 DEF Reconcile, ReconcileLeave, TypeOK, PMTypeOK, WMTypeOK,
       AppTypeOK
<1>2. (Locks /\ Locals)'
  BY SentinelsAreNotValues DEF Reconcile, ReconcileLeave, Locks,
     Locals, Reconciling, NothingDialed, TypeOK, PMTypeOK, WMTypeOK,
     AppTypeOK
<1>3. (Revisions /\ DefaultKnown)'
  BY SentinelsAreNotValues DEF Reconcile, ReconcileLeave, Revisions,
     DefaultKnown, Locks, Locals, TypeOK, PMTypeOK, WMTypeOK, AppTypeOK
<1>4. (Placed /\ HandlesAccountedFor)'
  BY SentinelsAreNotValues DEF Reconcile, ReconcileLeave, Placed,
     Issued, HandlesAccountedFor, InFlight, PoolHandles, Locals, Locks,
     NothingDialed, TypeOK, PMTypeOK, WMTypeOK, AppTypeOK
<1>5. Owned'
  <2>1. /\ recTodo' = recTodo \ {n}
        /\ UNCHANGED <<workers, goroutines, lastQueries, recWait, recThen,
                       pools, reloadPc, checkerPc, toClose, oldPool, mainPc>>
    BY DEF Reconcile, ReconcileLeave
  <2>2. ASSUME Running(n) PROVE OnCurrentPool(workers[n])
    <3>1. Wanted(n, Snap).db # NoDB
      BY DEF Reconcile, ReconcileLeave, Wanted, DefaultKnown, Locals, TypeOK,
             WMTypeOK, AppTypeOK
    <3>2. Keeps(n, Snap)
      BY <2>2, <3>1 DEF Reconcile, ReconcileLeave, Skips
    <3> QED
      BY <3>2, TargetIsOnCurrentPool DEF Keeps, Reconcile, ReconcileLeave
  <2> QED
    BY <2>1, <2>2
       DEF Owned, OneGoroutinePerQuery, Retiring, PoolHandles, OnCurrentPool,
           Settled, Running, Reconciling
<1> QED
  BY <1>1, <1>2, <1>3, <1>4, <1>5

\* A worker that starts takes the current pool, and its query had no goroutine.
LEMMA ReconcileStartKeeps ==
    ASSUME IInv, NEW n \in Query, Reconcile(ReconcileStart(n, Snap))
    PROVE  IInv'
<1> USE DEF IInv, reloadVars, checkerVars, threadVars, sharedVars, appVars,
           pmVars, wmVars
<1> DEFINE w == Target(n, Snap)
           h == Spawned(n, w)
<1>a. w \in Worker /\ OnCurrentPool(w) /\ w.pool.db \in PoolHandles
  BY TargetIsOnCurrentPool DEF Reconcile, ReconcileStart, Starts
<1>b. h \in Goroutine /\ h.name = n /\ h.worker = w
  BY <1>a DEF Spawned, TypeOK, WMTypeOK
<1>c. /\ workers' = [workers EXCEPT ![n] = w]
      /\ goroutines' = goroutines \cup {h}
      /\ recTodo' = recTodo \ {n} /\ recWait = NoQuery
      /\ UNCHANGED <<lastQueries, recWait, recThen, pools, reloadPc, checkerPc,
                     toClose, oldPool, mainPc>>
  BY DEF Reconcile, ReconcileStart
<1>1. TypeOK'
  <2>1. stats' \in Stats
    BY CountIsStats DEF Reconcile, ReconcileStart, TypeOK
  <2>2. WMTypeOK'
    BY <1>a, <1>b, <1>c, <2>1 DEF Reconcile, ReconcileStart, TypeOK, WMTypeOK
  <2> QED
    BY <2>2 DEF Reconcile, TypeOK, PMTypeOK, AppTypeOK
<1>2. (Locks /\ Locals)'
  BY <1>c DEF Reconcile, ReconcileStart, Locks, Locals, Reconciling
<1>3. (Revisions /\ DefaultKnown)'
  BY SentinelsAreNotValues DEF Reconcile, ReconcileStart, Spawned,
     Starts, Revisions, DefaultKnown, Locks, Locals, TypeOK, PMTypeOK,
     WMTypeOK, AppTypeOK
<1>4. (Placed /\ HandlesAccountedFor)'
  BY SentinelsAreNotValues DEF Reconcile, ReconcileStart, Spawned,
     Starts, Placed, Issued, HandlesAccountedFor, InFlight, PoolHandles,
     Locals, Locks, NothingDialed, TypeOK, PMTypeOK, WMTypeOK, AppTypeOK
<1>5. Owned'
  <2>1. \A g \in goroutines : g.name # n /\ g.name \in Query
    BY SentinelsAreNotValues
       DEF Owned, Reconcile, ReconcileStart, Starts, Running, TypeOK, WMTypeOK
  <2>2. mainPc # "stopped" /\ Reconciling
    BY DEF Reconcile, Reconciling, Locks, TypeOK, AppTypeOK
  <2> HIDE DEF w, h
  <2>3. workers'[n] = w /\ \A m \in Query \ {n} : workers'[m] = workers[m]
    BY <1>c DEF TypeOK, WMTypeOK
  <2>4. /\ OneGoroutinePerQuery'
        /\ \A g \in goroutines' : workers'[g.name] = g.worker
    BY <1>b, <1>c, <2>1, <2>3, SentinelsAreNotValues
       DEF Owned, OneGoroutinePerQuery, TypeOK, WMTypeOK
  <2>5. \A g \in goroutines' :
            g.worker.pool.db \in (PoolHandles \cup Retiring)'
    BY <1>a, <1>b, <1>c DEF Owned, PoolHandles, Retiring
  <2>6. \A m \in Query :
            (Running(m) /\ Settled(m) => OnCurrentPool(workers[m]))'
    BY <1>a, <1>c, <2>3 DEF Owned, Running, Settled, OnCurrentPool
  <2> QED
    BY <1>c, <2>2, <2>4, <2>5, <2>6 DEF Owned, Reconciling, OnCurrentPool
<1> QED
  BY <1>1, <1>2, <1>3, <1>4, <1>5

\* The successor is bound to the current pool; until it starts, the cancelled
\* goroutine is the one that reconcile waits for.
LEMMA ReconcileRestartKeeps ==
    ASSUME IInv, NEW n \in Query, Reconcile(ReconcileRestart(n, Snap))
    PROVE  IInv'
<1> USE DEF IInv, reloadVars, checkerVars, threadVars, sharedVars, appVars,
           pmVars, wmVars
<1>a. /\ Cancelled(n) \subseteq Goroutine
      /\ \A h \in Cancelled(n) : \E g \in goroutines :
             h.name = g.name /\ h.worker = g.worker
      /\ \A h1, h2 \in Cancelled(n) : h1.name = h2.name => h1 = h2
  BY CancelledGoroutines DEF TypeOK, WMTypeOK, Owned
<1>b. mainPc # "stopped" /\ Reconciling
  BY DEF Reconcile, Reconciling, Locks, TypeOK, AppTypeOK
<1>c. Target(n, Snap) \in Worker /\ OnCurrentPool(Target(n, Snap))
  BY TargetIsOnCurrentPool DEF Reconcile, ReconcileRestart, Restarts
<1>1. TypeOK'
  <2>1. stats' \in Stats
    BY CountIsStats DEF Reconcile, ReconcileRestart, TypeOK
  <2>2. WMTypeOK'
    BY <1>a, <1>c, <2>1 DEF Reconcile, ReconcileRestart, TypeOK, WMTypeOK
  <2> QED
    BY <2>2 DEF Reconcile, TypeOK, PMTypeOK, AppTypeOK
<1>2. (Locks /\ Locals)'
  BY SentinelsAreNotValues DEF Reconcile, ReconcileRestart, Cancelled,
     Restarts, Locks, Locals, Reconciling, NothingDialed, TypeOK, PMTypeOK,
     WMTypeOK, AppTypeOK
<1>3. (Revisions /\ DefaultKnown)'
  BY SentinelsAreNotValues DEF Reconcile, ReconcileRestart, Cancelled,
     Restarts, Revisions, DefaultKnown, Locks, Locals, TypeOK, PMTypeOK,
     WMTypeOK, AppTypeOK
<1>4. (Placed /\ HandlesAccountedFor)'
  BY SentinelsAreNotValues DEF Reconcile, ReconcileRestart, Cancelled,
     Restarts, Placed, Issued, HandlesAccountedFor, InFlight, PoolHandles,
     Locals, Locks, NothingDialed, TypeOK, PMTypeOK, WMTypeOK, AppTypeOK
<1>5. Owned'
  <2>1. /\ goroutines' = Cancelled(n) /\ recWait' = n /\ recWait = NoQuery
        /\ recTodo' = recTodo \ {n} /\ recThen' = Target(n, Snap)
        /\ UNCHANGED <<workers, lastQueries, pools, reloadPc, checkerPc,
                       toClose, oldPool, mainPc>>
    BY DEF Reconcile, ReconcileRestart
  <2>2. /\ OneGoroutinePerQuery'
        /\ \A g \in goroutines' :
               g.name # recWait' => workers'[g.name] = g.worker
    BY <1>a, <2>1, SentinelsAreNotValues
       DEF Owned, OneGoroutinePerQuery, TypeOK, WMTypeOK
  <2>3. \A g \in goroutines' :
            g.worker.pool.db \in (PoolHandles \cup Retiring)'
    BY <1>a, <2>1 DEF Owned, PoolHandles, Retiring
  <2>4. \A m \in Query :
            (Running(m) /\ Settled(m) => OnCurrentPool(workers[m]))'
    BY <2>1, SentinelsAreNotValues DEF Owned, Running, Settled, OnCurrentPool
  <2> QED
    BY <1>b, <1>c, <2>1, <2>2, <2>3, <2>4, SentinelsAreNotValues
       DEF Owned, Reconciling, OnCurrentPool
<1> QED
  BY <1>1, <1>2, <1>3, <1>4, <1>5

\* A stopped worker leaves the map before its goroutine ends.
LEMMA ReconcileStopKeeps ==
    ASSUME IInv, NEW n \in Query, Reconcile(ReconcileStop(n, Snap))
    PROVE  IInv'
<1> USE DEF IInv, reloadVars, checkerVars, threadVars, sharedVars, appVars,
           pmVars, wmVars
<1>a. /\ Cancelled(n) \subseteq Goroutine
      /\ \A h \in Cancelled(n) : \E g \in goroutines :
             h.name = g.name /\ h.worker = g.worker
      /\ \A h1, h2 \in Cancelled(n) : h1.name = h2.name => h1 = h2
  BY CancelledGoroutines DEF TypeOK, WMTypeOK, Owned
<1>b. mainPc # "stopped" /\ Reconciling
  BY DEF Reconcile, Reconciling, Locks, TypeOK, AppTypeOK
<1>1. TypeOK'
  <2>1. stats' \in Stats
    BY CountIsStats DEF Reconcile, ReconcileStop, TypeOK
  <2>2. WMTypeOK'
    BY <1>a, <2>1 DEF Reconcile, ReconcileStop, StopWorker, TypeOK, WMTypeOK
  <2> QED
    BY <2>2 DEF Reconcile, TypeOK, PMTypeOK, AppTypeOK
<1>2. (Locks /\ Locals)'
  BY SentinelsAreNotValues DEF Reconcile, ReconcileStop, StopWorker,
     Cancelled, Locks, Locals, Reconciling, NothingDialed, TypeOK, PMTypeOK,
     WMTypeOK, AppTypeOK
<1>3. (Revisions /\ DefaultKnown)'
  BY SentinelsAreNotValues DEF Reconcile, ReconcileStop, StopWorker,
     Cancelled, Revisions, DefaultKnown, Locks, Locals, TypeOK, PMTypeOK,
     WMTypeOK, AppTypeOK
<1>4. (Placed /\ HandlesAccountedFor)'
  BY SentinelsAreNotValues DEF Reconcile, ReconcileStop, StopWorker, Placed,
     Issued, HandlesAccountedFor, InFlight, PoolHandles, Locals, Locks,
     NothingDialed, TypeOK, PMTypeOK, WMTypeOK, AppTypeOK
<1>5. Owned'
  <2>1. /\ goroutines' = Cancelled(n) /\ recWait' = n /\ recWait = NoQuery
        /\ recTodo' = recTodo \ {n} /\ recThen' = NoWorker
        /\ workers' = [workers EXCEPT ![n] = NoWorker]
        /\ UNCHANGED <<lastQueries, pools, reloadPc, checkerPc, toClose,
                       oldPool, mainPc>>
    BY DEF Reconcile, ReconcileStop, StopWorker
  <2>2. /\ workers'[n] = NoWorker
        /\ \A m \in Query \ {n} : workers'[m] = workers[m]
    BY <2>1 DEF TypeOK, WMTypeOK
  <2>3. \A h \in goroutines' : h.name \in Query
    BY <1>a, <2>1
  <2> QED
    BY <1>a, <1>b, <2>1, <2>2, <2>3, SentinelsAreNotValues
       DEF Owned, OneGoroutinePerQuery, Retiring, PoolHandles, OnCurrentPool,
           Settled, Running, Reconciling
<1> QED
  BY <1>1, <1>2, <1>3, <1>4, <1>5

\* The same for a query that left the config.
LEMMA ReconcileRemoveKeeps ==
    ASSUME IInv, NEW n \in Query, Reconcile(ReconcileRemove(n))
    PROVE  IInv'
<1> USE DEF IInv, reloadVars, checkerVars, threadVars, sharedVars, appVars,
           pmVars, wmVars
<1>a. /\ Cancelled(n) \subseteq Goroutine
      /\ \A h \in Cancelled(n) : \E g \in goroutines :
             h.name = g.name /\ h.worker = g.worker
      /\ \A h1, h2 \in Cancelled(n) : h1.name = h2.name => h1 = h2
  BY CancelledGoroutines DEF TypeOK, WMTypeOK, Owned
<1>b. mainPc # "stopped" /\ Reconciling
  BY DEF Reconcile, Reconciling, Locks, TypeOK, AppTypeOK
<1>1. TypeOK'
  <2>1. stats' \in Stats
    BY DEF Reconcile, ReconcileRemove, TypeOK, WMTypeOK
  <2>2. WMTypeOK'
    BY <1>a, <2>1 DEF Reconcile, ReconcileRemove, StopWorker, TypeOK, WMTypeOK
  <2> QED
    BY <2>2 DEF Reconcile, TypeOK, PMTypeOK, AppTypeOK
<1>2. (Locks /\ Locals)'
  BY SentinelsAreNotValues DEF Reconcile, ReconcileRemove, StopWorker,
     Cancelled, NotInConfig, Locks, Locals, Reconciling, NothingDialed,
     TypeOK, PMTypeOK, WMTypeOK, AppTypeOK
<1>3. (Revisions /\ DefaultKnown)'
  BY SentinelsAreNotValues DEF Reconcile, ReconcileRemove, StopWorker,
     Cancelled, NotInConfig, Revisions, DefaultKnown, Locks, Locals, TypeOK,
     PMTypeOK, WMTypeOK, AppTypeOK
<1>4. (Placed /\ HandlesAccountedFor)'
  BY SentinelsAreNotValues DEF Reconcile, ReconcileRemove, StopWorker,
     Cancelled, NotInConfig, Placed, Issued, HandlesAccountedFor, InFlight,
     PoolHandles, Locals, Locks, NothingDialed, TypeOK, PMTypeOK, WMTypeOK,
     AppTypeOK
<1>5. Owned'
  <2>1. /\ goroutines' = Cancelled(n) /\ recWait' = n /\ recWait = NoQuery
        /\ recTodo' = recTodo \ {n} /\ recThen' = NoWorker
        /\ workers' = [workers EXCEPT ![n] = NoWorker]
        /\ UNCHANGED <<lastQueries, pools, reloadPc, checkerPc, toClose,
                       oldPool, mainPc>>
    BY DEF Reconcile, ReconcileRemove, StopWorker
  <2>2. /\ workers'[n] = NoWorker
        /\ \A m \in Query \ {n} : workers'[m] = workers[m]
    BY <2>1 DEF TypeOK, WMTypeOK
  <2>3. \A h \in goroutines' : h.name \in Query
    BY <1>a, <2>1
  <2> QED
    BY <1>a, <1>b, <2>1, <2>2, <2>3, SentinelsAreNotValues
       DEF Owned, OneGoroutinePerQuery, Retiring, PoolHandles, OnCurrentPool,
           Settled, Running, Reconciling
<1> QED
  BY <1>1, <1>2, <1>3, <1>4, <1>5

\* The successor starts only when the old goroutine is gone.
LEMMA ReconcileJoinKeeps ==
    ASSUME IInv, Reconcile(ReconcileJoin)
    PROVE  IInv'
<1> USE DEF IInv, reloadVars, checkerVars, threadVars, sharedVars, appVars,
           pmVars, wmVars
<1>1. TypeOK'
  BY SentinelsAreNotValues DEF Reconcile, ReconcileJoin, Joined, Spawned,
     NothingDialed, NothingFailed, TypeOK, PMTypeOK, WMTypeOK, AppTypeOK
<1>2. (Locks /\ Locals)'
  BY SentinelsAreNotValues DEF Reconcile, ReconcileJoin, Joined, Spawned,
     Locks, Locals, Reconciling, NothingDialed, TypeOK, PMTypeOK, WMTypeOK,
     AppTypeOK
<1>3. (Revisions /\ DefaultKnown)'
  BY SentinelsAreNotValues DEF Reconcile, ReconcileJoin, Joined, Spawned,
     Revisions, DefaultKnown, Locks, Locals, TypeOK, PMTypeOK, WMTypeOK,
     AppTypeOK
<1>4. (Placed /\ HandlesAccountedFor)'
  BY SentinelsAreNotValues DEF Reconcile, ReconcileJoin, Joined, Spawned,
     Placed, Issued, HandlesAccountedFor, InFlight, PoolHandles, Locals,
     Locks, NothingDialed, TypeOK, PMTypeOK, WMTypeOK, AppTypeOK
<1>5. Owned'
  <2> DEFINE n == recWait
  <2>1. /\ n # NoQuery /\ n \in Query /\ \A g \in goroutines : g.name # n
        /\ recWait' = NoQuery /\ recThen' = NoWorker
        /\ UNCHANGED <<recTodo, lastQueries, pools, reloadPc, checkerPc,
                       toClose, oldPool, mainPc>>
    BY DEF Reconcile, ReconcileJoin, Joined, TypeOK, WMTypeOK
  <2>2. mainPc # "stopped" /\ Reconciling
    BY DEF Reconcile, Reconciling, Locks, TypeOK, AppTypeOK
  <2>3. CASE recThen = NoWorker
    <3>1. UNCHANGED <<workers, goroutines>>
      BY <2>3 DEF Reconcile, ReconcileJoin
    <3>2. \A m \in Query :
              (Running(m) /\ Settled(m) => OnCurrentPool(workers[m]))'
      BY <2>1, <2>3, <3>1 DEF Owned, Running, Settled, OnCurrentPool
    <3> QED
      BY <2>1, <2>2, <3>1, <3>2
         DEF Owned, OneGoroutinePerQuery, Retiring, PoolHandles, Reconciling
  <2>4. CASE recThen # NoWorker
    <3> DEFINE h == Spawned(n, recThen)
    <3>1. /\ workers' = [workers EXCEPT ![n] = recThen]
          /\ goroutines' = goroutines \cup {h}
      BY <2>4 DEF Reconcile, ReconcileJoin
    <3>2. h.name = n /\ h.worker = recThen
      BY DEF Spawned
    <3>3. /\ workers'[n] = recThen
          /\ \A m \in Query \ {n} : workers'[m] = workers[m]
      BY <2>1, <3>1 DEF TypeOK, WMTypeOK
    <3>4. /\ recThen \in Worker /\ OnCurrentPool(recThen)
          /\ recThen.pool.db \in PoolHandles
      BY <2>4, SentinelsAreNotValues
         DEF Owned, OnCurrentPool, PoolHandles, TypeOK, WMTypeOK
    <3>5. \A g \in goroutines : g.name \in Query
      BY DEF TypeOK, WMTypeOK
    <3> HIDE DEF h
    <3>6. /\ OneGoroutinePerQuery'
          /\ \A g \in goroutines' : workers'[g.name] = g.worker
      BY <2>1, <3>1, <3>2, <3>3, <3>5 DEF Owned, OneGoroutinePerQuery
    <3>7. \A g \in goroutines' :
              g.worker.pool.db \in (PoolHandles \cup Retiring)'
      BY <2>1, <3>1, <3>2, <3>4 DEF Owned, PoolHandles, Retiring
    <3>8. \A m \in Query :
              (Running(m) /\ Settled(m) => OnCurrentPool(workers[m]))'
      BY <2>1, <3>3, <3>4 DEF Owned, Running, Settled, OnCurrentPool
    <3> QED
      BY <2>1, <2>2, <3>6, <3>7, <3>8 DEF Owned, Reconciling
  <2> QED
    BY <2>3, <2>4
<1> QED
  BY <1>1, <1>2, <1>3, <1>4, <1>5

-----------------------------------------------------------------------------
(* The workers and the shutdown                                            *)

\* A tick changes the phase of one goroutine only.
LEMMA WorkerTickKeeps ==
    ASSUME IInv, NEW g \in goroutines, Tick(g)
    PROVE  IInv'
<1> USE DEF IInv, reloadVars, checkerVars, threadVars, sharedVars, appVars,
           pmVars, wmVars
<1> DEFINE h == [g EXCEPT !.phase = "running"]
<1>a. h \in Goroutine /\ h.name = g.name /\ h.worker = g.worker
  BY DEF TypeOK, WMTypeOK
<1>1. TypeOK'
  BY <1>a DEF Tick, WorkerTick, TypeOK, PMTypeOK, WMTypeOK, AppTypeOK
<1>2. (Locks /\ Locals)'
  BY SentinelsAreNotValues DEF Tick, WorkerTick, Locks, Locals, Reconciling,
     NothingDialed, TypeOK, PMTypeOK, WMTypeOK, AppTypeOK
<1>3. (Revisions /\ DefaultKnown)'
  BY SentinelsAreNotValues DEF Tick, WorkerTick, Revisions, DefaultKnown,
     Locks, Locals, TypeOK, PMTypeOK, WMTypeOK, AppTypeOK
<1>4. (Placed /\ HandlesAccountedFor)'
  BY SentinelsAreNotValues DEF Tick, WorkerTick, Placed, Issued,
     HandlesAccountedFor, InFlight, PoolHandles, Locals, Locks,
     NothingDialed, TypeOK, PMTypeOK, WMTypeOK, AppTypeOK
<1>5. Owned'
  <2>1. goroutines' = (goroutines \ {g}) \cup {h}
    BY DEF Tick, WorkerTick
  <2> HIDE DEF h
  <2>2. mainPc # "stopped"
    BY DEF Owned
  <2> QED
    BY <1>a, <2>1, <2>2
       DEF Tick, WorkerTick, Owned, OneGoroutinePerQuery, Retiring, PoolHandles,
           OnCurrentPool, Settled, Running, Reconciling
<1> QED
  BY <1>1, <1>2, <1>3, <1>4, <1>5

\* So does the end of a query.
LEMMA WorkerFinishKeeps ==
    ASSUME IInv, NEW g \in goroutines, Finish(g)
    PROVE  IInv'
<1> USE DEF IInv, reloadVars, checkerVars, threadVars, sharedVars, appVars,
           pmVars, wmVars
<1> DEFINE h == [g EXCEPT !.phase = "idle"]
<1>a. h \in Goroutine /\ h.name = g.name /\ h.worker = g.worker
  BY DEF TypeOK, WMTypeOK
<1>1. TypeOK'
  BY <1>a DEF Finish, WorkerFinish, TypeOK, PMTypeOK, WMTypeOK, AppTypeOK
<1>2. (Locks /\ Locals)'
  BY SentinelsAreNotValues DEF Finish, WorkerFinish, Locks, Locals,
     Reconciling, NothingDialed, TypeOK, PMTypeOK, WMTypeOK, AppTypeOK
<1>3. (Revisions /\ DefaultKnown)'
  BY SentinelsAreNotValues DEF Finish, WorkerFinish, Revisions, DefaultKnown,
     Locks, Locals, TypeOK, PMTypeOK, WMTypeOK, AppTypeOK
<1>4. (Placed /\ HandlesAccountedFor)'
  BY SentinelsAreNotValues DEF Finish, WorkerFinish, Placed, Issued,
     HandlesAccountedFor, InFlight, PoolHandles, Locals, Locks,
     NothingDialed, TypeOK, PMTypeOK, WMTypeOK, AppTypeOK
<1>5. Owned'
  <2>1. goroutines' = (goroutines \ {g}) \cup {h}
    BY DEF Finish, WorkerFinish
  <2> HIDE DEF h
  <2>2. mainPc # "stopped"
    BY DEF Owned
  <2> QED
    BY <1>a, <2>1, <2>2
       DEF Finish, WorkerFinish, Owned, OneGoroutinePerQuery, Retiring, PoolHandles,
           OnCurrentPool, Settled, Running, Reconciling
<1> QED
  BY <1>1, <1>2, <1>3, <1>4, <1>5

\* A goroutine that ends takes nothing with it.
LEMMA WorkerExitKeeps ==
    ASSUME IInv, NEW g \in goroutines, Exit(g)
    PROVE  IInv'
<1> USE DEF IInv, reloadVars, checkerVars, threadVars, sharedVars, appVars,
           pmVars, wmVars
<1>1. TypeOK'
  BY SentinelsAreNotValues DEF Exit, WorkerExit, NothingDialed,
     NothingFailed, TypeOK, PMTypeOK, WMTypeOK, AppTypeOK
<1>2. (Locks /\ Locals)'
  BY SentinelsAreNotValues DEF Exit, WorkerExit, Locks, Locals, Reconciling,
     NothingDialed, TypeOK, PMTypeOK, WMTypeOK, AppTypeOK
<1>3. (Revisions /\ DefaultKnown)'
  BY SentinelsAreNotValues DEF Exit, WorkerExit, Revisions, DefaultKnown,
     Locks, Locals, TypeOK, PMTypeOK, WMTypeOK, AppTypeOK
<1>4. (Placed /\ HandlesAccountedFor)'
  BY SentinelsAreNotValues DEF Exit, WorkerExit, Placed, Issued,
     HandlesAccountedFor, InFlight, PoolHandles, Locals, Locks,
     NothingDialed, TypeOK, PMTypeOK, WMTypeOK, AppTypeOK
<1>5. Owned'
  BY SentinelsAreNotValues DEF Exit, WorkerExit, Owned, OneGoroutinePerQuery,
     Retiring, PoolHandles, OnCurrentPool, Settled, Running, Reconciling,
     Locals, Locks, TypeOK, PMTypeOK, WMTypeOK, AppTypeOK
<1> QED
  BY <1>1, <1>2, <1>3, <1>4, <1>5

\* Cancelling the process context marks the goroutines and nothing else.
LEMMA ShutdownKeeps ==
    ASSUME IInv, Shutdown
    PROVE  IInv'
<1> USE DEF IInv, reloadVars, checkerVars, threadVars, sharedVars, appVars,
           pmVars, wmVars
<1>a. /\ AllCancelled \subseteq Goroutine
      /\ \A h \in AllCancelled : \E g \in goroutines :
             h.name = g.name /\ h.worker = g.worker
      /\ \A h1, h2 \in AllCancelled : h1.name = h2.name => h1 = h2
  BY AllCancelledGoroutines DEF TypeOK, WMTypeOK, Owned
<1>1. TypeOK'
  BY <1>a DEF Shutdown, CancelContext, TypeOK, PMTypeOK, WMTypeOK, AppTypeOK
<1>2. (Locks /\ Locals)'
  BY SentinelsAreNotValues DEF Shutdown, CancelContext, Locks, Locals,
     Reconciling, NothingDialed, TypeOK, PMTypeOK, WMTypeOK, AppTypeOK
<1>3. (Revisions /\ DefaultKnown)'
  BY SentinelsAreNotValues DEF Shutdown, CancelContext, Revisions,
     DefaultKnown, Locks, Locals, TypeOK, PMTypeOK, WMTypeOK, AppTypeOK
<1>4. (Placed /\ HandlesAccountedFor)'
  BY SentinelsAreNotValues DEF Shutdown, CancelContext, Placed, Issued,
     HandlesAccountedFor, InFlight, PoolHandles, Locals, Locks,
     NothingDialed, TypeOK, PMTypeOK, WMTypeOK, AppTypeOK
<1>5. Owned'
  BY <1>a DEF Shutdown, CancelContext, Owned, OneGoroutinePerQuery, Retiring, PoolHandles,
              OnCurrentPool, Settled, Running, Reconciling
<1> QED
  BY <1>1, <1>2, <1>3, <1>4, <1>5

\* stopAll marks the goroutines again; both loops are gone by then.
LEMMA StopAllKeeps ==
    ASSUME IInv, StopAll
    PROVE  IInv'
<1> USE DEF IInv, reloadVars, checkerVars, threadVars, sharedVars, appVars,
           pmVars, wmVars
<1>a. /\ AllCancelled \subseteq Goroutine
      /\ \A h \in AllCancelled : \E g \in goroutines :
             h.name = g.name /\ h.worker = g.worker
      /\ \A h1, h2 \in AllCancelled : h1.name = h2.name => h1 = h2
  BY AllCancelledGoroutines DEF TypeOK, WMTypeOK, Owned
<1>1. TypeOK'
  BY <1>a DEF StopAll, TypeOK, PMTypeOK, WMTypeOK, AppTypeOK
<1>2. (Locks /\ Locals)'
  BY SentinelsAreNotValues DEF StopAll, Locks, Locals, Reconciling,
     NothingDialed, TypeOK, PMTypeOK, WMTypeOK, AppTypeOK
<1>3. (Revisions /\ DefaultKnown)'
  BY SentinelsAreNotValues DEF StopAll, Revisions, DefaultKnown, Locks,
     Locals, TypeOK, PMTypeOK, WMTypeOK, AppTypeOK
<1>4. (Placed /\ HandlesAccountedFor)'
  BY SentinelsAreNotValues DEF StopAll, Placed, Issued, HandlesAccountedFor,
     InFlight, PoolHandles, Locals, Locks, NothingDialed, TypeOK, PMTypeOK,
     WMTypeOK, AppTypeOK
<1>5. Owned'
  BY <1>a DEF StopAll, Owned, OneGoroutinePerQuery, Retiring, PoolHandles,
              OnCurrentPool, Settled, Running, Reconciling
<1> QED
  BY <1>1, <1>2, <1>3, <1>4, <1>5

\* closeAll runs when no worker has a goroutine, and closes what is left:
\* nothing is in flight any more.
LEMMA CloseAllKeeps ==
    ASSUME IInv, CloseAll
    PROVE  IInv'
<1> USE DEF IInv, reloadVars, checkerVars, threadVars, sharedVars, appVars,
           pmVars, wmVars
<1>1. TypeOK'
  BY SentinelsAreNotValues DEF CloseAll, ClosePools, Joined, NothingDialed,
     NothingFailed, TypeOK, PMTypeOK, WMTypeOK, AppTypeOK
<1>2. (Locks /\ Locals)'
  BY SentinelsAreNotValues DEF CloseAll, ClosePools, Joined, Locks, Locals,
     Reconciling, NothingDialed, TypeOK, PMTypeOK, WMTypeOK, AppTypeOK
<1>3. (Revisions /\ DefaultKnown)'
  BY SentinelsAreNotValues DEF CloseAll, ClosePools, Joined, Revisions,
     DefaultKnown, Locks, Locals, TypeOK, PMTypeOK, WMTypeOK, AppTypeOK
<1>4. (Placed /\ HandlesAccountedFor)'
  BY SentinelsAreNotValues DEF CloseAll, ClosePools, Joined, Placed, Issued,
     HandlesAccountedFor, InFlight, PoolHandles, Locals, Locks,
     NothingDialed, TypeOK, PMTypeOK, WMTypeOK, AppTypeOK
<1>5. Owned'
  BY SentinelsAreNotValues, SMTT(30) DEF CloseAll, ClosePools, Joined, Owned,
     OneGoroutinePerQuery, Retiring, PoolHandles, OnCurrentPool, Settled,
     Running, Reconciling, Locals, Locks, TypeOK, PMTypeOK, WMTypeOK,
     AppTypeOK
<1> QED
  BY <1>1, <1>2, <1>3, <1>4, <1>5

\* A stuttering step keeps everything.
LEMMA StutteringKeeps ==
    ASSUME IInv, UNCHANGED vars
    PROVE  IInv'
<1> USE DEF IInv, reloadVars, checkerVars, threadVars, sharedVars, appVars,
           pmVars, wmVars
<1>1. TypeOK'
  BY SentinelsAreNotValues DEF vars, NothingDialed, NothingFailed, TypeOK,
     PMTypeOK, WMTypeOK, AppTypeOK
<1>2. (Locks /\ Locals)'
  BY SentinelsAreNotValues DEF vars, Locks, Locals, Reconciling,
     NothingDialed, TypeOK, PMTypeOK, WMTypeOK, AppTypeOK
<1>3. (Revisions /\ DefaultKnown)'
  BY SentinelsAreNotValues DEF vars, Revisions, DefaultKnown, Locks, Locals,
     TypeOK, PMTypeOK, WMTypeOK, AppTypeOK
<1>4. (Placed /\ HandlesAccountedFor)'
  BY SentinelsAreNotValues, SMTT(30) DEF vars, Placed, Issued,
     HandlesAccountedFor, InFlight, PoolHandles, Locals, Locks, NothingDialed,
     TypeOK, PMTypeOK, WMTypeOK, AppTypeOK
<1>5. Owned'
  BY SentinelsAreNotValues DEF vars, Owned, OneGoroutinePerQuery, Retiring,
     PoolHandles, OnCurrentPool, Settled, Running, Reconciling, Locals,
     Locks, TypeOK, PMTypeOK, WMTypeOK, AppTypeOK
<1> QED
  BY <1>1, <1>2, <1>3, <1>4, <1>5

-----------------------------------------------------------------------------
(* The theorems                                                            *)

\* Every step of Next, and every stutter, keeps the inductive invariant.
LEMMA NextKeepsIInv == IInv /\ [Next]_vars => IInv'
<1> SUFFICES ASSUME IInv, [Next]_vars PROVE IInv'
  OBVIOUS
<1>1. CASE ReloadStart
  BY <1>1, ReloadRejectKeeps, ReloadLoadKeeps DEF ReloadStart
<1>2. CASE ReloadStep
  BY <1>2, ReloadDialKeeps, ReloadCommitKeeps, ReloadUnlockKeeps,
     ReloadCloseKeeps DEF ReloadStep
<1>3. CASE ReconnectStep
  BY <1>3, ReconnectTickKeeps, ReconnectDialFailKeeps, ReconnectDialOkKeeps,
     ReconnectDiscardKeeps, ReconnectCommitKeeps, ReconnectUnlockKeeps,
     ReconnectCloseKeeps, ReconnectDoneKeeps, ReconnectExitKeeps
     DEF ReconnectStep, ReconnectDial, ReconnectLock
<1>4. CASE ReconcileStep
  BY <1>4, ReconcileLeaveKeeps, ReconcileStartKeeps, ReconcileRestartKeeps,
     ReconcileStopKeeps, ReconcileRemoveKeeps, ReconcileJoinKeeps
     DEF ReconcileStep
<1>5. CASE WorkerStep
  BY <1>5, WorkerTickKeeps, WorkerFinishKeeps, WorkerExitKeeps DEF WorkerStep
<1>6. CASE WatcherTrigger \/ WatcherExit \/ Shutdown
  BY <1>6, WatcherTriggerKeeps, WatcherExitKeeps, ShutdownKeeps
<1>7. CASE MainStep
  BY <1>7, StopAllKeeps, CloseAllKeeps DEF MainStep
<1>8. CASE Terminated \/ UNCHANGED vars
  BY <1>8, StutteringKeeps DEF Terminated
<1> QED
  BY <1>1, <1>2, <1>3, <1>4, <1>5, <1>6, <1>7, <1>8 DEF Next

\* IInv holds in every reachable state of app with its two managers.
THEOREM Invariance == Spec => []IInv
<1>1. Init => IInv
  BY InitIInv
<1>2. IInv /\ [Next]_vars => IInv'
  BY NextKeepsIInv
<1> QED
  BY <1>1, <1>2, PTL DEF Spec

\* Every variable of the pool map, the worker map and the two loops always
\* has a value of its type.
THEOREM TypeCorrect == Spec => []TypeOK
<1>1. IInv => TypeOK
  BY DEF IInv
<1> QED
  BY <1>1, Invariance, PTL

\* Up to closeAll the open *sql.DBs are exactly those of the pool map and
\* those that a transition in progress will commit or close; after it there
\* are none: nothing leaks and nothing current is closed.
THEOREM NoConnectionLeaks == Spec => []HandlesAccountedFor
<1>1. IInv => HandlesAccountedFor
  BY DEF IInv
<1> QED
  BY <1>1, Invariance, PTL

\* What a transition has still to take from its workers is not closed yet.
LEMMA RetiringIsInFlight == IInv => Retiring \subseteq InFlight \cup {NoHandle}
BY DEF IInv, Retiring, InFlight

\* A worker's goroutine never holds a *sql.DB that closePools has closed.
THEOREM ConnectionsStayOpen == Spec => []NoUseAfterClose
<1>1. IInv => NoUseAfterClose
  <2> SUFFICES ASSUME IInv, NEW g \in goroutines
               PROVE  g.worker.pool.db \in open
    BY DEF NoUseAfterClose
  <2>1. mainPc # "stopped"
    BY DEF IInv, Owned
  <2>2. open = PoolHandles \cup InFlight
    BY <2>1 DEF IInv, HandlesAccountedFor
  <2>3. g.worker.pool.db \in Handle
    BY DEF IInv, TypeOK, WMTypeOK, Goroutine, Worker, Pool
  <2>4. g.worker.pool.db \in PoolHandles \cup Retiring
    BY DEF IInv, Owned
  <2> QED
    BY <2>2, <2>3, <2>4, RetiringIsInFlight, SentinelsAreNotValues
<1> QED
  BY <1>1, Invariance, PTL

\* No query has two goroutines at once, whatever restarts it.
THEOREM QueriesDoNotOverlap == Spec => []OneGoroutinePerQuery
<1>1. IInv => OneGoroutinePerQuery
  BY DEF IInv, Owned
<1> QED
  BY <1>1, Invariance, PTL

-----------------------------------------------------------------------------
(* App implements Connections: every step of reload, poolHealthChecker,    *)
(* reconcile, the workers and the shutdown is a step of a handle's life    *)
(* from dialled to current to retired to closed, or leaves it alone.       *)

(* Handles are numbered from one                                           *)

Numbered == \A h \in open : h[2] # 0

LEMMA NumberedStep == IInv /\ Numbered /\ [Next]_vars => Numbered'
<1> SUFFICES ASSUME IInv, Numbered, [Next]_vars PROVE Numbered'
  OBVIOUS
<1> USE DEF reloadVars, checkerVars, threadVars, sharedVars, appVars, pmVars
<1>1. ASSUME open' \subseteq open PROVE Numbered'
  BY <1>1 DEF Numbered
<1>2. ASSUME NEW D \in SUBSET DB, Dial(D) PROVE Numbered'
  <2>1. \A d \in D : NextHandle(d)[2] # 0
    BY DEF NextHandle, IInv, TypeOK, PMTypeOK
  <2> QED
    BY <1>2, <2>1 DEF Dial, Numbered
<1>3. CASE ReloadStart
  BY <1>1, <1>3 DEF ReloadStart, ReloadReject, ReloadLoad
<1>4. CASE ReloadStep
  BY <1>1, <1>2, <1>4 DEF ReloadStep, ReloadDial, ReloadCommit, ReloadUnlock,
                          ReloadClose, ApplyConfig, ClosePools
<1>5. CASE ReconnectStep
  <2>1. CASE \E d \in DB : ReconnectDialOk(d)
    BY <1>2, <2>1 DEF ReconnectDialOk
  <2>2. CASE ~\E d \in DB : ReconnectDialOk(d)
    BY <1>1, <1>5, <2>2
       DEF ReconnectStep, ReconnectTick, ReconnectDial, ReconnectDialFail,
           ReconnectLock, ReconnectDiscard, ReconnectCommit, CommitReconnect,
           ReconnectUnlock, ReconnectClose, ReconnectDone, ReconnectExit,
           ClosePools
  <2> QED
    BY <2>1, <2>2
<1>6. CASE ReconcileStep
  BY <1>1, <1>6 DEF ReconcileStep, Reconcile
<1>7. CASE WorkerStep \/ Shutdown
  BY <1>1, <1>7 DEF WorkerStep, Tick, Finish, Exit, Shutdown
<1>8. CASE \/ WatcherTrigger \/ WatcherExit \/ MainStep \/ Terminated
           \/ UNCHANGED vars
  BY <1>1, <1>8 DEF WatcherTrigger, WatcherExit, MainStep, StopAll, CloseAll,
                    ClosePools, Terminated, vars
<1> QED
  BY <1>3, <1>4, <1>5, <1>6, <1>7, <1>8 DEF Next

\* Handles start at number one, so that those opened so far can be counted.
LEMMA NumberedHolds == Spec => [](IInv /\ Numbered)
<1>1. Init => IInv /\ Numbered
  BY InitIInv DEF Init, PMInit, Numbered
<1>2. IInv /\ Numbered /\ [Next]_vars => (IInv /\ Numbered)'
  BY NextKeepsIInv, NumberedStep
<1> QED
  BY <1>1, <1>2, PTL DEF Spec

-----------------------------------------------------------------------------
(* Where the handles are                                                   *)

\* Handles is the tuple of what Connections sees of the handles.
Handles == <<Fresh, Current, Retired, Opened, open>>

\* A handle has been opened if its number has been given out.
LEMMA OpenedMeansIssued ==
    ASSUME IInv, NEW h, Issued(h), h[2] # 0
    PROVE  h \in Opened
<1>1. h[1] \in DB /\ h[2] \in 1 .. serial[h[1]] /\ h = <<h[1], h[2]>>
  BY DEF Issued, IInv, TypeOK, PMTypeOK
<1> QED
  BY <1>1 DEF Opened

\* After closeAll, and while main waits for the workers, nothing is on its way.
LEMMA NothingOnTheWay ==
    ASSUME IInv, mainPc \in {"joining", "stopped"}
    PROVE  Fresh = {} /\ Retired = {}
<1>1. reloadPc = "none" /\ checkerPc = "exited"
  BY DEF IInv, Locks, TypeOK, AppTypeOK
<1>2. dialed = NothingDialed /\ toClose = {} /\ attemptDB = NoHandle
      /\ oldPool = NoHandle
  BY <1>1 DEF IInv, Locals
<1> QED
  BY <1>2 DEF Fresh, Retired, NothingDialed

\* An open handle is dialled, current or retired, and only one of these; a
\* worker holds a current or a retired one.
LEMMA Places ==
    ASSUME IInv, Numbered
    PROVE  /\ open = Fresh \cup Current \cup Retired
           /\ open \subseteq Opened
           /\ Opened \subseteq Handle
           /\ Fresh \cap Current = {}
           /\ Fresh \cap Retired = {}
           /\ Current \cap Retired = {}
           /\ \A u \in Users : u[2] \in Current \cup Retired
<1>1. open = Fresh \cup Current \cup Retired
  <2>1. CASE mainPc = "stopped"
    BY <2>1, NothingOnTheWay DEF IInv, HandlesAccountedFor, Current
  <2>2. CASE mainPc # "stopped"
    <3>1. open = PoolHandles \cup InFlight
      BY <2>2 DEF IInv, HandlesAccountedFor
    <3>2. NoHandle \notin toClose
      BY SentinelsAreNotValues DEF IInv, TypeOK, AppTypeOK
    <3>3. InFlight = Fresh \cup Retired
      BY <3>2 DEF InFlight, Fresh, Retired
    <3> QED
      BY <2>2, <3>1, <3>3 DEF Current
  <2> QED
    BY <2>1, <2>2
<1>2. \A h \in Current : \E d \in DB : pools[d] # NoPool /\ h = pools[d].db
  BY DEF Current, PoolHandles
<1>3. \A h \in Fresh :
          \/ \E d \in DB : h = dialed[d] /\ dialed[d] # NoHandle
          \/ h = attemptDB /\ attemptDB # NoHandle
  BY DEF Fresh
<1>4. \A h \in Retired :
          \/ h \in toClose
          \/ h = oldPool /\ oldPool # NoHandle
  BY DEF Retired
<1>5. \A h \in open : Issued(h)
  BY <1>1, <1>2, <1>3, <1>4 DEF IInv, Placed
<1>6. open \subseteq Opened
  BY <1>5, OpenedMeansIssued DEF Numbered
<1>7. Fresh \cap Current = {}
  <2> SUFFICES ASSUME NEW h \in Fresh, NEW d \in DB,
                      pools[d] # NoPool, h = pools[d].db
               PROVE  FALSE
    BY <1>2
  <2>1. h # attemptDB
    BY DEF IInv, Placed
  <2>2. PICK e \in DB : h = dialed[e] /\ dialed[e] # NoHandle
    BY <1>3, <2>1
  <2>3. h[1] = d /\ dialed[e][1] = e
    BY <2>2 DEF IInv, Placed
  <2>4. e = d
    BY <2>2, <2>3
  <2> QED
    BY <2>2, <2>4 DEF IInv, Placed
<1>8. Fresh \cap Retired = {}
  <2> SUFFICES ASSUME NEW h \in Fresh, h \in Retired
               PROVE  FALSE
    OBVIOUS
  <2>1. CASE h = attemptDB /\ attemptDB # NoHandle
    BY <1>4, <2>1 DEF IInv, Placed
  <2>2. CASE \E d \in DB : h = dialed[d] /\ dialed[d] # NoHandle
    <3>1. PICK d \in DB : h = dialed[d] /\ dialed[d] # NoHandle
      BY <2>2
    <3>2. reloadPc = "dialled"
      BY <3>1 DEF IInv, Locals, NothingDialed
    <3>3. toClose = {}
      BY <3>2 DEF IInv, Locals
    <3> QED
      BY <1>4, <3>1, <3>3 DEF IInv, Placed
  <2> QED
    BY <1>3, <2>1, <2>2
<1>9. Current \cap Retired = {}
  BY <1>2, <1>4 DEF IInv, Placed
<1>10. \A u \in Users : u[2] \in Current \cup Retired
  <2> SUFFICES ASSUME NEW g \in goroutines
               PROVE  g.worker.pool.db \in Current \cup Retired
    BY DEF Users
  <2>1. mainPc # "stopped"
    BY DEF IInv, Owned
  <2>2. g.worker.pool.db \in PoolHandles \cup Retiring
    BY DEF IInv, Owned
  <2>3. g.worker.pool.db \in Handle
    BY DEF IInv, TypeOK, WMTypeOK
  <2> QED
    BY <2>1, <2>2, <2>3, SentinelsAreNotValues DEF Current, Retired, Retiring
<1>11. Opened \subseteq Handle
  BY DEF Opened, IInv, TypeOK, PMTypeOK
<1> QED
  BY <1>1, <1>6, <1>7, <1>8, <1>9, <1>10, <1>11

\* Steps that do not touch what refers to a handle leave them all in place.
LEMMA HandlesStay ==
    ASSUME UNCHANGED <<dialed, attemptDB, toClose, oldPool, pools, serial, open>>,
           mainPc' = "stopped" <=> mainPc = "stopped"
    PROVE  UNCHANGED Handles
<1>1. Fresh' = Fresh /\ Retired' = Retired /\ Opened' = Opened
  BY DEF Fresh, Retired, Opened
<1>2. Current' = Current
  BY DEF Current, PoolHandles
<1> QED
  BY <1>1, <1>2 DEF Handles

\* Dialling gives out the next number of each database.
LEMMA DialOpens ==
    ASSUME IInv, Numbered, NEW D \in SUBSET DB, Dial(D)
    PROVE  /\ Opened' = Opened \cup {NextHandle(d) : d \in D}
           /\ \A d \in D : NextHandle(d) \in Handle /\ NextHandle(d) \notin Opened
           /\ Opened' \ open' = Opened \ open
<1>1. serial \in [DB -> Nat]
  BY DEF IInv, TypeOK, PMTypeOK
<1>2. \A d \in DB : serial'[d] = IF d \in D THEN serial[d] + 1 ELSE serial[d]
  BY DEF Dial
<1>3. \A d \in D : NextHandle(d) \in Handle /\ NextHandle(d) \notin Opened
  BY <1>1 DEF NextHandle, Opened
<1>4. \A d \in DB, n \in Nat : <<d, n>> \in Opened <=> n \in 1 .. serial[d]
  BY DEF Opened
<1>5. \A d \in DB, n \in Nat : <<d, n>> \in Opened' <=> n \in 1 .. serial'[d]
  BY DEF Opened
<1>6. Opened \subseteq Handle /\ Opened' \subseteq Handle
  BY <1>1, <1>2 DEF Opened
<1>7. \A d \in DB, n \in Nat :
          n \in 1 .. serial'[d] <=>
              n \in 1 .. serial[d] \/ (d \in D /\ n = serial[d] + 1)
  BY <1>1, <1>2
<1>8. \A d \in DB, n \in Nat :
          <<d, n>> \in {NextHandle(e) : e \in D} <=>
              d \in D /\ n = serial[d] + 1
  BY DEF NextHandle
<1>9. \A d \in DB, n \in Nat :
          <<d, n>> \in Opened' <=>
              <<d, n>> \in Opened \cup {NextHandle(e) : e \in D}
  BY <1>4, <1>5, <1>7, <1>8
<1>10. {NextHandle(d) : d \in D} \subseteq Handle
  BY <1>3
<1>11. \A h \in Handle : \E d \in DB, n \in Nat : h = <<d, n>>
  OBVIOUS
<1>12. Opened' = Opened \cup {NextHandle(d) : d \in D}
  BY <1>6, <1>9, <1>10, <1>11
<1>13. open' = open \cup {NextHandle(d) : d \in D}
  BY DEF Dial
<1> QED
  BY <1>3, <1>12, <1>13

-----------------------------------------------------------------------------
(* The steps of reload and of poolHealthChecker                            *)

\* What Connections sees of the goroutines is who holds which handle.
LEMMA UsersStay == UNCHANGED goroutines => UNCHANGED Users
BY DEF Users

LEMMA ReloadDialOpens ==
    ASSUME IInv, Numbered, NEW ok \in SUBSET DB, ReloadDial(ok)
    PROVE  Conns!Open
<1> DEFINE new == {NextHandle(d) : d \in ok}
<1>1. Opened' = Opened \cup new /\ Opened' \ open' = Opened \ open
      /\ \A h \in new : h \in Handle /\ h \notin Opened
  BY DialOpens DEF ReloadDial
<1>2. Fresh' \subseteq Fresh \cup new
  BY DEF ReloadDial, Fresh, checkerVars
<1>3. dialed = NothingDialed
  BY DEF IInv, Locals, ReloadDial
<1>4. Fresh \subseteq Fresh'
  BY <1>3 DEF ReloadDial, Fresh, NothingDialed, checkerVars
<1>5. UNCHANGED <<Current, Retired, Users>>
  BY DEF ReloadDial, Current, PoolHandles, Retired, Users, checkerVars,
         threadVars, wmVars
<1>6. Fresh' \ Fresh \subseteq
          Handle \ (Fresh \cup Current \cup Retired \cup (Opened \ open))
  BY <1>1, <1>2, Places
<1> QED
  BY <1>1, <1>4, <1>5, <1>6 DEF Conns!Open

LEMMA ReconnectDialOpens ==
    ASSUME IInv, Numbered, NEW d \in DB, ReconnectDialOk(d)
    PROVE  Conns!Open
<1>1. Dial({d}) /\ attemptDB' = NextHandle(d) /\ UNCHANGED dialed
  BY DEF ReconnectDialOk, reloadVars
<1>2. Opened' \ open' = Opened \ open
      /\ NextHandle(d) \in Handle /\ NextHandle(d) \notin Opened
  BY <1>1, DialOpens
<1>3. attemptDB = NoHandle
  BY DEF IInv, Locals, ReconnectDialOk
<1>4. Fresh \subseteq Fresh' /\ Fresh' \subseteq Fresh \cup {NextHandle(d)}
  BY <1>1, <1>3 DEF Fresh
<1>5. UNCHANGED <<Current, Retired, Users>>
  BY DEF ReconnectDialOk, Current, PoolHandles, Retired, Users, reloadVars,
         threadVars, wmVars
<1>6. Fresh' \ Fresh \subseteq
          Handle \ (Fresh \cup Current \cup Retired \cup (Opened \ open))
  BY <1>2, <1>4, Places
<1> QED
  BY <1>2, <1>4, <1>5, <1>6 DEF Conns!Open

\* The commit of applyConfig switches every database it decides at once.
LEMMA ReloadCommitSwitches ==
    ASSUME IInv, Numbered, ReloadCommit
    PROVE  Conns!Switch
<1>1. mainPc # "stopped" /\ UNCHANGED <<mainPc, attemptDB, oldPool>>
      /\ toClose = {} /\ dialed' = NothingDialed
  BY DEF IInv, TypeOK, AppTypeOK, Locks, Locals, ReloadCommit, checkerVars,
         threadVars
<1>2. UNCHANGED <<open, Opened, Users>>
  <2>1. UNCHANGED <<open, serial>>
    BY DEF ReloadCommit, ApplyConfig
  <2>2. UNCHANGED goroutines
    BY DEF ReloadCommit, ReconcileBegin, wmVars
  <2> QED
    BY <2>1, <2>2 DEF Opened, Users
<1>3. Fresh' = {attemptDB} \ {NoHandle}
  BY <1>1 DEF Fresh, NothingDialed
<1>4. Retired' = (toClose' \cup {oldPool}) \ {NoHandle}
      /\ Retired = {oldPool} \ {NoHandle}
  BY <1>1 DEF Retired
<1>5. \A h \in toClose' : h \in Current
  BY <1>1, CommitRetires DEF Current, PoolHandles
<1>6. Current' = (Current \ Retired') \cup (Fresh \ Fresh')
  <2>1. ASSUME NEW h \in Current' PROVE h \in (Current \ Retired') \cup (Fresh \ Fresh')
    <3>1. PICK d \in DB : pools'[d] # NoPool /\ h = pools'[d].db
      BY <1>1, <2>1 DEF Current, PoolHandles
    <3>2. CASE dialed[d] # NoHandle /\ h = dialed[d]
      BY <1>3, <3>2 DEF Fresh, IInv, Placed
    <3>3. CASE dialed[d] = NoHandle /\ newCfg.dbs[d] # NoConfig
               /\ pools[d] # NoPool /\ h = pools[d].db
      <4>1. h \in Current
        BY <1>1, <3>3 DEF Current, PoolHandles
      <4>2. h \notin toClose'
        <5> SUFFICES ASSUME h \in toClose' PROVE FALSE
          OBVIOUS
        <5>1. PICK e \in DB : /\ pools[e] # NoPool /\ h = pools[e].db
                              /\ newCfg.dbs[e] = NoConfig \/ dialed[e] # NoHandle
          BY CommitRetires
        <5>2. h[1] = e /\ h[1] = d
          BY <3>3, <5>1 DEF IInv, Placed
        <5> QED
          BY <3>3, <5>1, <5>2
      <4>3. h # oldPool
        BY <3>3 DEF IInv, Placed
      <4> QED
        BY <1>4, <4>1, <4>2, <4>3
    <3> QED
      BY <3>1, <3>2, <3>3, CommitOneDatabase
  <2>2. ASSUME NEW h \in Current, h \notin Retired' PROVE h \in Current'
    <3>1. PICK d \in DB : pools[d] # NoPool /\ h = pools[d].db
      BY <1>1, <2>2 DEF Current, PoolHandles
    <3>2. h \in Handle
      BY <3>1 DEF IInv, Placed, Issued
    <3>3. h \notin toClose'
      BY <1>4, <2>2, <3>2, SentinelsAreNotValues
    <3>4. pools'[d] # NoPool /\ pools'[d].db = h
      BY <3>1, <3>3, CommitOneDatabase
    <3> QED
      BY <1>1, <3>4 DEF Current, PoolHandles
  <2>3. ASSUME NEW h \in Fresh, h \notin Fresh' PROVE h \in Current'
    <3>1. PICK d \in DB : h = dialed[d] /\ dialed[d] # NoHandle
      BY <1>3, <2>3 DEF Fresh
    <3>2. pools'[d] # NoPool /\ pools'[d].db = h
      BY <3>1, CommitOneDatabase
    <3> QED
      BY <1>1, <3>2 DEF Current, PoolHandles
  <2> QED
    BY <2>1, <2>2, <2>3
<1>7. Fresh' \subseteq Fresh
  BY <1>3 DEF Fresh
<1>8. Retired \subseteq Retired' /\ Retired' \ Retired \subseteq Current
  BY <1>4, <1>5
<1> QED
  BY <1>2, <1>6, <1>7, <1>8 DEF Conns!Switch

\* commitReconnect switches one database; the pool it replaces, if there is
\* one, is retired.
LEMMA ReconnectCommitSwitches ==
    ASSUME IInv, Numbered, ReconnectCommit
    PROVE  Conns!Switch
<1> DEFINE old == IF pools[attempt] = NoPool THEN NoHandle
                                             ELSE pools[attempt].db
<1>1. mainPc # "stopped" /\ UNCHANGED <<mainPc, dialed, toClose>>
      /\ attempt \in DB /\ attemptDB \in Handle /\ attemptDB' = NoHandle
      /\ oldPool = NoHandle /\ oldPool' = old
  BY DEF IInv, Locks, Locals, ReconnectCommit, ReconnectNext, reloadVars,
         threadVars
<1>2. UNCHANGED <<open, Opened, Users>>
  <2>1. UNCHANGED <<open, serial>>
    BY DEF ReconnectCommit, CommitReconnect
  <2>2. UNCHANGED goroutines
    BY DEF ReconnectCommit, ReconcileBegin, wmVars
  <2> QED
    BY <2>1, <2>2 DEF Opened, Users
<1>3. Fresh = Fresh' \cup {attemptDB} /\ attemptDB \notin Fresh'
  <2>1. \A d \in DB : dialed[d] # attemptDB
    BY <1>1, SentinelsAreNotValues DEF IInv, Placed
  <2> QED
    BY <1>1, <2>1, SentinelsAreNotValues DEF Fresh
<1>4. Retired' = Retired \cup ({old} \ {NoHandle})
  BY <1>1 DEF Retired
<1>5. /\ \A d \in DB \ {attempt} : pools'[d] = pools[d]
      /\ pools'[attempt] # NoPool /\ pools'[attempt].db = attemptDB
  <2>1. failedPools[attempt] \in DBConfig /\ pmRevision \in Nat
    BY <1>1 DEF ReconnectCommit, IsFresh, CanCommit, IInv, TypeOK, PMTypeOK
  <2>2. failedPools[attempt] = snapFailed[attempt]
    BY DEF ReconnectCommit, IsFresh, CanCommit
  <2>3. pools' = [pools EXCEPT ![attempt] =
                     [cfg |-> snapFailed[attempt], db |-> attemptDB,
                      made |-> pmRevision]]
    BY DEF ReconnectCommit, CommitReconnect
  <2>4. [cfg |-> snapFailed[attempt], db |-> attemptDB, made |-> pmRevision]
            \in Pool
    BY <1>1, <2>1, <2>2
  <2> QED
    BY <1>1, <2>3, <2>4, SentinelsAreNotValues DEF IInv, TypeOK, PMTypeOK
<1>6. Current' = (Current \ Retired') \cup (Fresh \ Fresh')
  <2>1. ASSUME NEW h \in Current' PROVE h \in (Current \ Retired') \cup (Fresh \ Fresh')
    <3>1. PICK d \in DB : pools'[d] # NoPool /\ h = pools'[d].db
      BY <1>1, <2>1 DEF Current, PoolHandles
    <3>2. CASE d = attempt
      BY <1>3, <1>5, <3>1, <3>2
    <3>3. CASE d # attempt
      <4>1. pools[d] # NoPool /\ h = pools[d].db
        BY <1>5, <3>1, <3>3
      <4>2. h \in Current /\ h \notin Retired
        BY <1>1, <4>1, Places DEF Current, PoolHandles
      <4>3. h # old
        <5>1. pools[attempt] # NoPool => pools[attempt].db[1] = attempt
          BY <1>1 DEF IInv, Placed
        <5>2. h[1] = d /\ h \in Handle
          BY <4>1 DEF IInv, Placed, Issued
        <5> QED
          BY <3>3, <5>1, <5>2, SentinelsAreNotValues
      <4> QED
        BY <1>4, <4>2, <4>3
    <3> QED
      BY <3>2, <3>3
  <2>2. ASSUME NEW h \in Current, h \notin Retired' PROVE h \in Current'
    <3>1. PICK d \in DB : pools[d] # NoPool /\ h = pools[d].db
      BY <1>1, <2>2 DEF Current, PoolHandles
    <3>2. h \in Handle
      BY <3>1 DEF IInv, Placed, Issued
    <3>3. d # attempt
      BY <1>4, <2>2, <3>1, <3>2, SentinelsAreNotValues
    <3> QED
      BY <1>1, <1>5, <3>1, <3>3 DEF Current, PoolHandles
  <2>3. ASSUME NEW h \in Fresh, h \notin Fresh' PROVE h \in Current'
    BY <1>1, <1>3, <1>5, <2>3 DEF Current, PoolHandles
  <2> QED
    BY <2>1, <2>2, <2>3
<1>7. Retired' \ Retired \subseteq Current
  BY <1>1, <1>4 DEF Current, PoolHandles
<1> QED
  BY <1>2, <1>3, <1>4, <1>6, <1>7 DEF Conns!Switch

\* The three places that call closePools on their own account close what was
\* retired or was never current, and no worker holds it any more: Owned says
\* that every goroutine is on a current pool once reconcile is through.
LEMMA ClosingIsClose ==
    ASSUME IInv, Numbered, NEW H \in SUBSET (Fresh \cup Retired),
           \A u \in Users : u[2] \notin H,
           open' = open \ H, Opened' = Opened,
           Fresh' = Fresh \ H, Retired' = Retired \ H,
           UNCHANGED <<Current, Users>>
    PROVE  Conns!Close
<1>1. H \subseteq open /\ open \subseteq Opened
  BY Places
<1>2. Opened' \ open' = (Opened \ open) \cup H
  BY <1>1
<1>3. (Opened \ open) \cap (Fresh \cup Retired) = {}
  BY Places
<1>4. Fresh' = Fresh \ ((Opened \ open) \cup H)
      /\ Retired' = Retired \ ((Opened \ open) \cup H)
  BY <1>3
<1>5. ((Opened \ open) \cup H) \ (Opened \ open) = H
  BY <1>1
<1> QED
  BY <1>2, <1>4, <1>5 DEF Conns!Close, Conns!Unused

\* Outside of reconcile every worker is on a current pool.
LEMMA UsersOnCurrent ==
    ASSUME IInv, Numbered, Retiring \subseteq {NoHandle}
    PROVE  \A u \in Users : u[2] \in Current
<1> SUFFICES ASSUME NEW g \in goroutines
             PROVE  g.worker.pool.db \in Current
  BY DEF Users
<1>1. g.worker.pool.db \in Handle
  BY DEF IInv, TypeOK, WMTypeOK
<1>2. g.worker.pool.db \in PoolHandles /\ mainPc # "stopped"
  BY <1>1, SentinelsAreNotValues DEF IInv, Owned
<1> QED
  BY <1>2 DEF Current

LEMMA ReloadCloseCloses ==
    ASSUME IInv, Numbered, ReloadClose
    PROVE  Conns!Close
<1> USE DEF reloadVars, checkerVars, sharedVars, wmVars
<1>1. /\ open' = open \ toClose /\ toClose' = {}
      /\ UNCHANGED <<pools, serial, goroutines, dialed, attemptDB, oldPool>>
      /\ mainPc # "stopped" /\ mainPc' # "stopped"
  BY DEF ReloadClose, ClosePools, ReturnTo, IInv, TypeOK, AppTypeOK, Locks
<1>2. toClose \subseteq Retired
  BY SentinelsAreNotValues DEF Retired, IInv, TypeOK, AppTypeOK
<1>3. Fresh' = Fresh /\ Fresh \cap toClose = {}
  BY <1>1, <1>2, Places DEF Fresh
<1>4. Retired' = Retired \ toClose
  BY <1>1 DEF Retired, IInv, Placed
<1>5. UNCHANGED <<Opened, Current, Users>>
  BY <1>1 DEF Opened, Current, PoolHandles, Users
<1>6. ASSUME NEW u \in Users PROVE u[2] \notin toClose
  <2>1. PICK g \in goroutines : u = <<g.name, g.worker.pool.db>>
    BY <1>6 DEF Users
  <2>2. g.worker.pool.db \in PoolHandles \cup {oldPool}
    BY DEF IInv, Owned, Retiring, ReloadClose
  <2>3. \A h \in toClose : h \notin PoolHandles /\ h # oldPool
    BY DEF PoolHandles, IInv, Placed
  <2> QED
    BY <2>1, <2>2, <2>3
<1> QED
  BY <1>1, <1>2, <1>3, <1>4, <1>5, <1>6, ClosingIsClose

\* A stale result was never current.
LEMMA ReconnectDiscardCloses ==
    ASSUME IInv, Numbered, ReconnectDiscard
    PROVE  Conns!Close
<1> USE DEF reloadVars, checkerVars, threadVars, sharedVars, wmVars
<1>1. /\ open' = open \ {attemptDB} /\ attemptDB' = NoHandle
      /\ UNCHANGED <<pools, serial, goroutines, dialed, toClose, oldPool, mainPc>>
      /\ attemptDB \in Handle
  BY DEF ReconnectDiscard, ClosePools, ReconnectNext, IInv, Locals
<1>2. attemptDB \in Fresh
  BY <1>1, SentinelsAreNotValues DEF Fresh
<1>3. Retired' = Retired /\ attemptDB \notin Retired
  BY <1>1, <1>2, Places DEF Retired
<1>4. Fresh' = Fresh \ {attemptDB}
  <2>1. \A d \in DB : dialed[d] # attemptDB
    BY <1>1, SentinelsAreNotValues DEF IInv, Placed
  <2> QED
    BY <1>1, <2>1 DEF Fresh
<1>5. UNCHANGED <<Opened, Current, Users>>
  BY <1>1 DEF Opened, Current, PoolHandles, Users
<1>6. \A u \in Users : u[2] \notin {attemptDB}
  BY <1>2, Places
<1> QED
  BY <1>1, <1>2, <1>3, <1>4, <1>5, <1>6, ClosingIsClose

LEMMA ReconnectCloseCloses ==
    ASSUME IInv, Numbered, ReconnectClose
    PROVE  Conns!Close
<1> USE DEF reloadVars, checkerVars, threadVars, sharedVars, wmVars
<1> DEFINE H == {oldPool} \ {NoHandle}
<1>1. /\ open' = open \ {oldPool} /\ oldPool' = NoHandle
      /\ UNCHANGED <<pools, serial, goroutines, dialed, toClose, attemptDB, mainPc>>
      /\ NoHandle \notin open
  BY SentinelsAreNotValues DEF ReconnectClose, ClosePools, IInv, TypeOK, PMTypeOK
<1>2. H \in SUBSET Retired /\ open' = open \ H
  BY <1>1 DEF Retired
<1>3. Fresh' = Fresh \ H
  BY <1>1, <1>2, Places DEF Fresh
<1>4. Retired' = Retired \ H
  <2>1. oldPool \notin toClose
    BY DEF IInv, Placed
  <2> QED
    BY <1>1, <2>1 DEF Retired
<1>5. UNCHANGED <<Opened, Current, Users>>
  BY <1>1 DEF Opened, Current, PoolHandles, Users
<1>6. ASSUME NEW u \in Users PROVE u[2] \notin H
  <2>1. PICK g \in goroutines : u = <<g.name, g.worker.pool.db>>
    BY <1>6 DEF Users
  <2>2. g.worker.pool.db \in PoolHandles \cup toClose
    BY DEF IInv, Owned, Retiring, ReconnectClose
  <2>3. \A h \in PoolHandles \cup toClose : h \notin H
    BY DEF PoolHandles, IInv, Placed
  <2> QED
    BY <2>1, <2>2, <2>3
<1> QED
  BY <1>2, <1>3, <1>4, <1>5, <1>6, ClosingIsClose

-----------------------------------------------------------------------------
(* The steps of reconcile, of the workers and of the shutdown              *)

\* reconcile starts a goroutine only for a query that has none.
LEMMA SpawningIsStartUse ==
    ASSUME NEW n \in Query, NEW w, w.pool.db \in PoolHandles,
           mainPc # "stopped", Joined(n),
           goroutines' = goroutines \cup {Spawned(n, w)}, UNCHANGED Handles
    PROVE  \E h \in Current : Conns!StartUse(n, h)
<1>1. w.pool.db \in Current
  BY DEF Current
<1>2. \A u \in Users : u[1] # n
  BY DEF Users, Joined
<1>3. Spawned(n, w).name = n /\ Spawned(n, w).worker = w
  BY DEF Spawned
<1>4. Users' = Users \cup {<<n, w.pool.db>>}
  BY <1>3 DEF Users
<1> QED
  BY <1>1, <1>2, <1>4 DEF Conns!StartUse, Handles

\* Cancelling a goroutine, or letting it go from idle to running and back,
\* leaves it the worker that it has.
LEMMA SameHolders ==
    ASSUME \A g \in goroutines : \E h \in goroutines' :
               h.name = g.name /\ h.worker = g.worker,
           \A h \in goroutines' : \E g \in goroutines :
               h.name = g.name /\ h.worker = g.worker
    PROVE  UNCHANGED Users
<1>1. ASSUME NEW u \in Users PROVE u \in Users'
  BY <1>1 DEF Users
<1>2. ASSUME NEW u \in Users' PROVE u \in Users
  BY <1>2 DEF Users
<1> QED
  BY <1>1, <1>2

LEMMA ReconcileRefines ==
    ASSUME IInv, Numbered, ReconcileStep
    PROVE  Conns!Next \/ UNCHANGED Conns!connVars
<1> USE DEF reloadVars, checkerVars, threadVars, sharedVars, appVars, pmVars,
            wmVars
<1>1. UNCHANGED <<appVars, pmVars>> /\ Reconciling
  BY DEF ReconcileStep, Reconcile
<1>2. UNCHANGED Handles
  BY <1>1, HandlesStay
<1>3. mainPc # "stopped"
  BY <1>1 DEF Reconciling, IInv, Locks, TypeOK, AppTypeOK
<1>4. UNCHANGED Users => UNCHANGED Conns!connVars
  BY <1>2 DEF Handles, Conns!connVars
<1>5. ASSUME NEW n \in Query, goroutines' = Cancelled(n)
      PROVE  UNCHANGED Users
  <2>1. \A g \in goroutines : LET h == [g EXCEPT !.cancelled = TRUE]
                              IN  h.name = g.name /\ h.worker = g.worker
    BY DEF IInv, TypeOK, WMTypeOK
  <2>2. \A g \in goroutines : \E h \in goroutines' :
            h.name = g.name /\ h.worker = g.worker
    BY <1>5, <2>1 DEF Cancelled
  <2>3. \A h \in goroutines' : \E g \in goroutines :
            h.name = g.name /\ h.worker = g.worker
    BY <1>5, <2>1 DEF Cancelled
  <2> QED
    BY <2>2, <2>3, SameHolders
<1>6. ASSUME NEW n \in Query, ReconcileStart(n, Snap)
      PROVE  Conns!Next
  <2>1. n \in recTodo /\ ~Skips(n, Snap) /\ ~Stops(n, Snap) /\ ~Running(n)
        /\ goroutines' = goroutines \cup {Spawned(n, Target(n, Snap))}
    BY <1>6 DEF ReconcileStart, Starts
  <2>2. Target(n, Snap).pool.db \in PoolHandles
    BY <2>1, TargetIsOnCurrentPool
  <2>3. Joined(n)
    <3> SUFFICES ASSUME NEW g \in goroutines, g.name = n PROVE FALSE
      BY DEF Joined
    <3>1. n # recWait
      BY <2>1 DEF IInv, Locals
    <3>2. workers[n] = g.worker /\ g.worker \in Worker
      BY <3>1 DEF IInv, Owned, TypeOK, WMTypeOK
    <3> QED
      BY <2>1, <3>2, SentinelsAreNotValues DEF Running
  <2> QED
    BY <1>2, <1>3, <2>1, <2>2, <2>3, SpawningIsStartUse DEF Conns!Next
<1>7. ASSUME ReconcileJoin
      PROVE  Conns!Next \/ UNCHANGED Users
  <2>1. CASE recThen = NoWorker
    BY <1>7, <2>1, UsersStay DEF ReconcileJoin
  <2>2. CASE recThen # NoWorker
    <3>1. recWait \in Query /\ Joined(recWait)
          /\ goroutines' = goroutines \cup {Spawned(recWait, recThen)}
      BY <1>7, <2>2 DEF ReconcileJoin, IInv, TypeOK, WMTypeOK
    <3>2. recThen.pool.db \in PoolHandles
      <4>1. recThen \in Worker /\ pools[recThen.cfg.db] = recThen.pool
        BY <2>2 DEF IInv, TypeOK, WMTypeOK, Owned, OnCurrentPool
      <4> QED
        BY <4>1, SentinelsAreNotValues DEF PoolHandles
    <3> QED
      BY <1>2, <1>3, <3>1, <3>2, SpawningIsStartUse DEF Conns!Next
  <2> QED
    BY <2>1, <2>2
<1>8. ASSUME NEW n \in Query,
             \/ ReconcileLeave(n, Snap) \/ ReconcileRestart(n, Snap)
             \/ ReconcileStop(n, Snap) \/ ReconcileRemove(n)
      PROVE  UNCHANGED Users
  BY <1>5, <1>8, UsersStay
     DEF ReconcileLeave, ReconcileRestart, ReconcileStop, ReconcileRemove,
         StopWorker
<1> QED
  BY <1>4, <1>6, <1>7, <1>8 DEF ReconcileStep, Reconcile
LEMMA WorkerRefines ==
    ASSUME IInv, Numbered, WorkerStep
    PROVE  Conns!Next \/ UNCHANGED Conns!connVars
<1> USE DEF reloadVars, checkerVars, threadVars, sharedVars, appVars, pmVars
<1>1. PICK g \in goroutines : Tick(g) \/ Finish(g) \/ Exit(g)
  BY DEF WorkerStep
<1>2. UNCHANGED Handles
  BY <1>1, HandlesStay DEF Tick, Finish, Exit
<1>3. g \in Goroutine
  BY DEF IInv, TypeOK, WMTypeOK
<1>4. CASE Tick(g) \/ Finish(g)
  <2>1. PICK phase : goroutines' = (goroutines \ {g}) \cup {[g EXCEPT !.phase = phase]}
    BY <1>4 DEF Tick, Finish, WorkerTick, WorkerFinish
  <2>2. LET h == [g EXCEPT !.phase = phase]
        IN  h.name = g.name /\ h.worker = g.worker
    BY <1>3
  <2>3. UNCHANGED Users
    BY <2>1, <2>2, SameHolders
  <2> QED
    BY <1>2, <2>3 DEF Handles, Conns!connVars
<1>5. CASE Exit(g)
  <2> DEFINE u == <<g.name, g.worker.pool.db>>
  <2>1. goroutines' = goroutines \ {g}
    BY <1>5 DEF Exit, WorkerExit
  <2>2. u \in Users
    BY DEF Users
  <2>3. \A h \in goroutines \ {g} : <<h.name, h.worker.pool.db>> # u
    BY DEF IInv, Owned, OneGoroutinePerQuery
  <2>4. Users' = Users \ {u}
    BY <2>1, <2>3 DEF Users
  <2> QED
    BY <1>2, <2>2, <2>4 DEF Handles, Conns!Next, Conns!EndUse
<1> QED
  BY <1>1, <1>4, <1>5

\* The cancellation of the process and stopAll only cancel.
LEMMA AllCancelledRefines ==
    ASSUME IInv, goroutines' = AllCancelled, UNCHANGED Handles
    PROVE  UNCHANGED Conns!connVars
<1>1. \A g \in goroutines : LET h == [g EXCEPT !.cancelled = TRUE]
                            IN  h.name = g.name /\ h.worker = g.worker
  BY DEF IInv, TypeOK, WMTypeOK
<1>2. \A g \in goroutines : \E h \in goroutines' :
          h.name = g.name /\ h.worker = g.worker
  BY <1>1 DEF AllCancelled
<1>3. \A h \in goroutines' : \E g \in goroutines :
          h.name = g.name /\ h.worker = g.worker
  BY <1>1 DEF AllCancelled
<1> QED
  BY <1>2, <1>3, SameHolders DEF Handles, Conns!connVars

\* closeAll closes the current handles after the last worker has gone.
LEMMA CloseAllRefines ==
    ASSUME IInv, Numbered, CloseAll
    PROVE  Conns!CloseCurrent
<1> USE DEF reloadVars, checkerVars, sharedVars, wmVars
<1>1. /\ open' = open \ PoolHandles /\ mainPc = "joining" /\ mainPc' = "stopped"
      /\ UNCHANGED <<pools, serial, goroutines, dialed, attemptDB, toClose, oldPool>>
  BY DEF CloseAll, ClosePools
<1>2. goroutines = {}
  <2> SUFFICES ASSUME NEW g \in goroutines PROVE FALSE
    OBVIOUS
  <2>1. recWait = NoQuery
    BY <1>1 DEF IInv, Locks, Locals, Reconciling, TypeOK, AppTypeOK
  <2>2. g \in Goroutine /\ workers[g.name] = g.worker
    BY <2>1, SentinelsAreNotValues DEF IInv, Owned, TypeOK, WMTypeOK
  <2>3. Running(g.name)
    BY <2>2, SentinelsAreNotValues DEF Running
  <2> QED
    BY <2>2, <2>3 DEF CloseAll, Joined
<1>3. Users = {} /\ UNCHANGED Users
  BY <1>1, <1>2 DEF Users
<1>4. Current = PoolHandles /\ Current' = {}
  BY <1>1 DEF Current
<1>5. UNCHANGED <<Fresh, Retired, Opened>>
  BY <1>1 DEF Fresh, Retired, Opened
<1>6. Opened' \ open' = (Opened \ open) \cup Current
  BY <1>1, <1>4, <1>5, Places
<1> QED
  BY <1>3, <1>4, <1>5, <1>6 DEF Conns!CloseCurrent

-----------------------------------------------------------------------------
(* The refinement                                                          *)

LEMMA InitRefines == Init => Conns!Init
<1> SUFFICES ASSUME Init PROVE Conns!Init
  OBVIOUS
<1> USE DEF Init, PMInit, WMInit
<1>1. Fresh = {}
  BY DEF Fresh, NothingDialed
<1>2. Current = {} /\ Retired = {} /\ Users = {}
  BY DEF Current, PoolHandles, Retired, Users
<1>3. Opened = {}
  BY DEF Opened
<1> QED
  BY <1>1, <1>2, <1>3 DEF Conns!Init

\* The steps that move no handle and start or end no worker.
LEMMA OthersStutter ==
    ASSUME IInv,
           \/ ReloadStart \/ ReloadUnlock
           \/ ReconnectTick \/ \E d \in DB : ReconnectDialFail(d)
           \/ ReconnectUnlock \/ ReconnectDone \/ ReconnectExit
           \/ WatcherTrigger \/ WatcherExit \/ Terminated \/ UNCHANGED vars
    PROVE  UNCHANGED Conns!connVars
<1> USE DEF reloadVars, checkerVars, threadVars, sharedVars, appVars, pmVars,
            wmVars
<1>1. UNCHANGED <<dialed, attemptDB, toClose, oldPool, pools, serial, open,
                  goroutines>>
  BY DEF ReloadStart, ReloadReject, ReloadLoad, ReloadUnlock, ReconnectTick,
         ReconnectDialFail, ReconnectUnlock, ReconnectDone, ReconnectExit,
         WatcherTrigger, WatcherExit, Terminated, vars
<1>2. mainPc' = "stopped" <=> mainPc = "stopped"
  BY DEF ReloadStart, ReloadReject, ReloadLoad, Calling, ReturnTo, ReloadUnlock,
         ReconnectTick, ReconnectDialFail, ReconnectUnlock, ReconnectDone,
         ReconnectExit, WatcherTrigger, WatcherExit, Terminated, vars
<1> QED
  BY <1>1, <1>2, HandlesStay, UsersStay DEF Handles, Conns!connVars

LEMMA NextRefines ==
    IInv /\ Numbered /\ [Next]_vars => [Conns!Next]_(Conns!connVars)
<1> SUFFICES ASSUME IInv, Numbered, [Next]_vars
             PROVE  Conns!Next \/ UNCHANGED Conns!connVars
  OBVIOUS
<1>1. CASE ReloadStep
  BY <1>1, ReloadDialOpens, ReloadCommitSwitches, ReloadCloseCloses,
     OthersStutter DEF ReloadStep, Conns!Next
<1>2. CASE ReconnectStep
  BY <1>2, ReconnectDialOpens, ReconnectDiscardCloses, ReconnectCommitSwitches,
     ReconnectCloseCloses, OthersStutter
     DEF ReconnectStep, ReconnectDial, ReconnectLock, Conns!Next
<1>3. CASE ReconcileStep
  BY <1>3, ReconcileRefines
<1>4. CASE WorkerStep
  BY <1>4, WorkerRefines
<1>5. CASE Shutdown
  <2>1. UNCHANGED Handles
    BY <1>5, HandlesStay
       DEF Shutdown, appVars, reloadVars, checkerVars, threadVars, pmVars
  <2> QED
    BY <1>5, <2>1, AllCancelledRefines DEF Shutdown, CancelContext
<1>6. CASE StopAll
  <2>1. UNCHANGED Handles
    BY <1>6, HandlesStay DEF StopAll, reloadVars, checkerVars, pmVars
  <2> QED
    BY <1>6, <2>1, AllCancelledRefines DEF StopAll
<1>7. CASE CloseAll
  BY <1>7, CloseAllRefines DEF Conns!Next
<1>8. CASE \/ ReloadStart \/ WatcherTrigger \/ WatcherExit \/ Terminated
           \/ UNCHANGED vars
  BY <1>8, OthersStutter
<1> QED
  BY <1>1, <1>2, <1>3, <1>4, <1>5, <1>6, <1>7, <1>8 DEF Next, MainStep

(***************************************************************************)
(* poolManager and its callers implement Connections: a *sql.DB is opened, *)
(* becomes current, is retired and is closed, in that order and once;      *)
(* workers start on current ones only, and closePools is never called on   *)
(* one that a worker still holds (pool_manager.go, closePools; app.go).    *)
(***************************************************************************)
THEOREM ConnectionsRefined == Spec => ConnectionsSpec
<1>1. Init => Conns!Init
  BY InitRefines
<1>2. IInv /\ Numbered /\ [Next]_vars => [Conns!Next]_(Conns!connVars)
  BY NextRefines
<1>3. Spec => [](IInv /\ Numbered)
  BY NumberedHolds
<1> QED
  BY <1>1, <1>2, <1>3, PTL DEF Spec, ConnectionsSpec, Conns!Spec
=============================================================================
