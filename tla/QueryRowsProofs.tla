--------------------------- MODULE QueryRowsProofs ---------------------------
(***************************************************************************)
(* What is shown of the queries, for any number of queries, metrics,       *)
(* databases, configurations and reloads: every value has a worker that    *)
(* will take it away, a GaugeVec lives as long as the workers of its       *)
(* metric, and so do the health gauges.                                    *)
(***************************************************************************)
EXTENDS QueryRowsInvariants, TLAPS

USE DEF managerVars, registryVars, rowVars, pmVars, wmVars

-----------------------------------------------------------------------------
(* The worker that answers for a query                                     *)

\* Only reconcile changes who answers for a query.
LEMMA SameHolders ==
    ASSUME UNCHANGED <<workers, recWait, recGone>>, NEW x
    PROVE  /\ InCharge(x)' <=> InCharge(x)
           /\ Holder(x)' = Holder(x)
BY DEF InCharge, Holder, Running

LEMMA HolderIsWorker ==
    ASSUME RowsTypeOK, NEW n \in Query, InCharge(n)
    PROVE  Holder(n) \in Worker
BY DEF RowsTypeOK, WMTypeOK, InCharge, Holder, Running

\* A run is of the worker that answers for its query.
LEMMA RunnerIsHolder ==
    ASSUME Threads, NEW n \in Query, \E g \in goroutines : g.name = n
    PROVE  InCharge(n) /\ WorkerOf(n) = Holder(n)
<1>1. PICK g \in goroutines : g.name = n
  OBVIOUS
<1>2. \A h \in goroutines : h.name = n => h = g
  BY <1>1 DEF Threads
<1>3. (CHOOSE h \in goroutines : h.name = n) = g
  BY <1>1, <1>2
<1> QED
  BY <1>1, <1>3 DEF Threads, WorkerOf

LEMMA InRunHasHolder ==
    ASSUME Threads, NEW n \in Query, run[n].pc # "none"
    PROVE  InCharge(n) /\ WorkerOf(n) = Holder(n)
BY RunnerIsHolder DEF Threads

\* What a worker may show are series with its identity.
LEMMA SeriesHasIdentity ==
    ASSUME NEW w \in Worker, NEW cols \in SUBSET LabelName,
           NEW row \in RowKey \cup {NoRow}
    PROVE  SeriesOf(w, cols, row) \in Series /\ HasIdentity(SeriesOf(w, cols, row), w)
BY RowsAssumption
   DEF SeriesOf, Series, HasIdentity, Worker, Pool, DBConfig, RunnableQuery

LEMMA SingleHasIdentity ==
    ASSUME NEW w \in Worker
    PROVE  /\ SingleSeries(w) \in Series /\ HasIdentity(SingleSeries(w), w)
           /\ SingleSeries(w).row = NoRow
<1>1. SingleSeries(w).row = NoRow
  BY DEF SingleSeries, SeriesOf
<1> QED
  BY <1>1, SeriesHasIdentity DEF SingleSeries

\* What the database may answer has the identity of the worker that asked.
LEMMA AnswersAreOwn ==
    ASSUME NEW w \in Worker, NEW answer \in Answers(w)
    PROVE  /\ answer \in Run
           /\ answer.pc = "register"
           /\ \A s \in answer.batch : HasIdentity(s, w)
           /\ ~IsMultiRow(w) => answer.batch = {SingleSeries(w)}
<1>1. StaticNames[w.cfg.schema] \in SUBSET LabelName
  BY RowsAssumption DEF Worker, RunnableQuery
<1>2. CASE IsMultiRow(w)
  <2>1. PICK cols \in ColsOf[w.cfg.sql], R \in SUBSET RowKey :
            answer = [pc |-> "register",
                      names |-> StaticNames[w.cfg.schema] \cup cols,
                      batch |-> {SeriesOf(w, cols, r) : r \in R}]
    BY <1>2 DEF Answers
  <2>2. cols \in SUBSET LabelName
    BY <2>1, RowsAssumption DEF Worker, RunnableQuery
  <2>3. \A r \in R : SeriesOf(w, cols, r) \in Series
                     /\ HasIdentity(SeriesOf(w, cols, r), w)
    BY <2>2, SeriesHasIdentity
  <2> QED
    BY <1>1, <1>2, <2>1, <2>2, <2>3 DEF Run
<1>3. CASE ~IsMultiRow(w)
  <2>1. answer = [pc |-> "register", names |-> StaticNames[w.cfg.schema],
                  batch |-> {SingleSeries(w)}]
    BY <1>3 DEF Answers
  <2> QED
    BY <1>1, <1>3, <2>1, SingleHasIdentity DEF Run
<1> QED
  BY <1>2, <1>3

-----------------------------------------------------------------------------
(* What a run leaves alone                                                 *)

Settings == <<pmVars, config, reconciling, recGone, recShared, ctxDone, workers,
              lastQueries, lastQueriesRevision, recTodo, recWait, recThen, stats>>

\* A run of a query concerns its goroutine and no other, and neither manager.
LEMMA RunStepFrame ==
    ASSUME NEW n \in Query, RunStep(n)
    PROVE  /\ UNCHANGED <<Settings, conflict>>
           /\ \/ goroutines' = goroutines
              \/ \E g \in goroutines :
                     /\ g.name = n /\ g.phase = "idle"
                     /\ goroutines' = (goroutines \ {g})
                                         \cup {[g EXCEPT !.phase = "running"]}
              \/ \E g \in goroutines :
                     /\ g.name = n /\ g.phase = "running"
                     /\ goroutines' = (goroutines \ {g})
                                         \cup {[g EXCEPT !.phase = "idle"]}
              \/ \E g \in goroutines :
                     /\ g.name = n /\ g.phase = "idle"
                     /\ goroutines' = goroutines \ {g}
<1> USE DEF Settings
<1>1. CASE BeginRun(n)
  BY <1>1 DEF BeginRun, WorkerTick
<1>2. CASE DatabaseAnswers(n) \/ DatabaseFails(n)
  BY <1>2 DEF DatabaseAnswers, DatabaseFails
<1>3. CASE RegisterVec(n) \/ PublishAll(n) \/ PublishFails(n)
  BY <1>3 DEF RegisterVec, PublishAll, PublishFails
<1>4. CASE Succeed(n) \/ GiveUp(n) \/ Fail(n)
  <2>1. EndRun(n)
    BY <1>4 DEF Succeed, GiveUp, Fail
  <2> QED
    BY <2>1 DEF EndRun, WorkerFinish
<1>5. CASE ExitWorker(n)
  BY <1>5 DEF ExitWorker, WorkerExit
<1> QED
  BY <1>1, <1>2, <1>3, <1>4, <1>5 DEF RunStep

\* Nothing of the runs and rows of others is touched but in a shared GaugeVec.
LEMMA RunStepOthers ==
    ASSUME RowsTypeOK, NEW n \in Query, RunStep(n)
    PROVE  /\ \A x \in Query \ {n} : run'[x] = run[x] /\ prev'[x] = prev[x]
           /\ \A m \in Metric \ {MetricOf[n]} :
                  rows'[m] = rows[m] /\ blank'[m] = blank[m] /\ vec'[m] = vec[m]
<1> USE DEF RowsTypeOK, Becomes, DeleteRows
<1>1. CASE BeginRun(n) \/ ExitWorker(n)
  BY <1>1 DEF BeginRun, ExitWorker
<1>2. CASE DatabaseAnswers(n)
  BY <1>2 DEF DatabaseAnswers
<1>3. CASE DatabaseFails(n)
  BY <1>3 DEF DatabaseFails
<1>4. CASE RegisterVec(n)
  BY <1>4 DEF RegisterVec
<1>5. CASE PublishAll(n)
  BY <1>5 DEF PublishAll
<1>6. CASE PublishFails(n)
  BY <1>6 DEF PublishFails
<1>7. CASE Succeed(n) \/ GiveUp(n) \/ Fail(n)
  BY <1>7 DEF Succeed, GiveUp, Fail, EndRun
<1> QED
  BY <1>1, <1>2, <1>3, <1>4, <1>5, <1>6, <1>7 DEF RunStep

-----------------------------------------------------------------------------
(* Type correctness of the managers                                        *)

ManagersTypeOK ==
    /\ PMTypeOK /\ WMTypeOK
    /\ config \in Config
    /\ reconciling \in BOOLEAN
    /\ recGone \in Worker \cup {NoWorker}
    /\ recShared \in BOOLEAN

\* What reconcile decides to run is a worker.
LEMMA TargetIsWorker ==
    ASSUME ManagersTypeOK, Waiting, NEW n \in recTodo,
           ~Skips(n, Snap), ~Stops(n, Snap)
    PROVE  Target(n, Snap) \in Worker
<1> USE SentinelsAreNotValues DEF ManagersTypeOK, PMTypeOK, WMTypeOK
<1>1. n \in Query /\ lastQueries[n] \in QueryConfig
  BY DEF Waiting
<1>2. config.defaultDB \in DB \cup {NoDB}
  BY DEF Config
<1>3. Wanted(n, Snap) \in RunnableQuery
  BY <1>1, <1>2 DEF Skips, Wanted, Snap, QueryConfig, RunnableQuery
<1>4. Running(n) => workers[n].cfg \in RunnableQuery
  BY <1>1 DEF Running, Worker
<1>5. Effective(n, Snap) \in RunnableQuery
  BY <1>3, <1>4 DEF Effective, SchemaChanged, Candidate
<1>6. TargetPool(n, Snap) \in Pool
  <2>1. TargetPool(n, Snap) = pools[Effective(n, Snap).db]
    BY DEF TargetPool, Snap
  <2>2. Effective(n, Snap).db \in DB
    BY <1>5 DEF RunnableQuery
  <2>3. TargetPool(n, Snap) # NoPool
    BY DEF Stops
  <2> QED
    BY <2>1, <2>2, <2>3
<1> QED
  BY <1>5, <1>6 DEF Target, Worker

LEMMA CancelledAreGoroutines ==
    ASSUME goroutines \subseteq Goroutine, NEW n \in Query
    PROVE  Cancelled(n) \subseteq Goroutine
BY DEF Cancelled, Goroutine

LEMMA SpawnedIsGoroutine ==
    ASSUME ctxDone \in BOOLEAN, NEW n \in Query, NEW w \in Worker
    PROVE  Spawned(n, w) \in Goroutine
BY DEF Spawned, Goroutine

LEMMA CountIsStats ==
    ASSUME WMTypeOK, NEW n \in Query, Count(n, Snap)
    PROVE  stats' \in Stats
<1> DEFINE s == [name |-> n, schema |-> workers[n].cfg.schema]
<1>1. stats'.stopped \subseteq stats.stopped \cup {s}
  BY DEF Count
<1>2. Running(n) => workers[n].cfg.schema \in Schema
  BY DEF WMTypeOK, Running, Worker, RunnableQuery
<1>3. Stops(n, Snap) /\ Running(n) => s \in [name : Query, schema : Schema]
  BY <1>2
<1>4. stats \in Stats
  BY DEF WMTypeOK
<1>5. stats'.stopped \in SUBSET [name : Query, schema : Schema]
  BY <1>3, <1>4 DEF Count, Stats
<1> HIDE DEF s
<1> QED
  BY <1>5 DEF Count, Stats

LEMMA BeginTypes ==
    ASSUME WMTypeOK, NEW rev \in Nat,
           NEW queries \in [Query -> QueryConfig \cup {NoQuery}],
           ReconcileBegin(rev, queries)
    PROVE  WMTypeOK'
<1>1. CASE rev < lastQueriesRevision
  BY <1>1 DEF ReconcileBegin, WMTypeOK
<1>2. CASE ~(rev < lastQueriesRevision)
  <2>1. NoStats \in Stats
    BY DEF NoStats, Stats
  <2>2. /\ lastQueries' = queries /\ lastQueriesRevision' = rev
        /\ recTodo' \subseteq Query /\ stats' = NoStats
        /\ UNCHANGED <<ctxDone, workers, goroutines, recWait, recThen>>
    BY <1>2 DEF ReconcileBegin
  <2> QED
    BY <2>1, <2>2 DEF WMTypeOK
<1> QED
  BY <1>1, <1>2

LEMMA ReloadTypes ==
    ASSUME ManagersTypeOK, Reload
    PROVE  ManagersTypeOK'
<1> USE DEF ManagersTypeOK
<1>1. PICK c \in Configs, ok \in SUBSET DB :
          /\ ApplyConfig(pmRevision + 1, c.dbs,
                         [d \in DB |-> IF d \in ok THEN NextHandle(d) ELSE NoHandle])
          /\ ReconcileBegin(pmRevision + 1, c.queries)
          /\ config' = c
  BY DEF Reload
<1>2. c \in Config
  BY RowsAssumption
<1> DEFINE dialed == [d \in DB |-> IF d \in ok THEN NextHandle(d) ELSE NoHandle]
<1>3. dialed \in [DB -> Handle \cup {NoHandle}] /\ pmRevision + 1 \in Nat
  BY DEF NextHandle, PMTypeOK, Handle
<1>4. c.dbs \in [DB -> DBConfig \cup {NoConfig}]
      /\ c.queries \in [Query -> QueryConfig \cup {NoQuery}]
  BY <1>2 DEF Config
<1> HIDE DEF dialed
<1>5. PMTypeOK'
  <2>1. NewPools(pmRevision + 1, c.dbs, dialed) \in [DB -> Pool \cup {NoPool}]
    <3> SUFFICES ASSUME NEW d \in DB
                 PROVE  NewPools(pmRevision + 1, c.dbs, dialed)[d] \in Pool \cup {NoPool}
      BY DEF NewPools
    <3>1. pools[d] \in Pool \cup {NoPool}
      BY DEF PMTypeOK
    <3> QED
      BY <1>3, <1>4, <3>1 DEF NewPools, NeedUpdate, Pool
  <2>2. NewFailed(c.dbs, dialed) \in [DB -> DBConfig \cup {NoConfig}]
    BY <1>4 DEF NewFailed
  <2> QED
    BY <1>1, <1>3, <2>1, <2>2 DEF ApplyConfig, PMTypeOK, dialed
<1>6. WMTypeOK'
  BY <1>1, <1>3, <1>4, BeginTypes
<1> QED
  BY <1>1, <1>2, <1>5, <1>6 DEF Reload

LEMMA ReconnectTypes ==
    ASSUME ManagersTypeOK, NEW d \in DB, Reconnect(d)
    PROVE  ManagersTypeOK'
<1> USE DEF ManagersTypeOK
<1>1. NextHandle(d) \in Handle /\ pmRevision \in Nat
  BY DEF NextHandle, PMTypeOK, Handle
<1>2. failedPools[d] \in DBConfig
  BY DEF Reconnect, CanCommit, PMTypeOK
<1>3. PMTypeOK'
  BY <1>1, <1>2 DEF Reconnect, CommitReconnect, PMTypeOK, Pool
<1>4. WMTypeOK'
  <2>1. config.queries \in [Query -> QueryConfig \cup {NoQuery}]
    BY DEF Config
  <2> QED
    BY <1>1, <2>1, BeginTypes DEF Reconnect
<1> QED
  BY <1>3, <1>4 DEF Reconnect

LEMMA VisitAndPassTypes ==
    ASSUME ManagersTypeOK, Waiting, NEW n \in Query, VisitAndPass(n)
    PROVE  ManagersTypeOK'
<1> USE DEF ManagersTypeOK
<1>1. /\ UNCHANGED <<pmVars, config, reconciling, recGone, recShared>>
      /\ ReconcileLeave(n, Snap) \/ ReconcileStart(n, Snap)
  BY DEF VisitAndPass
<1>2. stats' \in Stats
  BY <1>1, CountIsStats DEF ReconcileLeave, ReconcileStart, WMTypeOK
<1>3. CASE ReconcileLeave(n, Snap)
  BY <1>1, <1>2, <1>3 DEF ReconcileLeave, WMTypeOK, PMTypeOK
<1>4. CASE ReconcileStart(n, Snap)
  <2>1. Target(n, Snap) \in Worker
    BY <1>4, TargetIsWorker DEF ReconcileStart, Starts
  <2>2. Spawned(n, Target(n, Snap)) \in Goroutine
    BY <2>1, SpawnedIsGoroutine DEF WMTypeOK
  <2> QED
    BY <1>1, <1>2, <1>4, <2>1, <2>2 DEF ReconcileStart, WMTypeOK, PMTypeOK
<1> QED
  BY <1>1, <1>3, <1>4

LEMMA VisitAndRestartTypes ==
    ASSUME ManagersTypeOK, Waiting, NEW n \in Query, VisitAndRestart(n)
    PROVE  ManagersTypeOK'
<1> USE DEF ManagersTypeOK
<1>1. /\ UNCHANGED <<pmVars, config, reconciling, recGone, recShared>>
      /\ ReconcileRestart(n, Snap)
  BY DEF VisitAndRestart
<1>2. stats' \in Stats
  BY <1>1, CountIsStats DEF ReconcileRestart, WMTypeOK
<1>3. Target(n, Snap) \in Worker
  BY <1>1, TargetIsWorker DEF ReconcileRestart, Restarts
<1>4. Cancelled(n) \subseteq Goroutine
  BY CancelledAreGoroutines DEF WMTypeOK
<1> QED
  BY <1>1, <1>2, <1>3, <1>4 DEF ReconcileRestart, WMTypeOK, PMTypeOK

LEMMA VisitAndStopTypes ==
    ASSUME ManagersTypeOK, Waiting, NEW n \in Query, VisitAndStop(n)
    PROVE  ManagersTypeOK'
<1> USE DEF ManagersTypeOK
<1>1. /\ UNCHANGED <<pmVars, config, reconciling>>
      /\ StopWorker(n) /\ stats' \in Stats /\ recTodo' \subseteq Query
      /\ recGone' = workers[n] /\ recShared' = SharedByOthers(n)
  BY CountIsStats
     DEF VisitAndStop, ReconcileStop, ReconcileRemove, WMTypeOK
<1>2. Cancelled(n) \subseteq Goroutine
  BY CancelledAreGoroutines DEF WMTypeOK
<1>3. recShared' \in BOOLEAN
  BY <1>1 DEF SharedByOthers
<1>4. recGone' \in Worker \cup {NoWorker}
  BY <1>1 DEF WMTypeOK
<1> QED
  BY <1>1, <1>2, <1>3, <1>4 DEF StopWorker, WMTypeOK, PMTypeOK

LEMMA JoinTypes ==
    ASSUME ManagersTypeOK, Waiting, JoinAndRestart \/ JoinAndStop
    PROVE  ManagersTypeOK'
<1> USE DEF ManagersTypeOK
<1>1. /\ UNCHANGED <<pmVars, config, reconciling>>
      /\ ReconcileJoin
      /\ recGone' \in Worker \cup {NoWorker} /\ recShared' \in BOOLEAN
  <2>1. CASE JoinAndRestart
    BY <2>1 DEF JoinAndRestart
  <2>2. CASE JoinAndStop
    <3>1. recShared' = FALSE
      BY <2>2 DEF JoinAndStop
    <3>2. recShared' \in BOOLEAN
      BY <3>1, Zenon
    <3> QED
      BY <2>2, <3>2 DEF JoinAndStop
  <2> QED
    BY <2>1, <2>2
<1>2. WMTypeOK'
  <2>1. recWait \in Query
    BY <1>1 DEF ReconcileJoin, WMTypeOK
  <2>2. CASE recThen = NoWorker
    BY <1>1, <2>2 DEF ReconcileJoin, WMTypeOK
  <2>3. CASE recThen # NoWorker
    <3>1. recThen \in Worker
      BY <2>3 DEF WMTypeOK
    <3>2. Spawned(recWait, recThen) \in Goroutine
      BY <2>1, <3>1, SpawnedIsGoroutine DEF WMTypeOK
    <3> QED
      BY <1>1, <2>1, <2>3, <3>1, <3>2 DEF ReconcileJoin, WMTypeOK
  <2> QED
    BY <2>2, <2>3
<1> QED
  BY <1>1, <1>2 DEF PMTypeOK

LEMMA EndReconcileTypes ==
    ASSUME ManagersTypeOK, EndReconcile
    PROVE  ManagersTypeOK'
<1>1. reconciling' \in BOOLEAN
  BY Zenon DEF EndReconcile
<1> QED
  BY <1>1 DEF EndReconcile, ManagersTypeOK, PMTypeOK, WMTypeOK

LEMMA RunStepTypes ==
    ASSUME ManagersTypeOK, NEW n \in Query, RunStep(n)
    PROVE  ManagersTypeOK'
<1> USE DEF ManagersTypeOK
<1>1. goroutines' \subseteq Goroutine
  <2>1. \A g \in goroutines, p \in {"idle", "running"} :
            [g EXCEPT !.phase = p] \in Goroutine
    BY DEF WMTypeOK, Goroutine
  <2>2. goroutines \subseteq Goroutine
    BY DEF WMTypeOK
  <2>3. ASSUME NEW g \in goroutines, NEW p \in {"idle", "running"},
               goroutines' = (goroutines \ {g}) \cup {[g EXCEPT !.phase = p]}
        PROVE  goroutines' \subseteq Goroutine
    BY <2>1, <2>2, <2>3
  <2>4. ASSUME NEW g \in goroutines, goroutines' = goroutines \ {g}
        PROVE  goroutines' \subseteq Goroutine
    BY <2>2, <2>4
  <2> HIDE DEF ManagersTypeOK
  <2>5. \/ goroutines' = goroutines
        \/ \E g \in goroutines, p \in {"idle", "running"} :
               goroutines' = (goroutines \ {g}) \cup {[g EXCEPT !.phase = p]}
        \/ \E g \in goroutines : goroutines' = goroutines \ {g}
    <3> "idle" \in {"idle", "running"} /\ "running" \in {"idle", "running"}
      OBVIOUS
    <3> QED
      BY RunStepFrame, Zenon
  <2> QED
    BY <2>2, <2>3, <2>4, <2>5, Zenon
<1>2. UNCHANGED Settings
  BY RunStepFrame
<1> QED
  BY <1>1, <1>2 DEF Settings, WMTypeOK, PMTypeOK

LEMMA ManagersTypes ==
    ASSUME ManagersTypeOK, Waiting, [Next]_rowVars
    PROVE  ManagersTypeOK'
<1>1. CASE UNCHANGED rowVars
  BY <1>1 DEF ManagersTypeOK, PMTypeOK, WMTypeOK
<1> QED
  BY <1>1, ReloadTypes, ReconnectTypes, VisitAndPassTypes,
     VisitAndRestartTypes, VisitAndStopTypes, JoinTypes, EndReconcileTypes,
     RunStepTypes
     DEF Next, ReconcileStep

-----------------------------------------------------------------------------
(* Goroutines and what reconcile waits for                                 *)

\* A run begins with a tick and ends with the return to the select.
LEMMA RunStepPhases ==
    ASSUME RowsTypeOK, NEW n \in Query, RunStep(n)
    PROVE  \/ /\ goroutines' = goroutines
              /\ run[n].pc # "none" /\ run'[n].pc # "none"
           \/ \E g \in goroutines :
                  /\ g.name = n /\ g.phase = "idle" /\ run'[n].pc = "asking"
                  /\ goroutines' = (goroutines \ {g})
                                      \cup {[g EXCEPT !.phase = "running"]}
           \/ \E g \in goroutines :
                  /\ g.name = n /\ g.phase = "running" /\ run'[n].pc = "none"
                  /\ goroutines' = (goroutines \ {g})
                                      \cup {[g EXCEPT !.phase = "idle"]}
           \/ \E g \in goroutines :
                  /\ g.name = n /\ g.phase = "idle" /\ run'[n] = run[n]
                  /\ goroutines' = goroutines \ {g}
<1>0. run \in [Query -> Run] /\ run[n] \in Run
  BY DEF RowsTypeOK
<1> USE DEF InRun, Becomes
<1>1. CASE BeginRun(n)
  <2>1. run'[n].pc = "asking"
    BY <1>0, <1>1 DEF BeginRun, Run
  <2> QED
    BY <1>1, <2>1 DEF BeginRun, WorkerTick
<1>2. CASE DatabaseAnswers(n)
  <2>1. PICK answer \in Answers(WorkerOf(n)) : run' = [run EXCEPT ![n] = answer]
    BY <1>2 DEF DatabaseAnswers
  <2>2. answer.pc = "register"
    BY DEF Answers
  <2> QED
    BY <1>0, <1>2, <2>1, <2>2 DEF DatabaseAnswers
<1>3. CASE DatabaseFails(n)
  BY <1>0, <1>3 DEF DatabaseFails, Run
<1>4. CASE RegisterVec(n)
  BY <1>0, <1>4 DEF RegisterVec, Run
<1>5. CASE PublishAll(n) \/ PublishFails(n)
  BY <1>0, <1>5 DEF PublishAll, PublishFails, Run
<1>6. CASE Succeed(n) \/ GiveUp(n) \/ Fail(n)
  <2>1. EndRun(n)
    BY <1>6 DEF Succeed, GiveUp, Fail
  <2>2. run'[n].pc = "none"
    BY <1>0, <2>1 DEF EndRun, NoRun
  <2> QED
    BY <2>1, <2>2 DEF EndRun, WorkerFinish
<1>7. CASE ExitWorker(n)
  BY <1>7 DEF ExitWorker, WorkerExit
<1> QED
  BY <1>1, <1>2, <1>3, <1>4, <1>5, <1>6, <1>7 DEF RunStep

\* A cancelled goroutine is the one it was.
LEMMA CancelledAlike ==
    ASSUME goroutines \subseteq Goroutine, NEW n \in Query
    PROVE  /\ \A h \in Cancelled(n) : \E g \in goroutines :
                  /\ h.name = g.name /\ h.worker = g.worker /\ h.phase = g.phase
                  /\ h = IF g.name = n THEN [g EXCEPT !.cancelled = TRUE] ELSE g
           /\ \A g \in goroutines : \E h \in Cancelled(n) :
                  /\ h.name = g.name /\ h.worker = g.worker /\ h.phase = g.phase
<1>1. \A g \in goroutines :
          LET h == IF g.name = n THEN [g EXCEPT !.cancelled = TRUE] ELSE g
          IN  h.name = g.name /\ h.worker = g.worker /\ h.phase = g.phase
  BY DEF Goroutine
<1> QED
  BY <1>1 DEF Cancelled

\* Threads depends on who answers for a query and on the goroutines' names.
LEMMA RunStepThreads ==
    ASSUME RowsInv, NEW n \in Query, RunStep(n)
    PROVE  Threads'
<1>1. UNCHANGED <<workers, recWait, recGone>>
  BY RunStepFrame DEF Settings
<1>2. \A x \in Query : /\ InCharge(x)' <=> InCharge(x)
                       /\ Holder(x)' = Holder(x)
  BY <1>1, SameHolders
<1>3. goroutines \subseteq Goroutine
  BY DEF RowsInv, RowsTypeOK, WMTypeOK
<1>4. \A x \in Query \ {n} : run'[x] = run[x]
  BY RunStepOthers DEF RowsInv
<1>5. Threads /\ RowsTypeOK
  BY DEF RowsInv
<1>6. ASSUME goroutines' = goroutines, run[n].pc # "none", run'[n].pc # "none"
      PROVE  Threads'
  BY <1>2, <1>3, <1>4, <1>5, <1>6 DEF Threads, Goroutine
<1>7. ASSUME NEW g \in goroutines, NEW p \in {"idle", "running"}, g.name = n,
             (run'[n].pc # "none") <=> (p = "running"),
             goroutines' = (goroutines \ {g}) \cup {[g EXCEPT !.phase = p]}
      PROVE  Threads'
  <2> DEFINE h == [g EXCEPT !.phase = p]
  <2>1. h.name = n /\ h.worker = g.worker /\ h.phase = p
    BY <1>3, <1>7 DEF Goroutine
  <2>2. \A f \in goroutines : f.name = n => f = g
    BY <1>5, <1>7 DEF Threads
  <2>3. goroutines' = (goroutines \ {g}) \cup {h}
    BY <1>7
  <2> HIDE DEF h
  <2>4. (\A f, e \in goroutines : f.name = e.name => f = e)'
    BY <1>5, <1>7, <2>1, <2>2, <2>3 DEF Threads
  <2>5. (\A f \in goroutines : InCharge(f.name) /\ f.worker = Holder(f.name))'
    BY <1>2, <1>3, <1>5, <1>7, <2>1, <2>3 DEF Threads, Goroutine
  <2>6. ASSUME NEW x \in Query
        PROVE  (run[x].pc # "none")'
                   <=> (\E f \in goroutines : f.name = x /\ f.phase = "running")'
    <3>1. CASE x = n
      BY <1>7, <2>1, <2>2, <2>3, <3>1
    <3>2. CASE x # n
      BY <1>4, <1>5, <1>7, <2>1, <2>3, <3>2 DEF Threads
    <3> QED
      BY <3>1, <3>2
  <2> QED
    BY <2>4, <2>5, <2>6 DEF Threads
<1>8. ASSUME NEW g \in goroutines, g.name = n, g.phase = "idle",
             run'[n] = run[n], goroutines' = goroutines \ {g}
      PROVE  Threads'
  <2>1. \A x \in Query : run'[x] = run[x]
    BY <1>4, <1>8
  <2> QED
    BY <1>2, <1>3, <1>5, <1>8, <2>1 DEF Threads, Goroutine
<1> QED
  <2> "idle" \in {"idle", "running"} /\ "running" \in {"idle", "running"}
    OBVIOUS
  <2> QED
    BY <1>5, <1>6, <1>7, <1>8, RunStepPhases

\* Who answers for which query, step by step.
LEMMA StartHolders ==
    ASSUME RowsInv, NEW n \in Query, ReconcileStart(n, Snap), UNCHANGED recGone
    PROVE  /\ ~InCharge(n) /\ InCharge(n)' /\ Holder(n)' = Target(n, Snap)
           /\ Target(n, Snap) \in Worker
           /\ \A x \in Query \ {n} : /\ InCharge(x)' <=> InCharge(x)
                                     /\ Holder(x)' = Holder(x)
<1> USE DEF RowsInv, RowsTypeOK, WMTypeOK
<1>1. recWait = NoQuery /\ recWait' = NoQuery /\ recGone = NoWorker
      /\ recGone' = NoWorker
  BY DEF ReconcileStart, Waiting
<1>2. Target(n, Snap) \in Worker /\ Target(n, Snap) # NoWorker
  <2>1. Target(n, Snap) \in Worker
    BY TargetIsWorker DEF ReconcileStart, Starts, ManagersTypeOK
  <2> QED
    BY <2>1, SentinelsAreNotValues DEF Worker, RunnableQuery
<1>3. ~Running(n) /\ workers' = [workers EXCEPT ![n] = Target(n, Snap)]
  BY DEF ReconcileStart, Starts
<1> QED
  BY <1>1, <1>2, <1>3, SentinelsAreNotValues DEF InCharge, Holder, Running

LEMMA RestartHolders ==
    ASSUME RowsInv, NEW n \in Query, VisitAndRestart(n), NEW x \in Query
    PROVE  /\ InCharge(x)' <=> InCharge(x)
           /\ Holder(x)' = Holder(x)
<1>1. recGone = NoWorker /\ UNCHANGED <<workers, recGone>>
  BY DEF VisitAndRestart, ReconcileRestart, RowsInv, Waiting
<1> QED
  BY <1>1 DEF InCharge, Holder, Running

LEMMA StopHolders ==
    ASSUME RowsInv, NEW n \in Query, VisitAndStop(n), NEW x \in Query
    PROVE  /\ InCharge(x)' <=> InCharge(x)
           /\ InCharge(x) => Holder(x)' = Holder(x)
           /\ recWait = NoQuery /\ Running(n)
<1> USE DEF RowsInv, RowsTypeOK, WMTypeOK
<1>1. recWait = NoQuery /\ recGone = NoWorker /\ Running(n)
      /\ StopWorker(n) /\ recGone' = workers[n]
  BY DEF VisitAndStop, ReconcileStop, ReconcileRemove, Waiting, NotInConfig
<1>2. workers' = [workers EXCEPT ![n] = NoWorker] /\ recWait' = n
  BY <1>1 DEF StopWorker
<1> QED
  BY <1>1, <1>2 DEF InCharge, Holder, Running

LEMMA JoinRestartHolders ==
    ASSUME RowsInv, JoinAndRestart, NEW n, n = recWait
    PROVE  /\ n \in Query /\ Running(n)
           /\ recThen \in Worker
           /\ InCharge(n) /\ Holder(n) = workers[n]
           /\ Holder(n)' = recThen
           /\ \A x \in Query : InCharge(x)' <=> InCharge(x)
           /\ \A x \in Query \ {n} : Holder(x)' = Holder(x)
<1> USE DEF RowsInv, RowsTypeOK, WMTypeOK
<1>1. recGone = NoWorker /\ recGone' = NoWorker /\ n # NoQuery
  BY DEF JoinAndRestart, ReconcileJoin
<1>2. recThen # NoWorker /\ Running(n)
  BY <1>1 DEF Waiting
<1>3. n \in Query /\ recThen \in Worker
  BY <1>1, <1>2
<1>4. workers' = [workers EXCEPT ![n] = recThen]
  BY <1>2 DEF JoinAndRestart, ReconcileJoin
<1>5. \A x \in Query : workers'[x] = IF x = n THEN recThen ELSE workers[x]
  BY <1>3, <1>4
<1>6. \A x \in Query : (InCharge(x) <=> Running(x)) /\ (InCharge(x)' <=> Running(x)')
  BY <1>1 DEF InCharge
<1>7. \A x \in Query : Running(x)' <=> Running(x)
  BY <1>2, <1>5 DEF Running
<1>8. \A x \in Query : Running(x) =>
          Holder(x) = workers[x] /\ Holder(x)' = workers'[x]
  BY <1>7 DEF Holder
<1>9. \A x \in Query : ~Running(x) =>
          Holder(x) = recGone /\ Holder(x)' = recGone'
  BY <1>7 DEF Holder
<1>10. Holder(n)' = recThen /\ InCharge(n)
       /\ Holder(n) = workers[n]
  BY <1>2, <1>3, <1>5, <1>6, <1>8
<1> QED
  BY <1>1, <1>2, <1>3, <1>5, <1>6, <1>7, <1>8, <1>9, <1>10

LEMMA JoinStopHolders ==
    ASSUME RowsInv, JoinAndStop
    PROVE  /\ recWait \in Query /\ ~Running(recWait)
           /\ recGone \in Worker
           /\ InCharge(recWait) /\ Holder(recWait) = recGone
           /\ recShared = SharedByOthers(recWait)
           /\ recThen = NoWorker
           /\ \A x \in Query : InCharge(x)' <=> Running(x)
           /\ \A x \in Query : Running(x) =>
                  /\ InCharge(x) /\ x # recWait
                  /\ Holder(x) = workers[x] /\ Holder(x)' = workers[x]
           /\ \A x \in Query \ {recWait} : InCharge(x) <=> Running(x)
<1> USE DEF RowsInv, RowsTypeOK, WMTypeOK
<1>1. recGone # NoWorker /\ recGone' = NoWorker /\ recWait # NoQuery
  BY DEF JoinAndStop, ReconcileJoin
<1>2. recThen = NoWorker /\ ~Running(recWait)
      /\ recShared = SharedByOthers(recWait)
  BY <1>1 DEF Waiting
<1>3. recWait \in Query /\ recGone \in Worker /\ workers' = workers
  BY <1>1, <1>2 DEF JoinAndStop, ReconcileJoin
<1> QED
  BY <1>1, <1>2, <1>3 DEF InCharge, Holder, Running

-----------------------------------------------------------------------------
(* Threads and Waiting are kept by reconcile                               *)

LEMMA SameThreads ==
    ASSUME RowsInv,
           UNCHANGED <<goroutines, run, workers, recWait, recGone>>
    PROVE  Threads'
<1>1. \A x : /\ InCharge(x)' <=> InCharge(x)
             /\ Holder(x)' = Holder(x)
  BY SameHolders
<1> QED
  BY <1>1 DEF RowsInv, Threads

LEMMA CancelledThreads ==
    ASSUME RowsInv, NEW n \in Query,
           goroutines' = Cancelled(n), UNCHANGED run,
           \A x \in Query : /\ InCharge(x)' <=> InCharge(x)
                            /\ InCharge(x) => Holder(x)' = Holder(x)
    PROVE  Threads'
<1>1. goroutines \subseteq Goroutine /\ Threads
  BY DEF RowsInv, RowsTypeOK, WMTypeOK
<1>2. \A g \in goroutines : g.name \in Query
  BY <1>1 DEF Goroutine
<1> DEFINE mark(g) == IF g.name = n THEN [g EXCEPT !.cancelled = TRUE] ELSE g
<1>3. /\ \A h \in goroutines' : \E g \in goroutines :
             /\ h.name = g.name /\ h.worker = g.worker /\ h.phase = g.phase
             /\ h = mark(g)
      /\ \A g \in goroutines : \E h \in goroutines' :
             h.name = g.name /\ h.worker = g.worker /\ h.phase = g.phase
  BY <1>1, CancelledAlike
<1> HIDE DEF mark
<1>4. (\A g, h \in goroutines : g.name = h.name => g = h)'
  BY <1>1, <1>3 DEF Threads
<1>5. (\A g \in goroutines : InCharge(g.name) /\ g.worker = Holder(g.name))'
  BY <1>1, <1>2, <1>3 DEF Threads
<1>6. (\A x \in Query : run[x].pc # "none"
          <=> \E g \in goroutines : g.name = x /\ g.phase = "running")'
  BY <1>1, <1>3 DEF Threads
<1> QED
  BY <1>4, <1>5, <1>6 DEF Threads

LEMMA SpawnedThreads ==
    ASSUME RowsInv, NEW n \in Query, NEW w \in Worker,
           goroutines' = goroutines \cup {Spawned(n, w)}, UNCHANGED run,
           \A g \in goroutines : g.name # n,
           InCharge(n)', Holder(n)' = w,
           \A x \in Query \ {n} : /\ InCharge(x)' <=> InCharge(x)
                                  /\ InCharge(x) => Holder(x)' = Holder(x)
    PROVE  Threads'
<1>1. goroutines \subseteq Goroutine /\ Threads
  BY DEF RowsInv, RowsTypeOK, WMTypeOK
<1>2. \A g \in goroutines : g.name \in Query
  BY <1>1 DEF Goroutine
<1>3. /\ Spawned(n, w).name = n /\ Spawned(n, w).worker = w
      /\ Spawned(n, w).phase = "idle"
  BY DEF Spawned
<1>4. (\A g, h \in goroutines : g.name = h.name => g = h)'
  BY <1>1, <1>3 DEF Threads
<1>5. (\A g \in goroutines : InCharge(g.name) /\ g.worker = Holder(g.name))'
  BY <1>1, <1>2, <1>3 DEF Threads
<1>6. (\A x \in Query : run[x].pc # "none"
          <=> \E g \in goroutines : g.name = x /\ g.phase = "running")'
  BY <1>1, <1>3 DEF Threads
<1> QED
  BY <1>4, <1>5, <1>6 DEF Threads

\* reconcile joins a goroutine only after its last run.
LEMMA JoinedHasNoRun ==
    ASSUME RowsInv, ReconcileJoin
    PROVE  /\ recWait \in Query
           /\ \A g \in goroutines : g.name # recWait
           /\ run[recWait].pc = "none"
<1>1. recWait \in Query
  BY DEF ReconcileJoin, RowsInv, RowsTypeOK, WMTypeOK
<1> QED
  BY <1>1 DEF ReconcileJoin, Joined, RowsInv, Threads

LEMMA ReconcileThreads ==
    ASSUME RowsInv, Reload \/ (\E d \in DB : Reconnect(d)) \/ ReconcileStep
    PROVE  Threads'
<1>1. CASE Reload \/ (\E d \in DB : Reconnect(d)) \/ EndReconcile
  <2>1. UNCHANGED <<goroutines, run, workers, recWait, recGone>>
    BY <1>1 DEF Reload, Reconnect, EndReconcile, ReconcileBegin
  <2> QED
    BY <2>1, SameThreads
<1>2. ASSUME NEW n \in Query, VisitAndPass(n) PROVE Threads'
  <2>1. CASE ReconcileLeave(n, Snap)
    <3>1. UNCHANGED <<goroutines, run, workers, recWait, recGone>>
      BY <1>2, <2>1 DEF VisitAndPass, ReconcileLeave
    <3> QED
      BY <3>1, SameThreads
  <2>2. CASE ReconcileStart(n, Snap)
    <3>1. /\ UNCHANGED <<run, recGone>>
          /\ goroutines' = goroutines \cup {Spawned(n, Target(n, Snap))}
      BY <1>2, <2>2 DEF VisitAndPass, ReconcileStart
    <3>2. /\ ~InCharge(n) /\ InCharge(n)' /\ Holder(n)' = Target(n, Snap)
          /\ Target(n, Snap) \in Worker
          /\ \A x \in Query \ {n} : /\ InCharge(x)' <=> InCharge(x)
                                    /\ Holder(x)' = Holder(x)
      BY <2>2, <3>1, StartHolders
    <3>3. \A g \in goroutines : g.name # n
      BY <3>2 DEF RowsInv, Threads
    <3> DEFINE w == Target(n, Snap)
    <3> HIDE DEF w
    <3>4. w \in Worker /\ goroutines' = goroutines \cup {Spawned(n, w)}
          /\ Holder(n)' = w
      BY <3>1, <3>2 DEF w
    <3> QED
      BY <3>1, <3>2, <3>3, <3>4, SpawnedThreads
  <2> QED
    BY <1>2, <2>1, <2>2 DEF VisitAndPass
<1>3. ASSUME NEW n \in Query, VisitAndRestart(n) PROVE Threads'
  <2>1. goroutines' = Cancelled(n) /\ UNCHANGED run
    BY <1>3 DEF VisitAndRestart, ReconcileRestart
  <2> QED
    BY <1>3, <2>1, RestartHolders, CancelledThreads
<1>4. ASSUME NEW n \in Query, VisitAndStop(n) PROVE Threads'
  <2>1. goroutines' = Cancelled(n) /\ UNCHANGED run
    BY <1>4 DEF VisitAndStop, ReconcileStop, ReconcileRemove, StopWorker
  <2> QED
    BY <1>4, <2>1, StopHolders, CancelledThreads
<1>5. CASE JoinAndRestart
  <2>1. PICK n : n = recWait
    OBVIOUS
  <2>2. /\ n \in Query /\ recThen \in Worker /\ Holder(n)' = recThen /\ InCharge(n)
        /\ \A x \in Query : InCharge(x)' <=> InCharge(x)
        /\ \A x \in Query \ {n} : Holder(x)' = Holder(x)
    BY <1>5, <2>1, JoinRestartHolders
  <2>3. ReconcileJoin /\ UNCHANGED run
    BY <1>5 DEF JoinAndRestart
  <2>4. \A g \in goroutines : g.name # n
    BY <2>1, <2>3, JoinedHasNoRun
  <2>5. PICK w \in Worker : w = recThen
    BY <2>2
  <2>6. recThen # NoWorker
    BY <2>2, SentinelsAreNotValues DEF Worker, RunnableQuery
  <2>7. goroutines' = goroutines \cup {Spawned(n, w)}
    BY <2>1, <2>3, <2>5, <2>6 DEF ReconcileJoin
  <2> QED
    BY <2>2, <2>3, <2>4, <2>5, <2>7, SpawnedThreads
<1>6. CASE JoinAndStop
  <2>1. PICK n : n = recWait
    OBVIOUS
  <2>2. ReconcileJoin /\ UNCHANGED run /\ recThen = NoWorker
    BY <1>6, JoinStopHolders DEF JoinAndStop
  <2>3. \A g \in goroutines : g.name # n
    BY <2>1, <2>2, JoinedHasNoRun
  <2>4. goroutines' = goroutines
    BY <2>2 DEF ReconcileJoin
  <2>5. \A g \in goroutines : g.name \in Query
    BY DEF RowsInv, RowsTypeOK, WMTypeOK, Goroutine
  <2>6. \A x \in Query \ {n} : InCharge(x) =>
            InCharge(x)' /\ Holder(x)' = Holder(x)
    BY <1>6, <2>1, JoinStopHolders
  <2> QED
    BY <2>2, <2>3, <2>4, <2>5, <2>6 DEF RowsInv, Threads
<1> QED
  BY <1>1, <1>2, <1>3, <1>4, <1>5, <1>6 DEF ReconcileStep

\* A worker that is replaced has the schema of its successor.
LEMMA RestartKeepsSchema ==
    ASSUME WMTypeOK, NEW n \in Query, Restarts(n, Snap)
    PROVE  /\ ~SchemaChanged(n, Snap)
           /\ Target(n, Snap).cfg = Candidate(n, Snap)
           /\ Target(n, Snap).cfg.schema = workers[n].cfg.schema
<1>1. workers[n] \in Worker
  BY DEF Restarts, Running, WMTypeOK
<1>2. ASSUME SchemaChanged(n, Snap) PROVE FALSE
  <2>1. Effective(n, Snap) = workers[n].cfg
    BY <1>2 DEF Effective
  <2>2. workers[n].pool = TargetPool(n, Snap)
    BY <1>2 DEF Restarts, Stops
  <2>3. workers[n] = Target(n, Snap)
    BY <1>1, <2>1, <2>2 DEF Target, Worker
  <2> QED
    BY <2>3 DEF Restarts, Keeps
<1> QED
  BY <1>2 DEF Restarts, SchemaChanged, Target, Effective

LEMMA RunStepWaiting ==
    ASSUME RowsInv, NEW n \in Query, RunStep(n)
    PROVE  Waiting'
<1>1. UNCHANGED <<Settings, conflict>>
  BY RunStepFrame
<1> QED
  BY <1>1 DEF Settings, RowsInv, Waiting, SharedByOthers, Running, HealthOf

LEMMA ReconcileWaiting ==
    ASSUME RowsInv, Reload \/ (\E d \in DB : Reconnect(d)) \/ ReconcileStep
    PROVE  Waiting'
<1> USE DEF RowsInv, RowsTypeOK
<1>1. CASE Reload \/ (\E d \in DB : Reconnect(d))
  <2>1. /\ ~reconciling /\ reconciling'
        /\ UNCHANGED <<recGone, recShared>>
        /\ \E rev, queries : ReconcileBegin(rev, queries)
    BY <1>1 DEF Reload, Reconnect
  <2>2. UNCHANGED <<recWait, recThen>>
        /\ \A n \in recTodo' : lastQueries'[n] # NoQuery
    BY <2>1 DEF ReconcileBegin, Waiting
  <2> QED
    BY <2>1, <2>2 DEF Waiting
<1>2. ASSUME NEW n \in Query, VisitAndPass(n) PROVE Waiting'
  <2>1. /\ UNCHANGED <<reconciling, recWait, recThen, recGone, lastQueries>>
        /\ reconciling /\ recWait = NoQuery /\ recTodo' \subseteq recTodo
    BY <1>2 DEF VisitAndPass, ReconcileLeave, ReconcileStart
  <2> QED
    BY <2>1 DEF Waiting
<1>3. ASSUME NEW n \in Query, VisitAndRestart(n) PROVE Waiting'
  <2>1. /\ UNCHANGED <<reconciling, recGone, workers, lastQueries>>
        /\ reconciling /\ recWait = NoQuery /\ recTodo' \subseteq recTodo
        /\ recWait' = n /\ recThen' = Target(n, Snap) /\ n \in recTodo
        /\ Restarts(n, Snap)
    BY <1>3 DEF VisitAndRestart, ReconcileRestart
  <2>2. Target(n, Snap) \in Worker
    BY <2>1, TargetIsWorker DEF Restarts, ManagersTypeOK
  <2>3. recThen' # NoWorker
    BY <2>1, <2>2, SentinelsAreNotValues DEF Worker, RunnableQuery
  <2>4. Running(n) /\ ~Skips(n, Snap) /\ ~Stops(n, Snap)
    BY <2>1 DEF Restarts
  <2>5. /\ ~SchemaChanged(n, Snap)
        /\ Target(n, Snap).cfg.schema = workers[n].cfg.schema
    BY <2>1, RestartKeepsSchema
  <2>6. conflict' = conflict \ {HealthOf(n, workers[n])}
    BY <1>3, <2>4, <2>5 DEF VisitAndRestart, ConflictAfter
  <2>7. n # NoQuery
    BY SentinelsAreNotValues
  <2>8. (recThen.cfg.schema = workers[recWait].cfg.schema)'
    BY <2>1, <2>5
  <2>9. (HealthOf(recWait, workers[recWait]) \notin conflict)'
    BY <2>1, <2>6 DEF HealthOf
  <2>10. Running(recWait)'
    BY <2>1, <2>4 DEF Running
  <2> QED
    BY <2>1, <2>3, <2>7, <2>8, <2>9, <2>10 DEF Waiting
<1>4. ASSUME NEW n \in Query, VisitAndStop(n) PROVE Waiting'
  <2>1. /\ UNCHANGED reconciling
        /\ reconciling /\ recTodo' \subseteq recTodo
        /\ StopWorker(n) /\ recGone' = workers[n]
        /\ recShared' = SharedByOthers(n)
    BY <1>4 DEF VisitAndStop, ReconcileStop, ReconcileRemove
  <2>2. /\ workers' = [workers EXCEPT ![n] = NoWorker] /\ recWait' = n
        /\ recThen' = NoWorker /\ UNCHANGED lastQueries
    BY <2>1 DEF StopWorker
  <2>3. workers[n] # NoWorker
    BY <1>4, StopHolders DEF Running
  <2>4. ~Running(n)' /\ \A x \in Query \ {n} : Running(x)' <=> Running(x)
    BY <2>2 DEF WMTypeOK, Running
  <2>5. (recShared = SharedByOthers(recWait))'
    BY <2>1, <2>2, <2>4 DEF SharedByOthers
  <2>6. ~Running(recWait)'
    BY <2>2, <2>4 DEF Running
  <2>7. n # NoQuery
    BY SentinelsAreNotValues
  <2> QED
    BY <2>1, <2>2, <2>3, <2>5, <2>6, <2>7 DEF Waiting
<1>5. CASE JoinAndRestart \/ JoinAndStop
  <2>1. ReconcileJoin /\ UNCHANGED reconciling
    BY <1>5 DEF JoinAndRestart, JoinAndStop
  <2>2. /\ recWait' = NoQuery /\ recThen' = NoWorker
        /\ UNCHANGED <<recTodo, lastQueries>> /\ recWait # NoQuery
    BY <2>1 DEF ReconcileJoin
  <2>3. recGone' = NoWorker
    BY <1>5 DEF JoinAndRestart, JoinAndStop
  <2> QED
    BY <2>1, <2>2, <2>3 DEF Waiting
<1>6. CASE EndReconcile
  <2>1. /\ UNCHANGED <<wmVars, recGone>>
        /\ recTodo = {} /\ recWait = NoQuery
    BY <1>6 DEF EndReconcile, ReconcileDone
  <2> QED
    BY <2>1 DEF Waiting
<1> QED
  BY <1>1, <1>2, <1>3, <1>4, <1>5, <1>6 DEF ReconcileStep

-----------------------------------------------------------------------------
(* Type correctness of the registry and the runs                           *)

GaugesTypeOK ==
    /\ rows \in [Metric -> SUBSET Series] /\ blank \in [Metric -> SUBSET Series]
    /\ \A m \in Metric : blank[m] \subseteq rows[m]

RegistryTypeOK ==
    /\ vec \in [Metric -> (SUBSET LabelName) \cup {NoVec}]
    /\ dims \in [Metric -> (SUBSET LabelName) \cup {NoVec}]
    /\ up \in [Metric \X DB -> {"absent", "up", "down"}]
    /\ mismatch \subseteq Metric \X DB
    /\ conflict \subseteq Metric \X DB

RunsTypeOK ==
    prev \in [Query -> SUBSET Series] /\ run \in [Query -> Run]

LEMMA TypeParts ==
    /\ RowsTypeOK <=> ManagersTypeOK /\ GaugesTypeOK /\ RegistryTypeOK /\ RunsTypeOK
    /\ RowsTypeOK' <=> (ManagersTypeOK /\ GaugesTypeOK /\ RegistryTypeOK /\ RunsTypeOK)'
BY DEF RowsTypeOK, ManagersTypeOK, GaugesTypeOK, RegistryTypeOK, RunsTypeOK

\* What the deletion of some rows of a metric leaves.
LEMMA DeleteRowsFacts ==
    ASSUME GaugesTypeOK, NEW m \in Metric, NEW S, DeleteRows(m, S)
    PROVE  /\ GaugesTypeOK'
           /\ rows'[m] = rows[m] \ S
           /\ Valued(m)' = Valued(m) \ S
           /\ \A k \in Metric \ {m} : rows'[k] = rows[k] /\ Valued(k)' = Valued(k)
<1>1. /\ rows' = [rows EXCEPT ![m] = rows[m] \ S]
      /\ blank' = [blank EXCEPT ![m] = blank[m] \ S]
  BY DEF DeleteRows
<1> QED
  BY <1>1 DEF GaugesTypeOK, Valued

LEMMA SameRowsFacts ==
    ASSUME UNCHANGED <<rows, blank>>
    PROVE  /\ GaugesTypeOK => GaugesTypeOK'
           /\ \A k \in Metric : Valued(k)' = Valued(k)
BY DEF GaugesTypeOK, Valued

LEMMA PublishAllFacts ==
    ASSUME RowsTypeOK, NEW n \in Query, PublishAll(n)
    PROVE  /\ GaugesTypeOK'
           /\ rows'[MetricOf[n]] = (rows[MetricOf[n]] \cup run[n].batch) \ Stale(n)
           /\ Valued(MetricOf[n])'
                  = (Valued(MetricOf[n]) \ Stale(n)) \cup run[n].batch
           /\ \A k \in Metric \ {MetricOf[n]} :
                  rows'[k] = rows[k] /\ Valued(k)' = Valued(k)
<1> DEFINE m == MetricOf[n]
           B == run[n].batch
           S == Stale(n)
<1>1. m \in Metric /\ B \in SUBSET Series /\ B \cap S = {}
  BY RowsAssumption DEF RowsTypeOK, Run, Stale
<1>2. /\ rows' = [rows EXCEPT ![m] = (rows[m] \cup B) \ S]
      /\ blank' = [blank EXCEPT ![m] = blank[m] \ (B \cup S)]
  BY DEF PublishAll
<1>3. GaugesTypeOK
  BY TypeParts
<1> HIDE DEF m, B, S
<1>4. /\ GaugesTypeOK'
      /\ rows'[m] = (rows[m] \cup B) \ S
      /\ \A k \in Metric \ {m} : rows'[k] = rows[k] /\ blank'[k] = blank[k]
      /\ blank'[m] = blank[m] \ (B \cup S)
  BY <1>1, <1>2, <1>3 DEF GaugesTypeOK
<1>5. Valued(m)' = (Valued(m) \ S) \cup B
  BY <1>1, <1>4 DEF Valued, m
<1>6. \A k \in Metric \ {m} : Valued(k)' = Valued(k)
  BY <1>4 DEF Valued
<1> QED
  BY <1>4, <1>5, <1>6 DEF m, B, S

\* A run that ends half way creates rows, but no values.
LEMMA PublishFailsFacts ==
    ASSUME RowsTypeOK, NEW n \in Query, PublishFails(n)
    PROVE  /\ GaugesTypeOK'
           /\ \A s \in rows'[MetricOf[n]] \ rows[MetricOf[n]] :
                  Resolves(MetricOf[n], s)
           /\ \A k \in Metric \ {MetricOf[n]} : rows'[k] = rows[k]
           /\ \A k \in Metric : Valued(k)' = Valued(k)
<1> DEFINE m == MetricOf[n]
<1>1. m \in Metric /\ run[n].batch \in SUBSET Series
  BY RowsAssumption DEF RowsTypeOK, Run
<1>2. PICK created \in SUBSET {s \in run[n].batch : Resolves(m, s)} :
          /\ rows' = [rows EXCEPT ![m] = rows[m] \cup created]
          /\ blank' = [blank EXCEPT ![m] = blank[m] \cup (created \ rows[m])]
  BY DEF PublishFails
<1>3. GaugesTypeOK
  BY TypeParts
<1>4. created \in SUBSET Series /\ \A s \in created : Resolves(m, s)
  BY <1>1, <1>2
<1> HIDE DEF m
<1>5. /\ GaugesTypeOK'
      /\ rows'[m] = rows[m] \cup created
      /\ blank'[m] = blank[m] \cup (created \ rows[m])
      /\ \A k \in Metric \ {m} : rows'[k] = rows[k] /\ blank'[k] = blank[k]
  BY <1>1, <1>2, <1>3, <1>4 DEF GaugesTypeOK
<1>6. Valued(m)' = Valued(m)
  BY <1>1, <1>3, <1>5 DEF Valued, GaugesTypeOK, m
<1>7. \A k \in Metric \ {m} : Valued(k)' = Valued(k)
  BY <1>5 DEF Valued
<1> QED
  BY <1>1, <1>4, <1>5, <1>6, <1>7 DEF m

LEMMA HealthIsOne ==
    ASSUME NEW n \in Query, NEW w \in Worker
    PROVE  HealthOf(n, w) \in Metric \X DB
BY RowsAssumption DEF HealthOf, Worker, RunnableQuery

LEMMA RunStepRegistryTypes ==
    ASSUME RowsInv, NEW n \in Query, RunStep(n)
    PROVE  GaugesTypeOK' /\ RegistryTypeOK' /\ RunsTypeOK'
<1>1. /\ GaugesTypeOK /\ RegistryTypeOK /\ RunsTypeOK /\ RowsTypeOK /\ Threads
      /\ run[n] \in Run /\ MetricOf[n] \in Metric
  BY TypeParts, RowsAssumption DEF RowsInv, RunsTypeOK
<1>2. /\ run[n].pc # "none" =>
             /\ HealthOf(n, WorkerOf(n)) \in Metric \X DB
             /\ WorkerOf(n) \in Worker
  BY <1>1, InRunHasHolder, HolderIsWorker, HealthIsOne
<1>3. \A pc \in {"asking", "register", "publish", "ok", "db_error",
                 "schema_mismatch"} :
          Becomes(n, pc) => run' \in [Query -> Run]
  BY <1>1 DEF Becomes, Run, RunsTypeOK
<1>4. CASE BeginRun(n) \/ ExitWorker(n)
  <2>1. UNCHANGED <<registryVars, prev>> /\ (Becomes(n, "asking") \/ run' = run)
    BY <1>4 DEF BeginRun, ExitWorker
  <2>2. run' \in [Query -> Run]
    BY <1>1, <1>3, <2>1 DEF RunsTypeOK
  <2> QED
    BY <1>1, <2>1, <2>2 DEF GaugesTypeOK, RegistryTypeOK, RunsTypeOK
<1>5. CASE DatabaseAnswers(n)
  <2>1. PICK answer \in Answers(WorkerOf(n)) : run' = [run EXCEPT ![n] = answer]
    BY <1>5 DEF DatabaseAnswers
  <2>2. answer \in Run
    BY <1>2, <1>5, AnswersAreOwn DEF DatabaseAnswers, InRun
  <2>3. UNCHANGED <<registryVars, prev>>
    BY <1>5 DEF DatabaseAnswers
  <2> QED
    BY <1>1, <2>1, <2>2, <2>3 DEF GaugesTypeOK, RegistryTypeOK, RunsTypeOK
<1>6. CASE DatabaseFails(n)
  <2>1. /\ Becomes(n, "db_error") /\ UNCHANGED <<vec, dims, up, mismatch, conflict, prev>>
        /\ \/ UNCHANGED <<rows, blank>>
           \/ \E S : DeleteRows(MetricOf[n], S)
    BY <1>6 DEF DatabaseFails
  <2>2. GaugesTypeOK'
    BY <1>1, <2>1, SameRowsFacts, DeleteRowsFacts
  <2> QED
    BY <1>1, <1>3, <2>1, <2>2 DEF RegistryTypeOK, RunsTypeOK
<1>7. CASE RegisterVec(n)
  <2>1. /\ UNCHANGED <<rows, blank, up, mismatch, conflict, prev>>
        /\ \E pc \in {"publish", "schema_mismatch"} : Becomes(n, pc)
        /\ \/ UNCHANGED <<vec, dims>>
           \/ /\ vec' = [vec EXCEPT ![MetricOf[n]] = run[n].names]
              /\ dims' = [dims EXCEPT ![MetricOf[n]] = run[n].names]
    BY <1>7 DEF RegisterVec
  <2>2. run[n].names \in SUBSET LabelName
    BY <1>1 DEF Run
  <2> QED
    BY <1>1, <1>3, <2>1, <2>2 DEF GaugesTypeOK, RegistryTypeOK, RunsTypeOK
<1>8. CASE PublishAll(n) \/ PublishFails(n)
  <2>1. GaugesTypeOK'
    BY <1>1, <1>8, PublishAllFacts, PublishFailsFacts
  <2>2. /\ UNCHANGED <<vec, dims, up, mismatch, conflict, prev>>
        /\ \E pc \in {"ok", "schema_mismatch"} : Becomes(n, pc)
    BY <1>8 DEF PublishAll, PublishFails
  <2> QED
    BY <1>1, <1>3, <2>1, <2>2 DEF RegistryTypeOK, RunsTypeOK
<1>9. CASE Succeed(n) \/ GiveUp(n) \/ Fail(n)
  <2>1. /\ UNCHANGED <<vec, dims, conflict>>
        /\ run' = [run EXCEPT ![n] = NoRun]
    BY <1>9 DEF Succeed, GiveUp, Fail, EndRun
  <2>2. NoRun \in Run
    BY DEF NoRun, Run
  <2>3. run[n].pc # "none"
    BY <1>9 DEF Succeed, GiveUp, Fail, Erred, InRun
  <2>4. GaugesTypeOK'
    <3>1. \/ UNCHANGED <<rows, blank>>
          \/ DeleteRows(MetricOf[n], prev[n])
      BY <1>9 DEF Succeed, GiveUp, Fail
    <3> QED
      BY <1>1, <3>1, SameRowsFacts, DeleteRowsFacts
  <2>5. prev' \in [Query -> SUBSET Series]
    <3>1. run[n].batch \in SUBSET Series
      BY <1>1 DEF Run
    <3> QED
      BY <1>1, <1>9, <3>1 DEF Succeed, GiveUp, Fail, RunsTypeOK
  <2>6. up' \in [Metric \X DB -> {"absent", "up", "down"}]
        /\ mismatch' \subseteq Metric \X DB
    <3> DEFINE health == HealthOf(n, WorkerOf(n))
    <3>1. health \in Metric \X DB
      BY <1>2, <2>3
    <3>2. /\ \/ up' = up
             \/ up' = [up EXCEPT ![health] = "up"]
             \/ up' = [up EXCEPT ![health] = "down"]
          /\ mismatch' \subseteq mismatch \cup {health}
      BY <1>9 DEF Succeed, GiveUp, Fail
    <3> HIDE DEF health
    <3> QED
      BY <1>1, <3>1, <3>2 DEF RegistryTypeOK
  <2> QED
    BY <1>1, <2>1, <2>2, <2>4, <2>5, <2>6 DEF RegistryTypeOK, RunsTypeOK
<1> QED
  BY <1>4, <1>5, <1>6, <1>7, <1>8, <1>9 DEF RunStep

\* What a visit does to the gauge of schema conflicts.
LEMMA ConflictAfterFacts ==
    ASSUME NEW n \in Query
    PROVE  \/ ConflictAfter(n) = conflict
           \/ Running(n) /\ ConflictAfter(n) = conflict \cup {HealthOf(n, workers[n])}
           \/ Running(n) /\ ConflictAfter(n) = conflict \ {HealthOf(n, workers[n])}
BY DEF ConflictAfter

LEMMA ReconcileRegistryTypes ==
    ASSUME RowsInv, Reload \/ (\E d \in DB : Reconnect(d)) \/ ReconcileStep
    PROVE  GaugesTypeOK' /\ RegistryTypeOK' /\ RunsTypeOK'
<1>1. GaugesTypeOK /\ RegistryTypeOK /\ RunsTypeOK /\ RowsTypeOK
  BY TypeParts DEF RowsInv
<1>2. CASE Reload \/ (\E d \in DB : Reconnect(d)) \/ EndReconcile
           \/ \E n \in Query : VisitAndStop(n)
  <2>1. UNCHANGED <<registryVars, prev, run>>
    BY <1>2 DEF Reload, Reconnect, EndReconcile, VisitAndStop
  <2> QED
    BY <1>1, <2>1 DEF GaugesTypeOK, RegistryTypeOK, RunsTypeOK
<1>3. ASSUME NEW n \in Query, VisitAndPass(n) \/ VisitAndRestart(n)
      PROVE  GaugesTypeOK' /\ RegistryTypeOK' /\ RunsTypeOK'
  <2>1. /\ UNCHANGED <<vec, dims, rows, blank, up, mismatch, run>>
        /\ prev' = prev \/ prev' = [prev EXCEPT ![n] = {}]
        /\ conflict' = ConflictAfter(n)
    BY <1>3 DEF VisitAndPass, VisitAndRestart
  <2>2. Running(n) => HealthOf(n, workers[n]) \in Metric \X DB
    BY <1>1, HealthIsOne DEF Running, RowsTypeOK, WMTypeOK
  <2>3. conflict' \subseteq Metric \X DB
    BY <1>1, <2>1, <2>2, ConflictAfterFacts DEF RegistryTypeOK
  <2> QED
    BY <1>1, <2>1, <2>3 DEF GaugesTypeOK, RegistryTypeOK, RunsTypeOK
<1>4. ASSUME NEW n \in Query, NEW w \in Worker, n = recWait,
             UNCHANGED <<dims, run>>,
             \/ UNCHANGED <<rows, blank>> \/ \E S : DeleteRows(MetricOf[n], S),
             \/ UNCHANGED vec \/ vec' = [vec EXCEPT ![MetricOf[n]] = NoVec],
             \/ UNCHANGED prev \/ prev' = [prev EXCEPT ![n] = {}],
             \/ UNCHANGED up \/ up' = [up EXCEPT ![HealthOf(n, w)] = "absent"],
             mismatch' \subseteq mismatch, conflict' \subseteq conflict
      PROVE  GaugesTypeOK' /\ RegistryTypeOK' /\ RunsTypeOK'
  <2>1. GaugesTypeOK'
    BY <1>1, <1>4, SameRowsFacts, DeleteRowsFacts, RowsAssumption
  <2>2. HealthOf(n, w) \in Metric \X DB /\ MetricOf[n] \in Metric
    BY HealthIsOne, RowsAssumption
  <2>3. vec' \in [Metric -> (SUBSET LabelName) \cup {NoVec}]
    BY <1>1, <1>4, <2>2 DEF RegistryTypeOK
  <2>4. up' \in [Metric \X DB -> {"absent", "up", "down"}]
    BY <1>1, <1>4, <2>2 DEF RegistryTypeOK
  <2> QED
    BY <1>1, <1>4, <2>1, <2>3, <2>4 DEF RegistryTypeOK, RunsTypeOK
<1>5. CASE JoinAndRestart
  <2>1. PICK n : n = recWait
    OBVIOUS
  <2>2. n \in Query /\ workers[n] \in Worker
    BY <1>1, <1>5, <2>1, JoinRestartHolders DEF Running, RowsTypeOK, WMTypeOK
  <2> QED
    BY <1>4, <1>5, <2>1, <2>2 DEF JoinAndRestart, DeleteWorkerRows
<1>6. CASE JoinAndStop
  <2>1. PICK n : n = recWait
    OBVIOUS
  <2>2. n \in Query /\ recGone \in Worker
    BY <1>6, <2>1, JoinStopHolders
  <2>3. \/ DeleteWorkerRows(n, recGone) /\ UNCHANGED vec
        \/ UnregisterQueryMetric(MetricOf[n])
    BY <1>6, <2>1 DEF JoinAndStop
  <2> QED
    BY <1>4, <1>6, <2>1, <2>2, <2>3
       DEF JoinAndStop, DeleteWorkerRows, UnregisterQueryMetric
<1> QED
  BY <1>2, <1>3, <1>5, <1>6 DEF ReconcileStep

LEMMA TypesAreKept ==
    ASSUME RowsInv, [Next]_rowVars
    PROVE  RowsTypeOK'
<1>1. ManagersTypeOK'
  BY ManagersTypes, TypeParts DEF RowsInv
<1>2. CASE UNCHANGED rowVars
  BY <1>1, <1>2, TypeParts
     DEF RowsInv, GaugesTypeOK, RegistryTypeOK, RunsTypeOK
<1>3. GaugesTypeOK' /\ RegistryTypeOK' /\ RunsTypeOK' => RowsTypeOK'
  BY <1>1, TypeParts
<1> QED
  BY <1>2, <1>3, RunStepRegistryTypes, ReconcileRegistryTypes DEF Next

-----------------------------------------------------------------------------
(* Steps that leave rows, runs and those who answer for them alone         *)

Visit(n) == VisitAndPass(n) \/ VisitAndRestart(n) \/ VisitAndStop(n)

LEMMA VisitFacts ==
    ASSUME RowsInv,
           \/ Reload \/ (\E d \in DB : Reconnect(d)) \/ EndReconcile
           \/ \E n \in Query : Visit(n)
    PROVE  /\ UNCHANGED <<vec, dims, rows, blank, up, run>>
           /\ \A x \in Query : InCharge(x) =>
                  InCharge(x)' /\ Holder(x)' = Holder(x) /\ prev'[x] = prev[x]
           /\ \A x \in Query : ~InCharge(x) /\ InCharge(x)' => prev'[x] = {}
           /\ \A x \in Query : prev'[x] = prev[x] \/ prev'[x] = {}
<1>1. CASE Reload \/ (\E d \in DB : Reconnect(d)) \/ EndReconcile
  <2>1. UNCHANGED <<workers, recWait, recGone, prev, vec, dims, rows, blank, up, run>>
    BY <1>1 DEF Reload, Reconnect, EndReconcile, ReconcileBegin
  <2> QED
    BY <2>1, SameHolders
<1>2. ASSUME NEW n \in Query, VisitAndPass(n), ReconcileLeave(n, Snap), UNCHANGED prev
      PROVE  /\ UNCHANGED <<workers, recWait, recGone, prev>>
             /\ \A x \in Query : /\ InCharge(x)' <=> InCharge(x)
                                 /\ Holder(x)' = Holder(x)
  <2>1. UNCHANGED <<workers, recWait, recGone, prev>>
    BY <1>2 DEF VisitAndPass, ReconcileLeave
  <2> QED
    BY <2>1, SameHolders
<1>3. ASSUME NEW n \in Query, VisitAndPass(n), ReconcileStart(n, Snap),
             prev' = [prev EXCEPT ![n] = {}]
      PROVE  /\ ~InCharge(n) /\ prev'[n] = {}
             /\ \A x \in Query \ {n} : /\ InCharge(x)' <=> InCharge(x)
                                       /\ Holder(x)' = Holder(x)
                                       /\ prev'[x] = prev[x]
  <2>1. UNCHANGED recGone /\ prev \in [Query -> SUBSET Series]
    BY <1>3 DEF VisitAndPass, RowsInv, RowsTypeOK
  <2> QED
    BY <1>3, <2>1, StartHolders
<1>4. ASSUME NEW n \in Query, Visit(n)
      PROVE  UNCHANGED <<vec, dims, rows, blank, up, run>>
  BY <1>4 DEF Visit, VisitAndPass, VisitAndRestart, VisitAndStop
<1>5. ASSUME NEW n \in Query, VisitAndRestart(n) \/ VisitAndStop(n)
      PROVE  UNCHANGED prev
  BY <1>5 DEF VisitAndRestart, VisitAndStop
<1>6. ASSUME NEW n \in Query, VisitAndPass(n)
      PROVE  \/ ReconcileLeave(n, Snap) /\ UNCHANGED prev
             \/ ReconcileStart(n, Snap) /\ prev' = [prev EXCEPT ![n] = {}]
  BY <1>6 DEF VisitAndPass
<1> QED
  BY <1>1, <1>2, <1>3, <1>4, <1>5, <1>6, RestartHolders, StopHolders DEF Visit

-----------------------------------------------------------------------------
(* A GaugeVec lives with its workers                                       *)

\* A run may register the GaugeVec of its metric, and does before it publishes.
LEMMA RunStepVec ==
    ASSUME RowsInv, NEW n \in Query, RunStep(n)
    PROVE  /\ \A m \in Metric : vec[m] # NoVec => vec'[m] = vec[m]
           /\ \A m \in Metric : vec'[m] # vec[m] => rows'[m] = rows[m]
           /\ run'[n].pc \in {"publish", "ok"} => vec'[MetricOf[n]] # NoVec
<1>1. /\ RowsTypeOK /\ VecLivesWithItsWorkers
      /\ run \in [Query -> Run] /\ run[n] \in Run
      /\ vec \in [Metric -> (SUBSET LabelName) \cup {NoVec}]
      /\ MetricOf[n] \in Metric
  BY RowsAssumption DEF RowsInv, RowsTypeOK
<1> USE DEF InRun, Becomes
<1>2. CASE RegisterVec(n)
  <2>1. run[n].names # NoVec
    BY <1>1, RowsAssumption DEF Run
  <2> QED
    BY <1>1, <1>2, <2>1 DEF RegisterVec, Run
<1>3. CASE PublishAll(n)
  <2>1. vec[MetricOf[n]] # NoVec /\ UNCHANGED vec
    BY <1>1, <1>3 DEF PublishAll, VecLivesWithItsWorkers
  <2> QED
    BY <2>1
<1>4. CASE BeginRun(n) \/ DatabaseFails(n) \/ PublishFails(n)
  <2>1. UNCHANGED vec /\ \E pc \in {"asking", "db_error", "schema_mismatch"} :
            run' = [run EXCEPT ![n].pc = pc]
    BY <1>4 DEF BeginRun, DatabaseFails, PublishFails
  <2> QED
    BY <1>1, <2>1 DEF Run
<1>5. CASE DatabaseAnswers(n)
  <2>1. PICK answer \in Answers(WorkerOf(n)) : run' = [run EXCEPT ![n] = answer]
    BY <1>5 DEF DatabaseAnswers
  <2>2. answer.pc = "register"
    BY DEF Answers
  <2> QED
    BY <1>1, <1>5, <2>1, <2>2 DEF DatabaseAnswers
<1>6. CASE Succeed(n) \/ GiveUp(n) \/ Fail(n)
  BY <1>1, <1>6 DEF Succeed, GiveUp, Fail, EndRun, NoRun
<1>7. CASE ExitWorker(n)
  BY <1>1, <1>7 DEF ExitWorker, VecLivesWithItsWorkers
<1> QED
  BY <1>2, <1>3, <1>4, <1>5, <1>6, <1>7 DEF RunStep

LEMMA RunStepVecLives ==
    ASSUME RowsInv, NEW n \in Query, RunStep(n)
    PROVE  VecLivesWithItsWorkers'
<1>1. /\ MetricOf \in [Query -> Metric] /\ VecLivesWithItsWorkers
  BY RowsAssumption DEF RowsInv
<1>2. \A x \in Query : InCharge(x)' <=> InCharge(x)
  BY RunStepFrame, SameHolders DEF Settings
<1>3. \A x \in Query \ {n} : run'[x] = run[x]
  BY RunStepOthers DEF RowsInv
<1>4. InCharge(n)
  BY RunStepPhases, InRunHasHolder, RunnerIsHolder DEF RowsInv
<1>5. \A m \in Metric \ {MetricOf[n]} : vec'[m] = vec[m]
  BY RunStepOthers DEF RowsInv
<1> QED
  BY <1>1, <1>2, <1>3, <1>4, <1>5, RunStepVec DEF VecLivesWithItsWorkers

LEMMA ReconcileVecLives ==
    ASSUME RowsInv, Reload \/ (\E d \in DB : Reconnect(d)) \/ ReconcileStep
    PROVE  VecLivesWithItsWorkers'
<1>1. /\ MetricOf \in [Query -> Metric] /\ VecLivesWithItsWorkers /\ Threads
      /\ vec \in [Metric -> (SUBSET LabelName) \cup {NoVec}]
  BY RowsAssumption DEF RowsInv, RowsTypeOK
<1>2. ASSUME UNCHANGED <<vec, run>>, \A x \in Query : InCharge(x) => InCharge(x)'
      PROVE  VecLivesWithItsWorkers'
  BY <1>1, <1>2 DEF VecLivesWithItsWorkers
<1>3. CASE JoinAndRestart
  <2>1. UNCHANGED <<vec, run>>
    BY <1>3 DEF JoinAndRestart
  <2>2. PICK n : n = recWait
    OBVIOUS
  <2> QED
    BY <1>2, <1>3, <2>1, <2>2, JoinRestartHolders
<1>4. CASE JoinAndStop
  <2>1. PICK n : n = recWait
    OBVIOUS
  <2>2. /\ ReconcileJoin /\ UNCHANGED run
        /\ IF recShared THEN UNCHANGED vec ELSE vec' = [vec EXCEPT ![MetricOf[n]] = NoVec]
    BY <1>4, <2>1 DEF JoinAndStop, UnregisterQueryMetric
  <2>3. n \in Query /\ run[n].pc = "none"
    BY <2>1, <2>2, JoinedHasNoRun
  <2>4. /\ recShared = SharedByOthers(n)
        /\ \A x \in Query : InCharge(x)' <=> Running(x)
        /\ \A x \in Query \ {n} : InCharge(x) <=> Running(x)
    BY <1>4, <2>1, JoinStopHolders
  <2>5. \A x \in Query : run[x].pc # "none" => x # n /\ Running(x)
    BY <1>1, <2>3, <2>4, InRunHasHolder
  <2>6. ASSUME NEW x \in Query, run'[x].pc \in {"publish", "ok"}
        PROVE  vec'[MetricOf[x]] # NoVec
    <3>1. x # n /\ Running(x) /\ vec[MetricOf[x]] # NoVec
      BY <1>1, <2>2, <2>5, <2>6 DEF VecLivesWithItsWorkers
    <3>2. MetricOf[x] = MetricOf[n] => recShared
      BY <2>4, <3>1 DEF SharedByOthers
    <3> QED
      BY <1>1, <2>2, <2>3, <3>1, <3>2
  <2>7. ASSUME NEW m \in Metric, vec'[m] # NoVec
        PROVE  \E x \in Query : MetricOf[x] = m /\ InCharge(x)'
    <3>1. vec[m] # NoVec /\ (m = MetricOf[n] => recShared)
      BY <1>1, <2>2, <2>3, <2>7
    <3>2. CASE m = MetricOf[n]
      BY <2>4, <3>1, <3>2 DEF SharedByOthers
    <3>3. CASE m # MetricOf[n]
      BY <1>1, <2>4, <3>1, <3>3 DEF VecLivesWithItsWorkers
    <3> QED
      BY <3>2, <3>3
  <2> QED
    BY <2>6, <2>7 DEF VecLivesWithItsWorkers
<1> QED
  BY <1>2, <1>3, <1>4, VisitFacts DEF ReconcileStep, Visit

-----------------------------------------------------------------------------
(* The health gauges follow the workers                                    *)

\* A series is shown as long as the same worker answers for its query.
LEMMA StillShown ==
    ASSUME NEW md,
           \A x \in Query : InCharge(x) => InCharge(x)' /\ Holder(x)' = Holder(x)
    PROVE  ShownFor(md) => ShownFor(md)'
BY DEF ShownFor, HealthOf

LEMMA RunStepHealth ==
    ASSUME RowsInv, NEW n \in Query, RunStep(n)
    PROVE  /\ HealthFollowsWorkers'
           /\ \A md \in Metric \X DB :
                  md # HealthOf(n, Holder(n)) => up'[md] = up[md]
<1>1. /\ UNCHANGED conflict
      /\ \A x \in Query : /\ InCharge(x)' <=> InCharge(x)
                          /\ Holder(x)' = Holder(x)
  BY RunStepFrame, SameHolders DEF Settings
<1>2. InCharge(n) /\ WorkerOf(n) = Holder(n)
  BY RunStepPhases, InRunHasHolder, RunnerIsHolder DEF RowsInv
<1>3. up \in [Metric \X DB -> {"absent", "up", "down"}]
  BY DEF RowsInv, RowsTypeOK
<1>4. \/ UNCHANGED up
      \/ \E v : up' = [up EXCEPT ![HealthOf(n, WorkerOf(n))] = v]
  <2>1. CASE Succeed(n) \/ Fail(n)
    BY <2>1 DEF Succeed, Fail
  <2>2. CASE ~(Succeed(n) \/ Fail(n))
    BY <2>2 DEF RunStep, BeginRun, DatabaseAnswers, DatabaseFails, RegisterVec,
                PublishAll, PublishFails, GiveUp, ExitWorker
  <2> QED
    BY <2>1, <2>2
<1>5. \A md \in Metric \X DB : md # HealthOf(n, Holder(n)) => up'[md] = up[md]
  BY <1>2, <1>3, <1>4
<1>6. ASSUME NEW md \in Metric \X DB, up'[md] # "absent" \/ md \in conflict'
      PROVE  ShownFor(md)'
  <2>1. ShownFor(md)
    <3>1. CASE md = HealthOf(n, Holder(n))
      BY <1>2, <3>1 DEF ShownFor
    <3>2. CASE md # HealthOf(n, Holder(n))
      BY <1>1, <1>5, <1>6, <3>2 DEF RowsInv, HealthFollowsWorkers
    <3> QED
      BY <3>1, <3>2
  <2> QED
    BY <1>1, <2>1, StillShown
<1> QED
  BY <1>5, <1>6 DEF HealthFollowsWorkers

\* What the two ends of wg.Wait do to the gauges.
LEMMA JoinRestartHealth ==
    ASSUME RowsInv, JoinAndRestart, NEW n, n = recWait
    PROVE  /\ UNCHANGED conflict
           /\ HealthOf(n, workers[n]) \notin conflict
           /\ HealthOf(n, workers[n]) \in Metric \X DB
           /\ \A md \in Metric \X DB :
                  md # HealthOf(n, workers[n]) => up'[md] = up[md]
           /\ IF IdentityChanged(workers[n], recThen)
              THEN up'[HealthOf(n, workers[n])] = "absent"
              ELSE UNCHANGED up
<1>1. /\ n \in Query /\ workers[n] \in Worker /\ recThen # NoWorker
      /\ up \in [Metric \X DB -> {"absent", "up", "down"}]
  BY JoinRestartHolders, SentinelsAreNotValues
     DEF Running, RowsInv, RowsTypeOK, WMTypeOK, Worker, RunnableQuery
<1>2. HealthOf(n, workers[n]) \in Metric \X DB
  BY <1>1, HealthIsOne
<1>3. HealthOf(n, workers[n]) \notin conflict
  BY <1>1 DEF RowsInv, Waiting
<1> QED
  BY <1>1, <1>2, <1>3 DEF JoinAndRestart

LEMMA JoinStopHealth ==
    ASSUME RowsInv, JoinAndStop, NEW n, n = recWait
    PROVE  /\ HealthOf(n, recGone) \in Metric \X DB
           /\ conflict' = conflict \ {HealthOf(n, recGone)}
           /\ \A md \in Metric \X DB :
                  up'[md] = IF md = HealthOf(n, recGone) THEN "absent" ELSE up[md]
<1>1. /\ n \in Query /\ recGone \in Worker
      /\ up \in [Metric \X DB -> {"absent", "up", "down"}]
  BY JoinStopHolders DEF RowsInv, RowsTypeOK
<1>2. HealthOf(n, recGone) \in Metric \X DB
  BY <1>1, HealthIsOne
<1>3. /\ up' = [up EXCEPT ![HealthOf(n, recGone)] = "absent"]
      /\ conflict' = conflict \ {HealthOf(n, recGone)}
  BY DEF JoinAndStop
<1> QED
  BY <1>1, <1>2, <1>3

LEMMA ReconcileHealth ==
    ASSUME RowsInv, Reload \/ (\E d \in DB : Reconnect(d)) \/ ReconcileStep
    PROVE  HealthFollowsWorkers'
<1>1. HealthFollowsWorkers
  BY DEF RowsInv
<1>2. CASE \/ Reload \/ (\E d \in DB : Reconnect(d)) \/ EndReconcile
           \/ \E n \in Query : Visit(n)
  <2>1. /\ UNCHANGED up
        /\ \A x \in Query : InCharge(x) => InCharge(x)' /\ Holder(x)' = Holder(x)
    BY <1>2, VisitFacts
  <2>2. \A md : md \in conflict' =>
            \/ md \in conflict
            \/ \E n \in Query : Running(n) /\ md = HealthOf(n, workers[n])
    <3>1. ASSUME NEW n \in Query, Visit(n)
          PROVE  conflict' = conflict \/ conflict' = ConflictAfter(n)
      BY <3>1 DEF Visit, VisitAndPass, VisitAndRestart, VisitAndStop
    <3>2. CASE Reload \/ (\E d \in DB : Reconnect(d)) \/ EndReconcile
      BY <3>2 DEF Reload, Reconnect, EndReconcile
    <3> QED
      BY <1>2, <3>1, <3>2, ConflictAfterFacts
  <2>3. \A md \in Metric \X DB :
            up'[md] # "absent" \/ md \in conflict' => ShownFor(md)
    BY <1>1, <2>1, <2>2 DEF HealthFollowsWorkers, ShownFor, InCharge, Holder
  <2> QED
    BY <2>1, <2>3, StillShown DEF HealthFollowsWorkers
<1>3. CASE JoinAndRestart
  <2>1. PICK n : n = recWait
    OBVIOUS
  <2>2. /\ n \in Query /\ InCharge(n) /\ Holder(n) = workers[n]
        /\ Holder(n)' = recThen
        /\ \A x \in Query : InCharge(x)' <=> InCharge(x)
        /\ \A x \in Query \ {n} : Holder(x)' = Holder(x)
    BY <1>3, <2>1, JoinRestartHolders
  <2> SUFFICES ASSUME NEW md \in Metric \X DB,
                      up'[md] # "absent" \/ md \in conflict'
               PROVE  ShownFor(md)'
    BY DEF HealthFollowsWorkers
  <2>3. up[md] # "absent" \/ md \in conflict
    BY <1>3, <2>1, JoinRestartHealth
  <2>4. PICK x \in Query : InCharge(x) /\ md = HealthOf(x, Holder(x))
    BY <1>1, <2>3 DEF HealthFollowsWorkers, ShownFor
  <2>5. CASE x # n
    BY <2>2, <2>4, <2>5 DEF ShownFor, HealthOf
  <2>6. CASE x = n
    <3>1. md = HealthOf(n, workers[n])
      BY <2>2, <2>4, <2>6
    <3>2. ~IdentityChanged(workers[n], recThen)
      BY <1>3, <2>1, <3>1, JoinRestartHealth
    <3>3. md = HealthOf(n, recThen)
      BY <3>1, <3>2 DEF IdentityChanged, HealthOf
    <3> QED
      BY <2>2, <3>3 DEF ShownFor, HealthOf
  <2> QED
    BY <2>5, <2>6
<1>4. CASE JoinAndStop
  <2>1. PICK n : n = recWait
    OBVIOUS
  <2>2. /\ n \in Query /\ Holder(n) = recGone
        /\ \A x \in Query : InCharge(x)' <=> Running(x)
        /\ \A x \in Query : Running(x) =>
               Holder(x) = workers[x] /\ Holder(x)' = workers[x]
        /\ \A x \in Query \ {n} : InCharge(x) <=> Running(x)
    BY <1>4, <2>1, JoinStopHolders
  <2> SUFFICES ASSUME NEW md \in Metric \X DB,
                      up'[md] # "absent" \/ md \in conflict'
               PROVE  ShownFor(md)'
    BY DEF HealthFollowsWorkers
  <2>3. /\ up[md] # "absent" \/ md \in conflict
        /\ md # HealthOf(n, recGone)
    BY <1>4, <2>1, JoinStopHealth
  <2>4. PICK x \in Query : InCharge(x) /\ md = HealthOf(x, Holder(x))
    BY <1>1, <2>3 DEF HealthFollowsWorkers, ShownFor
  <2>5. x # n
    BY <2>2, <2>3, <2>4
  <2> QED
    BY <2>2, <2>4, <2>5 DEF ShownFor, HealthOf
<1> QED
  BY <1>2, <1>3, <1>4 DEF ReconcileStep, Visit

-----------------------------------------------------------------------------
(* Rows, runs and what is remembered: the steps of a run                   *)

OwnedInv == RowsFitTheirVec /\ OwnIdentity /\ BatchOfRun /\ ValuesAreShown

LEMMA RunStepHolders ==
    ASSUME RowsInv, NEW n \in Query, RunStep(n)
    PROVE  /\ \A x \in Query : /\ InCharge(x)' <=> InCharge(x)
                               /\ Holder(x)' = Holder(x)
           /\ InCharge(n) /\ WorkerOf(n) = Holder(n) /\ Holder(n) \in Worker
<1>1. InCharge(n) /\ WorkerOf(n) = Holder(n)
  BY RunStepPhases, InRunHasHolder, RunnerIsHolder DEF RowsInv
<1> QED
  BY <1>1, RunStepFrame, SameHolders, HolderIsWorker DEF Settings, RowsInv

\* How run and prevLabels of a query change in a step of its run.
LEMMA RunStepRun ==
    ASSUME RowsInv, NEW n \in Query, RunStep(n)
    PROVE  \/ /\ run'[n].batch = run[n].batch /\ prev'[n] = prev[n]
              /\ <<run[n].pc, run'[n].pc>> \in
                     {<<"none", "none">>, <<"none", "asking">>,
                      <<"asking", "db_error">>, <<"register", "publish">>,
                      <<"register", "schema_mismatch">>, <<"publish", "ok">>,
                      <<"publish", "schema_mismatch">>}
              /\ run'[n].pc = "ok" => PublishAll(n)
           \/ /\ run[n].pc = "asking" /\ run'[n].pc = "register"
              /\ run'[n] \in Answers(Holder(n)) /\ prev'[n] = prev[n]
           \/ /\ run[n].pc \in {"ok", "db_error", "schema_mismatch"}
              /\ run'[n].pc = "none" /\ run'[n].batch = {}
              /\ \/ /\ Succeed(n) /\ run[n].pc = "ok"
                    /\ prev'[n] = IF IsMultiRow(Holder(n)) THEN run[n].batch ELSE {}
                 \/ GiveUp(n) /\ run[n].pc # "ok" /\ prev'[n] = prev[n]
                 \/ Fail(n) /\ run[n].pc # "ok" /\ prev'[n] = {}
<1>1. /\ run \in [Query -> Run] /\ run[n] \in Run
      /\ prev \in [Query -> SUBSET Series] /\ Threads
      /\ WorkerOf(n) = Holder(n)
  BY RunStepHolders DEF RowsInv, RowsTypeOK
<1>2. \A pc \in {"asking", "register", "publish", "ok", "db_error",
                 "schema_mismatch"} :
          Becomes(n, pc) => run'[n].pc = pc /\ run'[n].batch = run[n].batch
  BY <1>1 DEF Becomes, Run
<1> USE DEF InRun
<1>3. CASE BeginRun(n)
  <2>1. PICK g \in goroutines : g.name = n /\ g.phase = "idle"
    BY <1>3 DEF BeginRun, WorkerTick
  <2>2. run[n].pc = "none"
    BY <1>1, <2>1 DEF Threads
  <2> QED
    BY <1>2, <1>3, <2>2 DEF BeginRun
<1>4. CASE ExitWorker(n)
  <2>1. PICK g \in goroutines : g.name = n /\ g.phase = "idle"
    BY <1>4 DEF ExitWorker, WorkerExit
  <2>2. run[n].pc = "none"
    BY <1>1, <2>1 DEF Threads
  <2> QED
    BY <1>4, <2>2 DEF ExitWorker
<1>5. CASE DatabaseAnswers(n)
  <2>1. PICK answer \in Answers(WorkerOf(n)) : run' = [run EXCEPT ![n] = answer]
    BY <1>5 DEF DatabaseAnswers
  <2>2. answer.pc = "register"
    BY DEF Answers
  <2> QED
    BY <1>1, <1>5, <2>1, <2>2 DEF DatabaseAnswers
<1>6. CASE DatabaseFails(n)
  BY <1>2, <1>6 DEF DatabaseFails
<1>7. CASE RegisterVec(n)
  BY <1>2, <1>7 DEF RegisterVec
<1>8. CASE PublishAll(n) \/ PublishFails(n)
  <2>1. CASE PublishAll(n)
    <3>1. /\ run[n].pc = "publish" /\ run'[n].pc = "ok"
          /\ run'[n].batch = run[n].batch /\ prev'[n] = prev[n]
      BY <1>2, <2>1 DEF PublishAll
    <3> QED
      BY <2>1, <3>1
  <2>2. CASE PublishFails(n)
    <3>1. /\ run[n].pc = "publish" /\ run'[n].pc = "schema_mismatch"
          /\ run'[n].batch = run[n].batch /\ prev'[n] = prev[n]
      BY <1>2, <2>2 DEF PublishFails
    <3> QED
      BY <3>1
  <2> QED
    BY <1>8, <2>1, <2>2
<1>9. CASE Succeed(n) \/ GiveUp(n) \/ Fail(n)
  <2>1. /\ run'[n] = NoRun
        /\ run[n].pc \in {"ok", "db_error", "schema_mismatch"}
    BY <1>1, <1>9 DEF Succeed, GiveUp, Fail, EndRun, Erred
  <2>2. NoRun.pc = "none" /\ NoRun.batch = {}
    BY DEF NoRun
  <2>3. Succeed(n) =>
            /\ run[n].pc = "ok"
            /\ prev'[n] = IF IsMultiRow(Holder(n)) THEN run[n].batch ELSE {}
    BY <1>1 DEF Succeed
  <2>4. /\ GiveUp(n) => run[n].pc # "ok" /\ prev'[n] = prev[n]
        /\ Fail(n) => run[n].pc # "ok" /\ prev'[n] = {}
    BY <1>1 DEF GiveUp, Fail, Erred
  <2> QED
    BY <1>9, <2>1, <2>2, <2>3, <2>4
<1> QED
  BY <1>3, <1>4, <1>5, <1>6, <1>7, <1>8, <1>9 DEF RunStep

LEMMA RunStepOwn ==
    ASSUME RowsInv, NEW n \in Query, RunStep(n)
    PROVE  OwnIdentity' /\ BatchOfRun'
<1>1. /\ \A x \in Query : /\ InCharge(x)' <=> InCharge(x)
                          /\ Holder(x)' = Holder(x)
      /\ InCharge(n) /\ Holder(n) \in Worker
  BY RunStepHolders
<1>2. \A x \in Query \ {n} : run'[x] = run[x] /\ prev'[x] = prev[x]
  BY RunStepOthers DEF RowsInv
<1>3. OwnIdentity /\ BatchOfRun
  BY DEF RowsInv
<1>4. /\ prev'[n] # {} => IsMultiRow(Holder(n))
      /\ \A s \in prev'[n] \cup run'[n].batch : HasIdentity(s, Holder(n))
  BY <1>1, <1>3, RunStepRun, AnswersAreOwn DEF OwnIdentity
<1>5. /\ run'[n].pc \in {"none", "asking"} => run'[n].batch = {}
      /\ run'[n].pc \in {"register", "publish", "ok", "schema_mismatch"}
         /\ ~IsMultiRow(Holder(n))
         => run'[n].batch = {SingleSeries(Holder(n))}
  BY <1>1, <1>3, RunStepRun, AnswersAreOwn DEF BatchOfRun
<1>6. OwnIdentity'
  <2>1. \A x \in Query : prev'[x] # {} => InCharge(x) /\ IsMultiRow(Holder(x))
    BY <1>1, <1>2, <1>3, <1>4 DEF OwnIdentity
  <2>2. \A x \in Query : InCharge(x) =>
            \A s \in prev'[x] \cup run'[x].batch : HasIdentity(s, Holder(x))
    BY <1>2, <1>3, <1>4 DEF OwnIdentity
  <2> QED
    BY <1>1, <2>1, <2>2 DEF OwnIdentity, HasIdentity, IsMultiRow
<1>7. BatchOfRun'
  <2>1. ASSUME NEW x \in Query
        PROVE  /\ run'[x].pc \in {"none", "asking"} => run'[x].batch = {}
               /\ run'[x].pc \in {"register", "publish", "ok", "schema_mismatch"}
                  /\ ~IsMultiRow(Holder(x))
                  => run'[x].batch = {SingleSeries(Holder(x))}
    BY <1>2, <1>3, <1>5 DEF BatchOfRun
  <2> QED
    BY <1>1, <2>1 DEF BatchOfRun, IsMultiRow, SingleSeries, SeriesOf
<1> QED
  BY <1>6, <1>7

\* How the rows of the metric change in a step of a run.
LEMMA RunStepRows ==
    ASSUME RowsInv, NEW n \in Query, RunStep(n)
    PROVE  /\ \A s \in rows'[MetricOf[n]] \ rows[MetricOf[n]] : Resolves(MetricOf[n], s)
           /\ \A k \in Metric \ {MetricOf[n]} :
                  rows'[k] = rows[k] /\ Valued(k)' = Valued(k)
           /\ \/ PublishAll(n)
              \/ Valued(MetricOf[n])' = Valued(MetricOf[n])
              \/ /\ DatabaseFails(n) /\ ~IsMultiRow(Holder(n))
                 /\ Valued(MetricOf[n])'
                        = Valued(MetricOf[n]) \ {SingleSeries(Holder(n))}
              \/ /\ Fail(n)
                 /\ Valued(MetricOf[n])' = Valued(MetricOf[n]) \ prev[n]
<1>1. /\ RowsTypeOK /\ GaugesTypeOK /\ MetricOf[n] \in Metric
      /\ WorkerOf(n) = Holder(n)
  BY TypeParts, RowsAssumption, RunStepHolders DEF RowsInv
<1>2. CASE UNCHANGED <<rows, blank>>
  BY <1>1, <1>2, SameRowsFacts
<1>3. CASE PublishAll(n)
  BY <1>1, <1>3, PublishAllFacts DEF PublishAll
<1>4. CASE PublishFails(n)
  BY <1>1, <1>4, PublishFailsFacts
<1>5. CASE DatabaseFails(n)
  <2>1. \/ UNCHANGED <<rows, blank>>
        \/ /\ ~IsMultiRow(Holder(n))
           /\ DeleteRows(MetricOf[n], {SingleSeries(Holder(n))})
    BY <1>1, <1>5 DEF DatabaseFails
  <2> QED
    BY <1>1, <1>2, <1>5, <2>1, DeleteRowsFacts
<1>6. CASE Fail(n)
  <2>1. DeleteRows(MetricOf[n], prev[n])
    BY <1>6 DEF Fail
  <2> QED
    BY <1>1, <1>6, <2>1, DeleteRowsFacts
<1>7. \/ PublishAll(n) \/ PublishFails(n) \/ DatabaseFails(n) \/ Fail(n)
      \/ UNCHANGED <<rows, blank>>
  BY DEF RunStep, BeginRun, DatabaseAnswers, RegisterVec, Succeed, GiveUp,
         ExitWorker
<1> QED
  BY <1>2, <1>3, <1>4, <1>5, <1>6, <1>7

LEMMA RunStepFits ==
    ASSUME RowsInv, NEW n \in Query, RunStep(n)
    PROVE  RowsFitTheirVec'
<1>1. /\ RowsFitTheirVec /\ MetricOf[n] \in Metric
      /\ \A m \in Metric : rows[m] \subseteq Series
  BY RowsAssumption DEF RowsInv, RowsTypeOK
<1>2. \A s \in Series : s.names # NoVec
  BY RowsAssumption DEF Series
<1>3. \A m \in Metric : \A s \in rows'[m] : s.names = vec[m]
  BY <1>1, RunStepRows DEF RowsFitTheirVec, Resolves
<1>4. ASSUME NEW m \in Metric, NEW s \in rows'[m] PROVE s.names = vec'[m]
  <2>1. s.names = vec[m]
    BY <1>3, <1>4
  <2>2. CASE vec'[m] = vec[m]
    BY <2>1, <2>2
  <2>3. CASE vec'[m] # vec[m]
    <3>1. rows'[m] = rows[m] /\ vec[m] = NoVec
      BY <2>3, RunStepVec
    <3> QED
      BY <1>1, <1>2, <1>4, <2>1, <3>1
  <2> QED
    BY <2>2, <2>3
<1> QED
  BY <1>4 DEF RowsFitTheirVec

\* The worker goes on to answer for what it has shown, or it is gone.
LEMMA RunStepOwnShown ==
    ASSUME RowsInv, NEW n \in Query, RunStep(n), NEW s \in Valued(MetricOf[n])'
    PROVE  \/ s \in Shows(n)'
           \/ s \in Valued(MetricOf[n]) /\ s \notin Shows(n)
<1> DEFINE w == Holder(n)
           V == Valued(MetricOf[n])
           V1 == Valued(MetricOf[n])'
<1>1. Holder(n)' = w
  BY RunStepHolders
<1>2. Shows(n)' = IF ~IsMultiRow(w) THEN {SingleSeries(w)}
                  ELSE IF run'[n].pc = "ok" THEN run'[n].batch ELSE prev'[n]
  BY <1>1 DEF Shows, InRun, IsMultiRow, SingleSeries, SeriesOf
<1>3. Shows(n) = IF ~IsMultiRow(w) THEN {SingleSeries(w)}
                 ELSE IF run[n].pc = "ok" THEN run[n].batch ELSE prev[n]
  BY DEF Shows, InRun
<1>4. BatchOfRun /\ RowsTypeOK /\ run[n] \in Run
  BY DEF RowsInv, RowsTypeOK
<1>5. CASE PublishAll(n)
  <2>1. V1 = (V \ Stale(n)) \cup run[n].batch
    BY <1>4, <1>5, PublishAllFacts
  <2>2. run[n].pc = "publish" /\ run'[n].pc = "ok" /\ run'[n].batch = run[n].batch
    BY <1>4, <1>5 DEF PublishAll, InRun, Becomes, RowsTypeOK, Run
  <2>3. ~IsMultiRow(w) => run[n].batch = {SingleSeries(w)}
    BY <1>4, <2>2 DEF BatchOfRun
  <2>4. Stale(n) = prev[n] \ run[n].batch
    BY DEF Stale
  <2> HIDE DEF w, V
  <2>5. s \in run[n].batch \/ (s \in V /\ s \notin prev[n] /\ s \notin run[n].batch)
    BY <2>1, <2>4
  <2> QED
    BY <1>2, <1>3, <2>2, <2>3, <2>5 DEF V
<1>6. CASE ~PublishAll(n)
  <2>1. CASE Fail(n) /\ V1 = V \ prev[n]
    <3>1. run[n].pc # "ok"
      BY <2>1 DEF Fail, Erred, InRun
    <3> QED
      BY <1>2, <1>3, <2>1, <3>1
  <2>2. CASE ~IsMultiRow(w) /\ V1 \subseteq V
    BY <1>2, <1>3, <2>2
  <2>3. CASE V1 = V /\ ~Fail(n) /\ IsMultiRow(w)
    <3> DEFINE Same == IF run'[n].pc = "ok" THEN run'[n].batch ELSE prev'[n]
    <3>1. Same = IF run[n].pc = "ok" THEN run[n].batch ELSE prev[n]
      BY <1>6, <2>3, RunStepRun
    <3>2. Shows(n)' = Shows(n)
      BY <1>2, <1>3, <2>3, <3>1
    <3> QED
      BY <2>3, <3>2
  <2>4. \/ V1 = V
        \/ ~IsMultiRow(w) /\ V1 \subseteq V
        \/ Fail(n) /\ V1 = V \ prev[n]
    BY <1>6, RunStepRows
  <2>5. Fail(n) => V1 = V \ prev[n]
    <3>1. Fail(n) => DeleteRows(MetricOf[n], prev[n])
      BY DEF Fail
    <3> QED
      BY <3>1, <1>4, TypeParts, DeleteRowsFacts, RowsAssumption
  <2> QED
    BY <2>1, <2>2, <2>3, <2>4, <2>5
<1> QED
  BY <1>5, <1>6

\* What a query shows is its worker's, its run's and prevLabels' alone.
LEMMA SameShows ==
    ASSUME NEW x \in Query, Holder(x)' = Holder(x), run'[x] = run[x], prev'[x] = prev[x]
    PROVE  Shows(x)' = Shows(x)
BY DEF Shows, InRun, IsMultiRow, SingleSeries, SeriesOf

LEMMA RunStepShown ==
    ASSUME RowsInv, NEW n \in Query, RunStep(n)
    PROVE  ValuesAreShown'
<1>1. /\ \A x \in Query : InCharge(x)' <=> InCharge(x)
      /\ \A x \in Query \ {n} : Shows(x)' = Shows(x)
      /\ InCharge(n)
  BY RunStepHolders, RunStepOthers, SameShows DEF RowsInv
<1>2. ValuesAreShown
  BY DEF RowsInv
<1> SUFFICES ASSUME NEW m \in Metric, NEW s \in Valued(m)'
             PROVE  \E x \in Query :
                        MetricOf[x] = m /\ InCharge(x)' /\ s \in Shows(x)'
  BY DEF ValuesAreShown
<1>3. CASE m = MetricOf[n] /\ s \in Shows(n)'
  BY <1>1, <1>3
<1>4. CASE ~(m = MetricOf[n] /\ s \in Shows(n)')
  <2>1. s \in Valued(m) /\ (m = MetricOf[n] => s \notin Shows(n))
    BY <1>4, RunStepOwnShown, RunStepRows
  <2>2. PICK x \in Query : MetricOf[x] = m /\ InCharge(x) /\ s \in Shows(x)
    BY <1>2, <2>1 DEF ValuesAreShown
  <2> QED
    BY <1>1, <2>1, <2>2
<1> QED
  BY <1>3, <1>4

LEMMA RunStepOwned ==
    ASSUME RowsInv, NEW n \in Query, RunStep(n)
    PROVE  OwnedInv'
BY RunStepOwn, RunStepFits, RunStepShown DEF OwnedInv

-----------------------------------------------------------------------------
(* Rows, runs and what is remembered: the steps of reconcile               *)

\* A query without a worker has no run, and so no batch.
LEMMA NobodysRunIsEmpty ==
    ASSUME RowsInv, NEW x \in Query, ~InCharge(x)
    PROVE  run[x].pc = "none" /\ run[x].batch = {}
BY InRunHasHolder DEF RowsInv, BatchOfRun

LEMMA VisitsKeepOwned ==
    ASSUME RowsInv,
           \/ Reload \/ (\E d \in DB : Reconnect(d)) \/ EndReconcile
           \/ \E n \in Query : Visit(n)
    PROVE  OwnedInv'
<1>1. /\ UNCHANGED <<vec, rows, blank, run>>
      /\ \A x \in Query : InCharge(x) =>
             InCharge(x)' /\ Holder(x)' = Holder(x) /\ prev'[x] = prev[x]
      /\ \A x \in Query : ~InCharge(x) /\ InCharge(x)' => prev'[x] = {}
      /\ \A x \in Query : prev'[x] = prev[x] \/ prev'[x] = {}
  BY VisitFacts
<1>2. OwnIdentity /\ BatchOfRun /\ ValuesAreShown /\ RowsFitTheirVec
  BY DEF RowsInv
<1>3. RowsFitTheirVec'
  BY <1>1, <1>2 DEF RowsFitTheirVec
<1>4. OwnIdentity'
  <2>1. ASSUME NEW x \in Query, prev'[x] # {}
        PROVE  InCharge(x)' /\ IsMultiRow(Holder(x))'
    <3>1. InCharge(x) /\ IsMultiRow(Holder(x))
      BY <1>1, <1>2, <2>1 DEF OwnIdentity
    <3> QED
      BY <1>1, <3>1 DEF IsMultiRow
  <2>2. ASSUME NEW x \in Query, InCharge(x)', NEW s \in prev'[x] \cup run'[x].batch
        PROVE  HasIdentity(s, Holder(x))'
    <3>1. CASE InCharge(x)
      BY <1>1, <1>2, <2>2, <3>1 DEF OwnIdentity, HasIdentity
    <3>2. CASE ~InCharge(x)
      BY <1>1, <2>2, <3>2, NobodysRunIsEmpty
    <3> QED
      BY <3>1, <3>2
  <2> QED
    BY <2>1, <2>2 DEF OwnIdentity
<1>5. BatchOfRun'
  <2>1. \A x \in Query : run[x].pc # "none" => Holder(x)' = Holder(x)
    BY <1>1, NobodysRunIsEmpty
  <2> QED
    BY <1>1, <1>2, <2>1 DEF BatchOfRun, IsMultiRow, SingleSeries, SeriesOf
<1>6. ValuesAreShown'
  <2>1. \A x \in Query : InCharge(x) => Shows(x)' = Shows(x)
    BY <1>1, SameShows
  <2> QED
    BY <1>1, <1>2, <2>1, SameRowsFacts DEF ValuesAreShown
<1> QED
  BY <1>3, <1>4, <1>5, <1>6 DEF OwnedInv

\* What deleteWorkerRows takes away is what the query shows.
LEMMA OwnRowsGo ==
    ASSUME RowsInv, NEW n \in Query, InCharge(n), run[n].pc = "none",
           NEW w, w = Holder(n), DeleteWorkerRows(n, w)
    PROVE  /\ Valued(MetricOf[n])' \cap Shows(n) = {}
           /\ \A m \in Metric :
                  rows'[m] \subseteq rows[m] /\ Valued(m)' \subseteq Valued(m)
           /\ \A m \in Metric \ {MetricOf[n]} : Valued(m)' = Valued(m)
<1> DEFINE gone == IF prev[n] # {} THEN prev[n] ELSE {SingleSeries(w)}
<1>1. GaugesTypeOK /\ MetricOf[n] \in Metric /\ OwnIdentity
  BY TypeParts, RowsAssumption DEF RowsInv
<1>2. DeleteRows(MetricOf[n], gone)
  BY DEF DeleteWorkerRows
<1>3. Shows(n) \subseteq gone
  BY <1>1 DEF Shows, InRun, OwnIdentity
<1> HIDE DEF gone
<1>4. /\ rows'[MetricOf[n]] = rows[MetricOf[n]] \ gone
      /\ Valued(MetricOf[n])' = Valued(MetricOf[n]) \ gone
      /\ \A k \in Metric \ {MetricOf[n]} : rows'[k] = rows[k] /\ Valued(k)' = Valued(k)
  BY <1>1, <1>2, DeleteRowsFacts
<1>5. ASSUME NEW m \in Metric
      PROVE  rows'[m] \subseteq rows[m] /\ Valued(m)' \subseteq Valued(m)
  BY <1>4
<1> QED
  BY <1>3, <1>4, <1>5

\* Under the same schema and the same identity the same is shown.
LEMMA SameIdentity ==
    ASSUME NEW old, NEW new, ~IdentityChanged(old, new),
           new.cfg.schema = old.cfg.schema
    PROVE  /\ SingleSeries(new) = SingleSeries(old)
           /\ IsMultiRow(new) <=> IsMultiRow(old)
           /\ \A s : HasIdentity(s, new) <=> HasIdentity(s, old)
BY DEF IdentityChanged, SingleSeries, SeriesOf, IsMultiRow, HasIdentity

LEMMA JoinRestartKeepsOwned ==
    ASSUME RowsInv, JoinAndRestart
    PROVE  OwnedInv'
<1>1. PICK n : n = recWait
  OBVIOUS
<1>2. /\ n \in Query /\ Running(n) /\ InCharge(n) /\ Holder(n) = workers[n]
      /\ Holder(n)' = recThen /\ recThen \in Worker
      /\ \A x \in Query : InCharge(x)' <=> InCharge(x)
      /\ \A x \in Query \ {n} : Holder(x)' = Holder(x)
  BY <1>1, JoinRestartHolders
<1>3. /\ UNCHANGED <<vec, run>> /\ run[n].pc = "none"
      /\ recThen.cfg.schema = workers[n].cfg.schema
  <2>1. recThen # NoWorker
    BY <1>2, SentinelsAreNotValues DEF Worker, RunnableQuery
  <2> QED
    BY <1>1, <2>1, JoinedHasNoRun DEF JoinAndRestart, RowsInv, Waiting
<1>4. /\ OwnIdentity /\ BatchOfRun /\ ValuesAreShown /\ RowsFitTheirVec
      /\ prev \in [Query -> SUBSET Series]
  BY DEF RowsInv, RowsTypeOK
<1>5. run[n].batch = {}
  BY <1>2, <1>3, <1>4 DEF BatchOfRun
<1>6. BatchOfRun'
  <2>1. \A x \in Query : run[x].pc # "none" => Holder(x)' = Holder(x)
    BY <1>2, <1>3
  <2> QED
    BY <1>3, <1>4, <2>1 DEF BatchOfRun, IsMultiRow, SingleSeries, SeriesOf
<1>7. CASE IdentityChanged(workers[n], recThen)
  <2>1. DeleteWorkerRows(n, workers[n]) /\ prev' = [prev EXCEPT ![n] = {}]
    BY <1>1, <1>7 DEF JoinAndRestart
  <2>2. prev'[n] = {} /\ \A x \in Query \ {n} : prev'[x] = prev[x]
    BY <1>2, <1>4, <2>1
  <2>3. /\ Valued(MetricOf[n])' \cap Shows(n) = {}
        /\ \A m \in Metric :
               rows'[m] \subseteq rows[m] /\ Valued(m)' \subseteq Valued(m)
    BY <1>2, <1>3, <2>1, OwnRowsGo
  <2>4. RowsFitTheirVec'
    BY <1>3, <1>4, <2>3 DEF RowsFitTheirVec
  <2>5. OwnIdentity'
    BY <1>2, <1>3, <1>4, <1>5, <2>2 DEF OwnIdentity, HasIdentity, IsMultiRow
  <2>6. ValuesAreShown'
    <3>1. \A x \in Query \ {n} : Shows(x)' = Shows(x)
      BY <1>2, <1>3, <2>2, SameShows
    <3> SUFFICES ASSUME NEW m \in Metric, NEW s \in Valued(m)'
                 PROVE  \E x \in Query :
                            MetricOf[x] = m /\ InCharge(x)' /\ s \in Shows(x)'
      BY DEF ValuesAreShown
    <3>2. s \in Valued(m) /\ (m = MetricOf[n] => s \notin Shows(n))
      BY <2>3
    <3>3. PICK x \in Query : MetricOf[x] = m /\ InCharge(x) /\ s \in Shows(x)
      BY <1>4, <3>2 DEF ValuesAreShown
    <3> QED
      BY <1>2, <3>1, <3>2, <3>3
  <2> QED
    BY <1>6, <2>4, <2>5, <2>6 DEF OwnedInv
<1>8. CASE ~IdentityChanged(workers[n], recThen)
  <2>1. UNCHANGED <<rows, blank, prev>>
    BY <1>1, <1>8 DEF JoinAndRestart
  <2>2. /\ SingleSeries(recThen) = SingleSeries(workers[n])
        /\ IsMultiRow(recThen) <=> IsMultiRow(workers[n])
        /\ \A s : HasIdentity(s, recThen) <=> HasIdentity(s, workers[n])
    BY <1>3, <1>8, SameIdentity
  <2>3. RowsFitTheirVec'
    BY <1>3, <1>4, <2>1 DEF RowsFitTheirVec
  <2>4. OwnIdentity'
    <3>1. ASSUME NEW x \in Query, prev[x] # {}
          PROVE  InCharge(x)' /\ IsMultiRow(Holder(x)')
      BY <1>2, <1>4, <2>2, <3>1 DEF OwnIdentity
    <3>2. ASSUME NEW x \in Query, InCharge(x), NEW s \in prev[x] \cup run[x].batch
          PROVE  HasIdentity(s, Holder(x)')
      <4>1. HasIdentity(s, Holder(x))
        BY <1>4, <3>2 DEF OwnIdentity
      <4> QED
        BY <1>2, <2>2, <4>1
    <3> QED
      BY <1>2, <1>3, <2>1, <3>1, <3>2 DEF OwnIdentity, HasIdentity, IsMultiRow
  <2>5. ValuesAreShown'
    <3>1. \A x \in Query \ {n} : Shows(x)' = Shows(x)
      BY <1>2, <1>3, <2>1, SameShows
    <3>2. Shows(n)' = Shows(n)
      <4>1. Shows(n)' = IF ~IsMultiRow(recThen) THEN {SingleSeries(recThen)}
                        ELSE IF run[n].pc = "ok" THEN run[n].batch ELSE prev[n]
        BY <1>2, <1>3, <2>1 DEF Shows, InRun, IsMultiRow, SingleSeries, SeriesOf
      <4> QED
        BY <1>2, <2>2, <4>1 DEF Shows, InRun
    <3>3. \A x \in Query : Shows(x)' = Shows(x)
      BY <3>1, <3>2
    <3> QED
      BY <1>2, <1>4, <2>1, <3>3, SameRowsFacts DEF ValuesAreShown
  <2> QED
    BY <1>6, <2>3, <2>4, <2>5 DEF OwnedInv
<1> QED
  BY <1>7, <1>8

\* The worker that is gone takes what it shows along: alone or with the GaugeVec.
LEMMA StoppedRowsGo ==
    ASSUME RowsInv, JoinAndStop, NEW n, n = recWait
    PROVE  /\ n \in Query /\ InCharge(n) /\ run[n].pc = "none"
           /\ Valued(MetricOf[n])' \cap Shows(n) = {}
           /\ \A m \in Metric :
                  rows'[m] \subseteq rows[m] /\ Valued(m)' \subseteq Valued(m)
           /\ \A m \in Metric \ {MetricOf[n]} : Valued(m)' = Valued(m)
           /\ \A m \in Metric : vec'[m] # vec[m] => rows'[m] = {}
<1>1. /\ n \in Query /\ InCharge(n) /\ Holder(n) = recGone /\ recGone \in Worker
      /\ run[n].pc = "none" /\ MetricOf[n] \in Metric
  BY JoinStopHolders, JoinedHasNoRun, RowsAssumption DEF JoinAndStop
<1>2. GaugesTypeOK /\ vec \in [Metric -> (SUBSET LabelName) \cup {NoVec}]
  BY TypeParts DEF RowsInv, RowsTypeOK
<1>3. CASE recShared
  <2>1. DeleteWorkerRows(n, recGone) /\ UNCHANGED vec
    BY <1>3 DEF JoinAndStop
  <2> QED
    BY <1>1, <2>1, OwnRowsGo
<1>4. CASE ~recShared
  <2> DEFINE mine == MetricOf[n]
             all == rows[mine]
  <2>1. DeleteRows(mine, all) /\ vec' = [vec EXCEPT ![mine] = NoVec]
    BY <1>4 DEF JoinAndStop, UnregisterQueryMetric
  <2>2. mine \in Metric
    BY <1>1
  <2> HIDE DEF all, mine
  <2>3. /\ rows'[mine] = rows[mine] \ all /\ Valued(mine)' = Valued(mine) \ all
        /\ \A k \in Metric \ {mine} : rows'[k] = rows[k] /\ Valued(k)' = Valued(k)
    BY <1>2, <2>1, <2>2, DeleteRowsFacts
  <2>4. rows'[mine] = {} /\ Valued(mine)' = {}
    BY <2>3 DEF all, Valued
  <2>5. \A k \in Metric \ {mine} : vec'[k] = vec[k]
    BY <1>2, <2>1
  <2>6. ASSUME NEW m \in Metric
        PROVE  /\ rows'[m] \subseteq rows[m] /\ Valued(m)' \subseteq Valued(m)
               /\ vec'[m] # vec[m] => rows'[m] = {}
    BY <2>3, <2>4, <2>5
  <2> QED
    BY <1>1, <2>3, <2>4, <2>6 DEF mine
<1> QED
  BY <1>3, <1>4

LEMMA JoinStopKeepsOwned ==
    ASSUME RowsInv, JoinAndStop
    PROVE  OwnedInv'
<1>1. PICK n : n = recWait
  OBVIOUS
<1>2. /\ \A x \in Query : InCharge(x)' <=> Running(x)
      /\ \A x \in Query : Running(x) =>
             InCharge(x) /\ x # n /\ Holder(x)' = Holder(x)
      /\ \A x \in Query \ {n} : InCharge(x) <=> Running(x)
  BY <1>1, JoinStopHolders
<1>3. /\ n \in Query /\ run[n].pc = "none"
      /\ Valued(MetricOf[n])' \cap Shows(n) = {}
      /\ \A m \in Metric :
             rows'[m] \subseteq rows[m] /\ Valued(m)' \subseteq Valued(m)
      /\ \A m \in Metric : vec'[m] # vec[m] => rows'[m] = {}
  BY <1>1, StoppedRowsGo
<1>4. /\ OwnIdentity /\ BatchOfRun /\ ValuesAreShown /\ RowsFitTheirVec
      /\ prev \in [Query -> SUBSET Series]
  BY DEF RowsInv, RowsTypeOK
<1>5. UNCHANGED run /\ prev' = [prev EXCEPT ![n] = {}]
  BY <1>1 DEF JoinAndStop
<1>6. prev'[n] = {} /\ \A x \in Query \ {n} : prev'[x] = prev[x]
  BY <1>3, <1>4, <1>5
<1>7. RowsFitTheirVec'
  BY <1>3, <1>4 DEF RowsFitTheirVec
<1>8. OwnIdentity'
  <2>1. ASSUME NEW x \in Query, prev'[x] # {}
        PROVE  InCharge(x)' /\ IsMultiRow(Holder(x))'
    <3>1. InCharge(x) /\ IsMultiRow(Holder(x)) /\ x # n
      BY <1>4, <1>6, <2>1 DEF OwnIdentity
    <3> QED
      BY <1>2, <3>1 DEF IsMultiRow
  <2>2. ASSUME NEW x \in Query, InCharge(x)', NEW s \in prev'[x] \cup run'[x].batch
        PROVE  HasIdentity(s, Holder(x))'
    BY <1>2, <1>4, <1>5, <1>6, <2>2 DEF OwnIdentity, HasIdentity
  <2> QED
    BY <2>1, <2>2 DEF OwnIdentity
<1>9. BatchOfRun'
  <2>1. \A x \in Query : run[x].pc # "none" => Holder(x)' = Holder(x)
    BY <1>2, <1>3, NobodysRunIsEmpty
  <2> QED
    BY <1>4, <1>5, <2>1 DEF BatchOfRun, IsMultiRow, SingleSeries, SeriesOf
<1>10. ValuesAreShown'
  <2>1. \A x \in Query : Running(x) => Shows(x)' = Shows(x)
    BY <1>2, <1>5, <1>6, SameShows
  <2> SUFFICES ASSUME NEW m \in Metric, NEW s \in Valued(m)'
               PROVE  \E x \in Query :
                          MetricOf[x] = m /\ InCharge(x)' /\ s \in Shows(x)'
    BY DEF ValuesAreShown
  <2>2. s \in Valued(m) /\ (m = MetricOf[n] => s \notin Shows(n))
    BY <1>3
  <2>3. PICK x \in Query : MetricOf[x] = m /\ InCharge(x) /\ s \in Shows(x)
    BY <1>4, <2>2 DEF ValuesAreShown
  <2> QED
    BY <1>2, <2>1, <2>2, <2>3
<1> QED
  BY <1>7, <1>8, <1>9, <1>10 DEF OwnedInv

LEMMA ReconcileOwned ==
    ASSUME RowsInv, Reload \/ (\E d \in DB : Reconnect(d)) \/ ReconcileStep
    PROVE  OwnedInv'
BY VisitsKeepOwned, JoinRestartKeepsOwned, JoinStopKeepsOwned
   DEF ReconcileStep, Visit

-----------------------------------------------------------------------------
(* The theorems                                                            *)

LEMMA InitRowsInv ==
    ASSUME RowsInit
    PROVE  RowsInv
<1> USE DEF RowsInit, PMInit, WMInit
<1>1. \A n \in Query : ~Running(n) /\ ~InCharge(n)
  BY DEF Running, InCharge
<1>2. RowsTypeOK
  <2>1. ManagersTypeOK
    <3>1. PMTypeOK
      BY DEF PMTypeOK
    <3>2. WMTypeOK
      BY DEF WMTypeOK, NoStats, Stats
    <3>3. config \in Config
      BY DEF Config
    <3> QED
      BY <3>1, <3>2, <3>3 DEF ManagersTypeOK
  <2>2. RunsTypeOK
    BY DEF RunsTypeOK, NoRun, Run
  <2> QED
    BY <2>1, <2>2, TypeParts DEF GaugesTypeOK, RegistryTypeOK
<1>3. Threads
  BY DEF Threads, NoRun
<1>4. Waiting
  BY DEF Waiting
<1>5. RowsFitTheirVec /\ ValuesAreShown
  BY DEF RowsFitTheirVec, ValuesAreShown, Valued
<1>6. OwnIdentity /\ BatchOfRun
  BY <1>1 DEF OwnIdentity, BatchOfRun, NoRun
<1>7. VecLivesWithItsWorkers /\ HealthFollowsWorkers
  BY DEF VecLivesWithItsWorkers, HealthFollowsWorkers, NoRun
<1> QED
  BY <1>2, <1>3, <1>4, <1>5, <1>6, <1>7 DEF RowsInv

LEMMA NextKeepsRowsInv ==
    ASSUME RowsInv, [Next]_rowVars
    PROVE  RowsInv'
<1>1. RowsTypeOK'
  BY TypesAreKept
<1>2. ASSUME NEW n \in Query, RunStep(n)
      PROVE  RowsInv'
  BY <1>1, <1>2, RunStepThreads, RunStepWaiting, RunStepOwned,
     RunStepVecLives, RunStepHealth DEF RowsInv, OwnedInv
<1>3. CASE Reload \/ (\E d \in DB : Reconnect(d)) \/ ReconcileStep
  BY <1>1, <1>3, ReconcileThreads, ReconcileWaiting, ReconcileOwned,
     ReconcileVecLives, ReconcileHealth DEF RowsInv, OwnedInv
<1>4. CASE UNCHANGED rowVars
  <2>1. \A x \in Query : Shows(x)' = Shows(x)
    BY <1>4, SameShows, SameHolders
  <2>2. Threads' /\ Waiting'
    BY <1>4, SameThreads DEF RowsInv, Waiting, SharedByOthers, Running, HealthOf
  <2>3. OwnedInv'
    BY <1>4, <2>1
       DEF OwnedInv, RowsInv, RowsFitTheirVec, ValuesAreShown, OwnIdentity,
           BatchOfRun, InCharge, Holder, Running, HasIdentity, IsMultiRow,
           SingleSeries, SeriesOf, Valued
  <2>4. VecLivesWithItsWorkers' /\ HealthFollowsWorkers'
    BY <1>4
       DEF RowsInv, VecLivesWithItsWorkers, HealthFollowsWorkers, ShownFor,
           InCharge, Holder, Running, HealthOf
  <2> QED
    BY <1>1, <2>2, <2>3, <2>4 DEF RowsInv, OwnedInv
<1> QED
  BY <1>2, <1>3, <1>4 DEF Next

(***************************************************************************)
(* The inductive invariant of the rows, with its type correctness.         *)
(***************************************************************************)
THEOREM RowsInvariance == Spec => []RowsInv
BY InitRowsInv, NextKeepsRowsInv, PTL DEF Spec

(***************************************************************************)
(* A run never publishes into a GaugeVec that was unregistered under it,   *)
(* and the last worker of a metric takes the GaugeVec along                *)
(* (stopWorker: sharedByOthers).                                           *)
(***************************************************************************)
THEOREM VecsLiveWithTheirWorkers == Spec => []VecLivesWithItsWorkers
<1>1. RowsInv => VecLivesWithItsWorkers
  BY DEF RowsInv
<1> QED
  BY <1>1, RowsInvariance, PTL

(***************************************************************************)
(* The health series of a query go with its worker (README.md:470).        *)
(***************************************************************************)
THEOREM HealthGoesWithTheWorker == Spec => []HealthFollowsWorkers
<1>1. RowsInv => HealthFollowsWorkers
  BY DEF RowsInv
<1> QED
  BY <1>1, RowsInvariance, PTL

(***************************************************************************)
(* Every series with a value has a worker that knows it and will take it   *)
(* away, whatever queries share a metric or a database.                    *)
(***************************************************************************)
THEOREM NoValueWithoutOwner == Spec => []ValuesHaveOwners
<1>1. RowsInv => ValuesHaveOwners
  <2> SUFFICES ASSUME RowsInv, NEW m \in Metric, NEW s \in Valued(m)
               PROVE  \E n \in Query :
                   /\ MetricOf[n] = m /\ InCharge(n)
                   /\ HasIdentity(s, Holder(n))
                   /\ s \in prev[n] \cup run[n].batch \cup {SingleSeries(Holder(n))}
    BY DEF ValuesHaveOwners
  <2>1. PICK n \in Query : MetricOf[n] = m /\ InCharge(n) /\ s \in Shows(n)
    BY DEF RowsInv, ValuesAreShown
  <2>2. Holder(n) \in Worker
    BY <2>1, HolderIsWorker DEF RowsInv
  <2>3. \/ s \in prev[n] \cup run[n].batch
        \/ s = SingleSeries(Holder(n))
    BY <2>1 DEF Shows
  <2>4. HasIdentity(s, Holder(n))
    BY <2>1, <2>2, <2>3, SingleHasIdentity DEF RowsInv, OwnIdentity
  <2> QED
    BY <2>1, <2>3, <2>4
<1> QED
  BY <1>1, RowsInvariance, PTL
=============================================================================
