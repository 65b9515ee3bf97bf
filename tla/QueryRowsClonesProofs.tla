------------------------ MODULE QueryRowsClonesProofs ------------------------
(***************************************************************************)
(* What one clone does leaves the others what they show: the theorems      *)
(* about QueryRows for configurations in which (query, db) is unique,      *)
(* which is what ClonesStayApart says of Configs.                          *)
(***************************************************************************)
EXTENDS QueryRowsProofs

USE DEF managerVars, registryVars, rowVars, pmVars, wmVars

-----------------------------------------------------------------------------
(* Every worker is on a database of its query                              *)

AtHome ==
    /\ ConfigInForce /\ StaysHome
    /\ ~reconciling => \A n \in Query : ~NotInConfig(n)

\* A query that reconcile visits is one of a configuration that was loaded.
LEMMA VisitedIsConfigured ==
    ASSUME RowsInv, AtHome, NEW n \in recTodo
    PROVE  /\ n \in Query /\ lastQueries[n] \in QueryConfig
           /\ Wanted(n, Snap).db \in DatabasesOf(n)
           /\ Wanted(n, Snap).db # NoDB
           /\ Wanted(n, Snap).schema = lastQueries[n].schema
<1>1. /\ n \in Query /\ lastQueries[n] # NoQuery
      /\ lastQueries \in [Query -> QueryConfig \cup {NoQuery}]
  BY DEF RowsInv, Waiting, RowsTypeOK, WMTypeOK
<1>2. config \in Configs /\ config.queries[n] = lastQueries[n]
  BY <1>1 DEF AtHome, ConfigInForce
<1>3. WellFormed(config)
  BY <1>2, RowsAssumption
<1>4. Wanted(n, Snap).db = IF config.queries[n].db = NoDB
                           THEN config.defaultDB ELSE config.queries[n].db
  BY <1>1, <1>2 DEF Wanted, Snap, QueryConfig
<1>5. Wanted(n, Snap).schema = lastQueries[n].schema
  BY <1>1 DEF Wanted, QueryConfig
<1>6. Wanted(n, Snap).db # NoDB
  BY <1>1, <1>2, <1>3, <1>4 DEF WellFormed
<1>7. Wanted(n, Snap).db \in DatabasesOf(n)
  BY <1>1, <1>2, <1>4 DEF DatabasesOf
<1> QED
  BY <1>1, <1>5, <1>6, <1>7

LEMMA TargetStaysHome ==
    ASSUME RowsInv, AtHome, NEW n \in recTodo
    PROVE  Target(n, Snap).cfg.db \in DatabasesOf(n)
<1>1. Running(n) => workers[n].cfg.db \in DatabasesOf(n)
  BY VisitedIsConfigured DEF AtHome, StaysHome, InCharge, Holder
<1> QED
  BY <1>1, VisitedIsConfigured
     DEF Target, Effective, SchemaChanged, Candidate

LEMMA RunStepAtHome ==
    ASSUME AtHome, NEW n \in Query, RunStep(n)
    PROVE  AtHome'
<1>1. UNCHANGED Settings
  BY RunStepFrame
<1>2. \A x \in Query : /\ InCharge(x)' <=> InCharge(x)
                       /\ Holder(x)' = Holder(x)
  BY <1>1, SameHolders DEF Settings
<1> QED
  BY <1>1, <1>2
     DEF Settings, AtHome, ConfigInForce, StaysHome, NotInConfig, Running

LEMMA BeginAtHome ==
    ASSUME RowsInv, AtHome, Reload \/ (\E d \in DB : Reconnect(d))
    PROVE  /\ AtHome'
           /\ \A n \in Query : lastQueries'[n] # NoQuery => n \in recTodo'
<1>1. lastQueriesRevision = pmRevision /\ pmRevision \in Nat
  BY DEF AtHome, ConfigInForce, RowsInv, RowsTypeOK, PMTypeOK
<1>2. /\ UNCHANGED <<workers, recWait, recThen, recGone>>
      /\ lastQueries' = config'.queries /\ lastQueriesRevision' = pmRevision'
      /\ config' \in Configs \/ UNCHANGED config
      /\ reconciling'
      /\ recTodo' = {n \in Query : lastQueries'[n] # NoQuery}
  <2>1. CASE Reload
    <3>1. PICK c \in Configs :
              /\ ReconcileBegin(pmRevision + 1, c.queries)
              /\ config' = c /\ pmRevision' = pmRevision + 1
      BY <2>1 DEF Reload, ApplyConfig
    <3>2. ~(pmRevision + 1 < lastQueriesRevision)
      BY <1>1
    <3> QED
      BY <2>1, <3>1, <3>2 DEF Reload, ReconcileBegin
  <2>2. ASSUME NEW d \in DB, Reconnect(d)
        PROVE  <1>2!:
    <3>1. /\ ReconcileBegin(pmRevision, config.queries)
          /\ UNCHANGED <<config, pmRevision>>
      BY <2>2 DEF Reconnect, CommitReconnect
    <3>2. ~(pmRevision < lastQueriesRevision)
      BY <1>1
    <3> QED
      BY <2>2, <3>1, <3>2 DEF Reconnect, ReconcileBegin
  <2> QED
    BY <2>1, <2>2
<1>3. \A x \in Query : /\ InCharge(x)' <=> InCharge(x)
                       /\ Holder(x)' = Holder(x)
  BY <1>2, SameHolders
<1> QED
  BY <1>2, <1>3 DEF AtHome, ConfigInForce, StaysHome

LEMMA ReconcileAtHome ==
    ASSUME RowsInv, AtHome, ReconcileStep
    PROVE  AtHome'
<1>1. ASSUME UNCHANGED <<config, lastQueries, lastQueriesRevision, pmRevision, reconciling>>,
             reconciling, StaysHome'
      PROVE  AtHome'
  BY <1>1 DEF AtHome, ConfigInForce
<1>2. StaysHome
  BY DEF AtHome
<1>3. ASSUME NEW n \in Query, VisitAndPass(n) PROVE AtHome'
  <2>1. CASE ReconcileLeave(n, Snap)
    <3>1. UNCHANGED <<workers, recWait, recThen, recGone>>
      BY <1>3, <2>1 DEF VisitAndPass, ReconcileLeave
    <3>2. StaysHome'
      BY <1>2, <3>1, SameHolders DEF StaysHome
    <3> QED
      BY <1>1, <1>3, <2>1, <3>2 DEF VisitAndPass, ReconcileLeave
  <2>2. CASE ReconcileStart(n, Snap)
    <3>1. UNCHANGED <<recThen, recWait, recGone>> /\ n \in recTodo
      BY <1>3, <2>2 DEF VisitAndPass, ReconcileStart
    <3>2. Target(n, Snap).cfg.db \in DatabasesOf(n)
      BY <3>1, TargetStaysHome
    <3>3. StaysHome'
      BY <1>2, <2>2, <3>1, <3>2, StartHolders DEF StaysHome
    <3> QED
      BY <1>1, <1>3, <2>2, <3>3 DEF VisitAndPass, ReconcileStart
  <2> QED
    BY <1>3, <2>1, <2>2 DEF VisitAndPass
<1>4. ASSUME NEW n \in Query, VisitAndRestart(n) PROVE AtHome'
  <2>1. recThen' = Target(n, Snap) /\ recWait' = n /\ n \in recTodo
    BY <1>4 DEF VisitAndRestart, ReconcileRestart
  <2>2. Target(n, Snap).cfg.db \in DatabasesOf(n)
    BY <2>1, TargetStaysHome
  <2>4. StaysHome'
    BY <1>2, <1>4, <2>1, <2>2, RestartHolders DEF StaysHome
  <2> QED
    BY <1>1, <1>4, <2>4 DEF VisitAndRestart, ReconcileRestart
<1>5. ASSUME NEW n \in Query, VisitAndStop(n) PROVE AtHome'
  <2>1. StopWorker(n) /\ reconciling /\ UNCHANGED <<config, reconciling, pmRevision>>
    BY <1>5 DEF VisitAndStop, ReconcileStop, ReconcileRemove
  <2>2. StaysHome'
    BY <1>2, <1>5, <2>1, StopHolders DEF StaysHome, StopWorker
  <2> QED
    BY <1>1, <2>1, <2>2 DEF StopWorker
<1>6. CASE JoinAndRestart \/ JoinAndStop
  <2>1. PICK n : n = recWait
    OBVIOUS
  <2>2. /\ ReconcileJoin /\ reconciling
        /\ UNCHANGED <<config, reconciling, pmRevision>>
    <3>1. recWait # NoQuery
      BY <1>6 DEF JoinAndRestart, JoinAndStop, ReconcileJoin
    <3>2. reconciling
      BY <3>1 DEF RowsInv, Waiting
    <3> QED
      BY <1>6, <3>2 DEF JoinAndRestart, JoinAndStop
  <2>3. recThen' = NoWorker
    BY <2>2 DEF ReconcileJoin
  <2>4. StaysHome'
    <3>1. CASE JoinAndRestart
      <4>1. recThen # NoWorker /\ recThen.cfg.db \in DatabasesOf(n)
        <5>1. n \in Query /\ recThen \in Worker
          BY <2>1, <3>1, JoinRestartHolders
        <5> QED
          BY <1>2, <2>1, <5>1, SentinelsAreNotValues
             DEF StaysHome, Worker, RunnableQuery
      <4> QED
        BY <1>2, <2>1, <2>3, <3>1, <4>1, JoinRestartHolders DEF StaysHome
    <3>2. CASE JoinAndStop
      BY <1>2, <2>3, <3>2, JoinStopHolders DEF StaysHome
    <3> QED
      BY <1>6, <3>1, <3>2
  <2> QED
    BY <1>1, <2>2, <2>4 DEF ReconcileJoin
<1>7. CASE EndReconcile
  <2>1. /\ UNCHANGED <<pmVars, wmVars, config, recGone>>
        /\ \A n \in Query : ~NotInConfig(n)
    BY <1>7 DEF EndReconcile, ReconcileDone
  <2>2. StaysHome'
    BY <1>2, <2>1, SameHolders DEF StaysHome
  <2> QED
    BY <2>1, <2>2 DEF AtHome, ConfigInForce, NotInConfig, Running
<1> QED
  BY <1>3, <1>4, <1>5, <1>6, <1>7 DEF ReconcileStep

-----------------------------------------------------------------------------
(* Clones are told apart by their database                                 *)

\* What a query shows, remembers or has read is on its worker's database.
LEMMA ShownAtHome ==
    ASSUME RowsInv, NEW n \in Query, InCharge(n),
           NEW s \in Shows(n) \cup prev[n] \cup run[n].batch
                         \cup {SingleSeries(Holder(n))}
    PROVE  HasIdentity(s, Holder(n)) /\ s.db = Holder(n).cfg.db
<1>1. s \in prev[n] \cup run[n].batch \cup {SingleSeries(Holder(n))}
  BY DEF Shows
<1>2. Holder(n) \in Worker
  BY HolderIsWorker DEF RowsInv
<1>3. HasIdentity(s, Holder(n))
  BY <1>1, <1>2, SingleHasIdentity DEF RowsInv, OwnIdentity
<1> QED
  BY <1>3 DEF HasIdentity

LEMMA DatabasesAreApart ==
    ASSUME ClonesStayApart, NEW x \in Query, NEW y \in Query, x # y,
           MetricOf[x] = MetricOf[y],
           NEW d \in DatabasesOf(x), NEW e \in DatabasesOf(y)
    PROVE  d # e
BY DEF ClonesStayApart

\* Two clones share neither a series nor the health gauges.
LEMMA ClonesShareNothing ==
    ASSUME ClonesStayApart, RowsInv, StaysHome,
           NEW x \in Query, NEW y \in Query, x # y,
           MetricOf[x] = MetricOf[y], InCharge(x), InCharge(y)
    PROVE  /\ Holder(x).cfg.db # Holder(y).cfg.db
           /\ \A s \in Shows(x) \cup prev[x] \cup run[x].batch
                           \cup {SingleSeries(Holder(x))} :
                  s \notin Shows(y) /\ ~HasIdentity(s, Holder(y))
<1>1. Holder(x).cfg.db # Holder(y).cfg.db
  BY DatabasesAreApart DEF StaysHome
<1> QED
  BY <1>1, ShownAtHome DEF HasIdentity

LEMMA HealthIsApart ==
    ASSUME ClonesStayApart, RowsInv, StaysHome,
           NEW x \in Query, NEW y \in Query, x # y, InCharge(x), InCharge(y)
    PROVE  HealthOf(x, Holder(x)) # HealthOf(y, Holder(y))
BY ClonesShareNothing DEF HealthOf

\* A gauge that is there on a database of a query is this query's own.
LEMMA GaugeIsOwn ==
    ASSUME ClonesStayApart, RowsInv, StaysHome,
           NEW n \in Query, NEW w \in Worker, w.cfg.db \in DatabasesOf(n),
           \/ up[HealthOf(n, w)] # "absent"
           \/ HealthOf(n, w) \in conflict
    PROVE  InCharge(n) /\ Holder(n).cfg.db = w.cfg.db
<1>1. HealthOf(n, w) \in Metric \X DB
  BY HealthIsOne
<1>2. PICK y \in Query : InCharge(y) /\ HealthOf(n, w) = HealthOf(y, Holder(y))
  BY <1>1 DEF RowsInv, HealthFollowsWorkers, ShownFor
<1>3. MetricOf[y] = MetricOf[n] /\ Holder(y).cfg.db = w.cfg.db
  BY <1>2 DEF HealthOf
<1>4. y = n
  BY <1>2, <1>3, DatabasesAreApart DEF StaysHome
<1> QED
  BY <1>2, <1>3, <1>4

-----------------------------------------------------------------------------
(* The steps of a run                                                      *)

\* What a query with several rows shows changes with a publication of all
\* rows and with a failure.
LEMMA RunStepShows ==
    ASSUME RowsInv, NEW n \in Query, RunStep(n)
    PROVE  /\ \A x \in Query \ {n} : Shows(x)' = Shows(x)
           /\ ~IsMultiRow(Holder(n)) => Shows(n)' = Shows(n)
           /\ IsMultiRow(Holder(n)) =>
                  \/ PublishAll(n) /\ Shows(n)' = run[n].batch
                  \/ Fail(n) /\ Shows(n)' = {}
                  \/ ~PublishAll(n) /\ ~Fail(n) /\ Shows(n)' = Shows(n)
<1>1. /\ \A x \in Query : Holder(x)' = Holder(x)
      /\ \A x \in Query \ {n} : run'[x] = run[x] /\ prev'[x] = prev[x]
  BY RunStepHolders, RunStepOthers DEF RowsInv
<1>2. \A x \in Query \ {n} : Shows(x)' = Shows(x)
  BY <1>1, SameShows
<1> DEFINE w == Holder(n)
<1>3. Shows(n)' = IF ~IsMultiRow(w) THEN {SingleSeries(w)}
                  ELSE IF run'[n].pc = "ok" THEN run'[n].batch ELSE prev'[n]
  BY <1>1 DEF Shows, InRun, IsMultiRow, SingleSeries, SeriesOf
<1>4. Shows(n) = IF ~IsMultiRow(w) THEN {SingleSeries(w)}
                 ELSE IF run[n].pc = "ok" THEN run[n].batch ELSE prev[n]
  BY DEF Shows, InRun
<1>5. CASE PublishAll(n)
  <2>1. run'[n].pc = "ok" /\ run'[n].batch = run[n].batch
    BY <1>5 DEF PublishAll, Becomes, RowsInv, RowsTypeOK, Run
  <2> QED
    BY <1>2, <1>3, <1>4, <1>5, <2>1
<1>6. CASE Fail(n)
  <2>1. prev'[n] = {} /\ run'[n].pc = "none"
    BY <1>6 DEF Fail, EndRun, NoRun, RowsInv, RowsTypeOK
  <2> QED
    BY <1>2, <1>3, <1>4, <1>6, <2>1
<1>7. CASE ~PublishAll(n) /\ ~Fail(n)
  <2> HIDE DEF w
  <2>1. IsMultiRow(w) =>
            (IF run'[n].pc = "ok" THEN run'[n].batch ELSE prev'[n])
                = (IF run[n].pc = "ok" THEN run[n].batch ELSE prev[n])
    BY <1>7, RunStepRun DEF w
  <2> QED
    BY <1>2, <1>3, <1>4, <1>7, <2>1 DEF w
<1> QED
  BY <1>5, <1>6, <1>7

\* A run takes values away that it owns and adds those of its batch.
LEMMA RunStepValues ==
    ASSUME RowsInv, NEW n \in Query, RunStep(n)
    PROVE  /\ \A k \in Metric \ {MetricOf[n]} : Valued(k)' = Valued(k)
           /\ \A s \in Valued(MetricOf[n])' \ Valued(MetricOf[n]) :
                  PublishAll(n) /\ s \in run[n].batch
           /\ \A s \in Valued(MetricOf[n]) \ Valued(MetricOf[n])' :
                  s \in prev[n] \cup {SingleSeries(Holder(n))}
<1>1. CASE PublishAll(n)
  <2>1. Valued(MetricOf[n])' = (Valued(MetricOf[n]) \ Stale(n)) \cup run[n].batch
    BY <1>1, PublishAllFacts DEF RowsInv
  <2> QED
    BY <1>1, <2>1, RunStepRows DEF Stale
<1>2. CASE ~PublishAll(n)
  BY <1>2, RunStepRows
<1> QED
  BY <1>1, <1>2

LEMMA RunStepShownIsThere ==
    ASSUME ClonesStayApart, RowsInv, StaysHome, ShownIsThere,
           NEW n \in Query, RunStep(n)
    PROVE  ShownIsThere'
<1>1. /\ \A x \in Query : /\ InCharge(x)' <=> InCharge(x)
                          /\ Holder(x)' = Holder(x)
      /\ InCharge(n)
  BY RunStepHolders
<1> SUFFICES ASSUME NEW x \in Query, InCharge(x), IsMultiRow(Holder(x))
             PROVE  Shows(x)' \subseteq Valued(MetricOf[x])'
  BY <1>1 DEF ShownIsThere, IsMultiRow
<1>2. Shows(x) \subseteq Valued(MetricOf[x]) /\ MetricOf[x] \in Metric
  BY RowsAssumption DEF ShownIsThere
<1>3. CASE x # n
  <2>1. Shows(x)' = Shows(x)
    BY <1>3, RunStepShows
  <2>2. CASE MetricOf[x] # MetricOf[n]
    BY <1>2, <2>1, <2>2, RunStepValues
  <2>3. CASE MetricOf[x] = MetricOf[n]
    <3>1. \A s \in prev[n] \cup {SingleSeries(Holder(n))} : s \notin Shows(x)
      BY <1>1, <1>3, <2>3, ClonesShareNothing
    <3> QED
      BY <1>2, <2>1, <2>3, <3>1, RunStepValues
  <2> QED
    BY <2>2, <2>3
<1>4. CASE x = n
  <2>1. CASE PublishAll(n)
    <3>1. Valued(MetricOf[n])' = (Valued(MetricOf[n]) \ Stale(n)) \cup run[n].batch
      BY <2>1, PublishAllFacts DEF RowsInv
    <3>2. ~Fail(n)
      BY <2>1 DEF PublishAll, Fail, Erred, InRun
    <3> QED
      BY <1>4, <2>1, <3>1, <3>2, RunStepShows
  <2>2. CASE Fail(n)
    BY <1>4, <2>2, RunStepShows DEF PublishAll, Fail, Erred, InRun
  <2>3. CASE ~PublishAll(n) /\ ~Fail(n)
    <3>1. Shows(n)' = Shows(n)
      BY <1>4, <2>3, RunStepShows
    <3>2. Valued(MetricOf[n])' = Valued(MetricOf[n])
      BY <1>4, <2>3, RunStepRows
    <3> QED
      BY <1>2, <1>4, <3>1, <3>2
  <2> QED
    BY <2>1, <2>2, <2>3
<1> QED
  BY <1>3, <1>4

\* The only row of a query whose publication was refused is not there.
LEMMA RefusedIsNotThere ==
    ASSUME RowsInv, NEW n \in Query, RunStep(n), ~IsMultiRow(Holder(n)),
           run[n].pc \in {"asking", "register", "publish"},
           Erred(n)'
    PROVE  SingleSeries(Holder(n)) \notin Valued(MetricOf[n])'
<1> DEFINE s == SingleSeries(Holder(n))
           m == MetricOf[n]
<1>1. /\ s \in Series /\ s.row = NoRow /\ m \in Metric
      /\ WorkerOf(n) = Holder(n) /\ run[n] \in Run
      /\ run \in [Query -> Run] /\ RowsTypeOK
  BY RunStepHolders, SingleHasIdentity, RowsAssumption DEF RowsInv, RowsTypeOK
<1>2. s.names # NoVec /\ s.row \notin BadRow
  BY <1>1, RowsAssumption DEF Series
<1>3. run'[n].pc \in {"db_error", "schema_mismatch"}
  BY DEF Erred, InRun
<1>4. s \in Valued(m)' => s \in rows'[m]
  BY DEF Valued
<1> HIDE DEF s, m
<1>5. CASE DatabaseFails(n)
  <2>1. DeleteRows(m, {s})
    BY <1>1, <1>5 DEF DatabaseFails, s, m
  <2> QED
    BY <1>1, <2>1, TypeParts, DeleteRowsFacts DEF s, m
<1>6. CASE RegisterVec(n)
  <2>1. vec[m] = NoVec /\ UNCHANGED rows
    BY <1>1, <1>3, <1>6 DEF RegisterVec, Becomes, Run, m
  <2>2. s \notin rows[m]
    BY <1>1, <1>2, <2>1 DEF RowsInv, RowsFitTheirVec
  <2> QED
    BY <1>4, <2>1, <2>2 DEF s, m
<1>7. CASE PublishFails(n)
  <2>1. run[n].batch = {s}
    BY <1>7 DEF PublishFails, InRun, RowsInv, BatchOfRun, s
  <2>2. ~Resolves(m, s)
    BY <1>7, <2>1 DEF PublishFails, m
  <2>3. s \notin rows[m]
    BY <1>1, <1>2, <2>2 DEF Resolves, RowsInv, RowsFitTheirVec
  <2>4. s \notin rows'[m]
    BY <1>1, <1>7, <2>2, <2>3, PublishFailsFacts DEF m
  <2> QED
    BY <1>4, <2>4 DEF s, m
<1>8. DatabaseFails(n) \/ RegisterVec(n) \/ PublishFails(n)
  <2>1. ~DatabaseAnswers(n) /\ ~PublishAll(n)
    <3>1. DatabaseAnswers(n) => run'[n].pc = "register"
      BY <1>1, AnswersAreOwn, RunStepHolders DEF DatabaseAnswers
    <3>2. PublishAll(n) => run'[n].pc = "ok"
      BY <1>1 DEF PublishAll, Becomes, Run
    <3> QED
      BY <1>3, <3>1, <3>2
  <2>2. ~BeginRun(n) /\ ~ExitWorker(n)
    <3>1. BeginRun(n) => run'[n].pc = "asking"
      BY <1>1 DEF BeginRun, Becomes, Run
    <3>2. ExitWorker(n) => run'[n] = run[n]
      BY DEF ExitWorker
    <3> QED
      BY <1>3, <3>1, <3>2
  <2>3. ~Succeed(n) /\ ~GiveUp(n) /\ ~Fail(n)
    BY DEF Succeed, GiveUp, Fail, Erred, InRun
  <2> QED
    BY <2>1, <2>2, <2>3 DEF RunStep
<1> QED
  BY <1>5, <1>6, <1>7, <1>8 DEF s, m

\* Only the end of a run says that a query is up or down.
LEMMA RunStepUp ==
    ASSUME RowsInv, NEW n \in Query, RunStep(n)
    PROVE  /\ HealthOf(n, Holder(n)) \in Metric \X DB
           /\ \A md \in Metric \X DB :
                  md # HealthOf(n, Holder(n)) => up'[md] = up[md]
           /\ up'[HealthOf(n, Holder(n))] = "down" =>
                  \/ Fail(n)
                  \/ ~Succeed(n) /\ up[HealthOf(n, Holder(n))] = "down"
<1>1. /\ Holder(n) \in Worker /\ WorkerOf(n) = Holder(n)
      /\ up \in [Metric \X DB -> {"absent", "up", "down"}]
  BY RunStepHolders DEF RowsInv, RowsTypeOK
<1>2. HealthOf(n, Holder(n)) \in Metric \X DB
  BY <1>1, HealthIsOne
<1>3. Succeed(n) => up'[HealthOf(n, Holder(n))] = "up"
  BY <1>1, <1>2 DEF Succeed
<1>4. ~(Succeed(n) \/ Fail(n)) => UNCHANGED up
  BY DEF RunStep, BeginRun, DatabaseAnswers, DatabaseFails, RegisterVec,
         PublishAll, PublishFails, GiveUp, ExitWorker
<1> QED
  BY <1>2, <1>3, <1>4, RunStepHealth

LEMMA RunStepDownShowsNothing ==
    ASSUME ClonesStayApart, RowsInv, StaysHome, DownShowsNothing,
           NEW n \in Query, RunStep(n)
    PROVE  DownShowsNothing'
<1>1. /\ \A x \in Query : /\ InCharge(x)' <=> InCharge(x)
                          /\ Holder(x)' = Holder(x)
      /\ InCharge(n)
  BY RunStepHolders
<1> SUFFICES ASSUME NEW x \in Query, InCharge(x),
                    \/ up'[HealthOf(x, Holder(x))] = "down" /\ ~InRun(x, "ok")'
                    \/ ~IsMultiRow(Holder(x)) /\ Erred(x)'
             PROVE  Shows(x)' \cap Valued(MetricOf[x])' = {}
  BY <1>1 DEF DownShowsNothing, HealthOf, IsMultiRow
<1>2. CASE x # n
  <2>1. /\ Shows(x)' = Shows(x)
        /\ InRun(x, "ok")' <=> InRun(x, "ok")
        /\ Erred(x)' <=> Erred(x)
    BY <1>2, RunStepShows, RunStepOthers DEF InRun, Erred, RowsInv
  <2>2. up'[HealthOf(x, Holder(x))] = up[HealthOf(x, Holder(x))]
    <3>1. HealthOf(x, Holder(x)) \in Metric \X DB
      BY HealthIsOne, HolderIsWorker DEF RowsInv
    <3> QED
      BY <1>1, <1>2, <3>1, HealthIsApart, RunStepUp
  <2>3. Shows(x) \cap Valued(MetricOf[x]) = {}
    BY <2>1, <2>2 DEF DownShowsNothing
  <2>4. CASE MetricOf[x] # MetricOf[n]
    BY <2>1, <2>3, <2>4, RunStepValues, RowsAssumption
  <2>5. CASE MetricOf[x] = MetricOf[n]
    <3>1. \A s \in run[n].batch : s \notin Shows(x)
      BY <1>1, <1>2, <2>5, ClonesShareNothing
    <3> QED
      BY <2>1, <2>3, <2>5, <3>1, RunStepValues
  <2> QED
    BY <2>4, <2>5
<1>3. CASE x = n
  <2>1. ~PublishAll(n)
    <3>1. PublishAll(n) => run'[n].pc = "ok"
      BY DEF PublishAll, Becomes, RowsInv, RowsTypeOK, Run
    <3> QED
      BY <1>3, <3>1 DEF InRun, Erred
  <2>2. Valued(MetricOf[n])' \subseteq Valued(MetricOf[n])
    BY <2>1, RunStepValues
  <2>3. CASE ~IsMultiRow(Holder(n)) /\ Erred(n)'
    <3>1. Shows(n)' = {SingleSeries(Holder(n))}
      BY <2>3, RunStepShows DEF Shows
    <3>2. run[n].pc \in {"asking", "register", "publish"}
      BY <2>3, RunStepRun DEF Erred, InRun
    <3> QED
      BY <1>3, <2>3, <3>1, <3>2, RefusedIsNotThere
  <2>4. CASE Fail(n)
    <3>1. CASE IsMultiRow(Holder(n))
      <4>1. Shows(n)' = {}
        BY <2>4, <3>1, RunStepShows DEF PublishAll, Fail, Erred, InRun
      <4> QED
        BY <1>3, <4>1
    <3>2. CASE ~IsMultiRow(Holder(n))
      <4>1. Shows(n) \cap Valued(MetricOf[n]) = {}
        BY <1>1, <2>4, <3>2 DEF Fail, DownShowsNothing
      <4> QED
        BY <1>3, <2>2, <3>2, <4>1, RunStepShows
    <3> QED
      BY <3>1, <3>2
  <2>5. CASE ~Fail(n) /\ ~(~IsMultiRow(Holder(n)) /\ Erred(n)')
    <3>1. /\ up[HealthOf(n, Holder(n))] = "down" /\ ~Succeed(n)
          /\ ~InRun(n, "ok")'
      BY <1>3, <2>5, RunStepUp
    <3>2. run[n].pc # "ok"
      BY <3>1, RunStepRun
    <3>3. Shows(n) \cap Valued(MetricOf[n]) = {}
      BY <1>1, <3>1, <3>2 DEF DownShowsNothing, InRun
    <3>4. Shows(n)' = Shows(n)
      BY <2>1, <2>5, RunStepShows
    <3> QED
      BY <1>3, <2>2, <3>3, <3>4
  <2> QED
    BY <2>3, <2>4, <2>5
<1> QED
  BY <1>2, <1>3

\* The decisions about conflicts are reconcile's.
LEMMA RunStepConflicts ==
    ASSUME ConflictIsDecided, NextHasWantedSchema, NEW n \in Query, RunStep(n)
    PROVE  ConflictIsDecided' /\ NextHasWantedSchema'
<1>1. UNCHANGED <<Settings, conflict>>
  BY RunStepFrame
<1> QED
  BY <1>1
     DEF Settings, ConflictIsDecided, NextHasWantedSchema, Running, IsPending,
         Wanted, Snap, PendingDBs, HealthOf

-----------------------------------------------------------------------------
(* The steps of reconcile: rows                                            *)

\* deleteWorkerRows takes nothing but the worker's own.
LEMMA OwnRowsOnly ==
    ASSUME RowsInv, NEW n \in Query, NEW w, w = Holder(n), DeleteWorkerRows(n, w)
    PROVE  /\ \A k \in Metric \ {MetricOf[n]} : Valued(k)' = Valued(k)
           /\ Valued(MetricOf[n])' \subseteq Valued(MetricOf[n])
           /\ \A s \in Valued(MetricOf[n]) \ Valued(MetricOf[n])' :
                  s \in prev[n] \cup {SingleSeries(Holder(n))}
<1> DEFINE gone == IF prev[n] # {} THEN prev[n] ELSE {SingleSeries(w)}
<1>1. GaugesTypeOK /\ MetricOf[n] \in Metric
  BY TypeParts, RowsAssumption DEF RowsInv
<1>2. DeleteRows(MetricOf[n], gone)
  BY DEF DeleteWorkerRows
<1>3. gone \subseteq prev[n] \cup {SingleSeries(Holder(n))}
  OBVIOUS
<1> HIDE DEF gone
<1>4. /\ Valued(MetricOf[n])' = Valued(MetricOf[n]) \ gone
      /\ \A k \in Metric \ {MetricOf[n]} : Valued(k)' = Valued(k)
  BY <1>1, <1>2, DeleteRowsFacts
<1> QED
  BY <1>3, <1>4

\* A restart keeps what is shown, or starts with nothing.
LEMMA JoinRestartShows ==
    ASSUME RowsInv, JoinAndRestart, NEW n, n = recWait
    PROVE  /\ n \in Query /\ InCharge(n) /\ run[n].pc = "none" /\ UNCHANGED run
           /\ \A x \in Query \ {n} : Shows(x)' = Shows(x)
           /\ IsMultiRow(recThen) <=> IsMultiRow(Holder(n))
           /\ \A k \in Metric \ {MetricOf[n]} : Valued(k)' = Valued(k)
           /\ Valued(MetricOf[n])' \subseteq Valued(MetricOf[n])
           /\ \A s \in Valued(MetricOf[n]) \ Valued(MetricOf[n])' :
                  s \in prev[n] \cup {SingleSeries(Holder(n))}
           /\ IF IdentityChanged(workers[n], recThen)
              THEN IsMultiRow(recThen) => Shows(n)' = {}
              ELSE /\ Shows(n)' = Shows(n)
                   /\ Valued(MetricOf[n])' = Valued(MetricOf[n])
<1>1. /\ n \in Query /\ InCharge(n) /\ Holder(n) = workers[n]
      /\ Holder(n)' = recThen /\ recThen \in Worker
      /\ \A x \in Query \ {n} : Holder(x)' = Holder(x)
      /\ MetricOf[n] \in Metric /\ prev \in [Query -> SUBSET Series]
  BY JoinRestartHolders, RowsAssumption DEF RowsInv, RowsTypeOK
<1>2. /\ UNCHANGED run /\ run[n].pc = "none"
      /\ recThen.cfg.schema = workers[n].cfg.schema
  <2>1. recThen # NoWorker
    BY <1>1, SentinelsAreNotValues DEF Worker, RunnableQuery
  <2> QED
    BY <2>1, JoinedHasNoRun DEF JoinAndRestart, RowsInv, Waiting
<1>3. IsMultiRow(recThen) <=> IsMultiRow(Holder(n))
  BY <1>1, <1>2 DEF IsMultiRow
<1>4. Shows(n)' = IF ~IsMultiRow(recThen) THEN {SingleSeries(recThen)} ELSE prev'[n]
  BY <1>1, <1>2 DEF Shows, InRun, IsMultiRow, SingleSeries, SeriesOf
<1>5. CASE IdentityChanged(workers[n], recThen)
  <2>1. DeleteWorkerRows(n, workers[n]) /\ prev' = [prev EXCEPT ![n] = {}]
    BY <1>5 DEF JoinAndRestart
  <2>2. prev'[n] = {} /\ \A x \in Query \ {n} : prev'[x] = prev[x]
    BY <1>1, <2>1
  <2>3. \A x \in Query \ {n} : Shows(x)' = Shows(x)
    BY <1>1, <1>2, <2>2, SameShows
  <2>4. /\ \A k \in Metric \ {MetricOf[n]} : Valued(k)' = Valued(k)
        /\ Valued(MetricOf[n])' \subseteq Valued(MetricOf[n])
        /\ \A s \in Valued(MetricOf[n]) \ Valued(MetricOf[n])' :
               s \in prev[n] \cup {SingleSeries(Holder(n))}
    BY <1>1, <2>1, OwnRowsOnly
  <2> QED
    BY <1>1, <1>2, <1>3, <1>4, <1>5, <2>2, <2>3, <2>4
<1>6. CASE ~IdentityChanged(workers[n], recThen)
  <2>1. UNCHANGED <<rows, blank, prev>>
    BY <1>6 DEF JoinAndRestart
  <2>2. \A x \in Query \ {n} : Shows(x)' = Shows(x)
    BY <1>1, <1>2, <2>1, SameShows
  <2>3. SingleSeries(recThen) = SingleSeries(workers[n])
    BY <1>2, <1>6, SameIdentity
  <2>4. Shows(n)' = Shows(n)
    BY <1>1, <1>2, <1>3, <1>4, <2>1, <2>3 DEF Shows, InRun
  <2> QED
    BY <1>1, <1>2, <1>3, <1>6, <2>1, <2>2, <2>4, SameRowsFacts
<1> QED
  BY <1>5, <1>6

\* The end of a stop leaves to the other workers what they show.
LEMMA JoinStopShows ==
    ASSUME RowsInv, JoinAndStop, NEW n, n = recWait
    PROVE  /\ n \in Query /\ InCharge(n) /\ UNCHANGED run
           /\ \A x \in Query : InCharge(x)' <=> Running(x)
           /\ \A x \in Query : Running(x) =>
                  /\ x # n /\ InCharge(x) /\ Holder(x)' = Holder(x)
                  /\ Holder(x) = workers[x] /\ Shows(x)' = Shows(x)
           /\ \A k \in Metric \ {MetricOf[n]} : Valued(k)' = Valued(k)
           /\ Valued(MetricOf[n])' \subseteq Valued(MetricOf[n])
           /\ (\E x \in Query : Running(x) /\ MetricOf[x] = MetricOf[n]) =>
                  \A s \in Valued(MetricOf[n]) \ Valued(MetricOf[n])' :
                      s \in prev[n] \cup {SingleSeries(Holder(n))}
<1>1. /\ \A x \in Query : InCharge(x)' <=> Running(x)
      /\ \A x \in Query : Running(x) =>
             /\ x # n /\ InCharge(x)
             /\ Holder(x) = workers[x] /\ Holder(x)' = Holder(x)
      /\ Holder(n) = recGone /\ recShared = SharedByOthers(n)
  BY JoinStopHolders
<1>2. /\ n \in Query /\ InCharge(n) /\ MetricOf[n] \in Metric
      /\ Valued(MetricOf[n])' \subseteq Valued(MetricOf[n])
      /\ \A k \in Metric \ {MetricOf[n]} : Valued(k)' = Valued(k)
  BY StoppedRowsGo, RowsAssumption
<1>3. UNCHANGED run /\ \A x \in Query \ {n} : prev'[x] = prev[x]
  BY <1>2 DEF JoinAndStop, RowsInv, RowsTypeOK
<1>4. \A x \in Query : Running(x) => Shows(x)' = Shows(x)
  BY <1>1, <1>3, SameShows
<1>5. ASSUME NEW x \in Query, Running(x), MetricOf[x] = MetricOf[n]
      PROVE  \A s \in Valued(MetricOf[n]) \ Valued(MetricOf[n])' :
                 s \in prev[n] \cup {SingleSeries(Holder(n))}
  <2>1. recShared
    BY <1>1, <1>5 DEF SharedByOthers
  <2>2. DeleteWorkerRows(n, recGone)
    BY <2>1 DEF JoinAndStop
  <2> QED
    BY <1>1, <1>2, <2>2, OwnRowsOnly
<1> QED
  BY <1>1, <1>2, <1>3, <1>4, <1>5

LEMMA ReconcileShownIsThere ==
    ASSUME ClonesStayApart, RowsInv, StaysHome, ShownIsThere,
           Reload \/ (\E d \in DB : Reconnect(d)) \/ ReconcileStep
    PROVE  ShownIsThere'
<1>1. ASSUME NEW n \in Query, NEW x \in Query, x # n, InCharge(x), InCharge(n),
             IsMultiRow(Holder(x)), Shows(x)' = Shows(x),
             \A k \in Metric \ {MetricOf[n]} : Valued(k)' = Valued(k),
             MetricOf[x] = MetricOf[n] =>
                 \A s \in Valued(MetricOf[n]) \ Valued(MetricOf[n])' :
                     s \in prev[n] \cup {SingleSeries(Holder(n))}
      PROVE  Shows(x)' \subseteq Valued(MetricOf[x])'
  <2>1. Shows(x) \subseteq Valued(MetricOf[x]) /\ MetricOf[x] \in Metric
    BY <1>1, RowsAssumption DEF ShownIsThere
  <2>2. CASE MetricOf[x] # MetricOf[n]
    BY <1>1, <2>1, <2>2
  <2>3. CASE MetricOf[x] = MetricOf[n]
    <3>1. \A s \in prev[n] \cup {SingleSeries(Holder(n))} : s \notin Shows(x)
      BY <1>1, <2>3, ClonesShareNothing
    <3> QED
      BY <1>1, <2>1, <2>3, <3>1
  <2> QED
    BY <2>2, <2>3
<1>2. CASE \/ Reload \/ (\E d \in DB : Reconnect(d)) \/ EndReconcile
           \/ \E n \in Query : Visit(n)
  <2>1. /\ UNCHANGED <<rows, blank, run>>
        /\ \A x \in Query : InCharge(x) =>
               InCharge(x)' /\ Holder(x)' = Holder(x) /\ prev'[x] = prev[x]
        /\ \A x \in Query : ~InCharge(x) /\ InCharge(x)' => prev'[x] = {}
    BY <1>2, VisitFacts
  <2> SUFFICES ASSUME NEW x \in Query, InCharge(x)', IsMultiRow(Holder(x))'
               PROVE  Shows(x)' \subseteq Valued(MetricOf[x])'
    BY DEF ShownIsThere
  <2>2. CASE InCharge(x)
    <3>1. Shows(x)' = Shows(x) /\ IsMultiRow(Holder(x))
      BY <2>1, <2>2, SameShows DEF IsMultiRow
    <3> QED
      BY <2>1, <2>2, <3>1, SameRowsFacts, RowsAssumption DEF ShownIsThere
  <2>3. CASE ~InCharge(x)
    <3>1. run[x].pc = "none" /\ prev'[x] = {}
      BY <2>1, <2>3, NobodysRunIsEmpty
    <3>2. Shows(x)' = {}
      BY <2>1, <3>1 DEF Shows, InRun
    <3> QED
      BY <3>2
  <2> QED
    BY <2>2, <2>3
<1>3. CASE JoinAndRestart
  <2>1. PICK n : n = recWait
    OBVIOUS
  <2>2. /\ \A x \in Query : InCharge(x)' <=> InCharge(x)
        /\ Holder(n)' = recThen
        /\ \A x \in Query \ {n} : Holder(x)' = Holder(x)
    BY <1>3, <2>1, JoinRestartHolders
  <2>3. n \in Query /\ InCharge(n) /\ MetricOf[n] \in Metric
    BY <1>3, <2>1, JoinRestartShows, RowsAssumption
  <2> SUFFICES ASSUME NEW x \in Query, InCharge(x), IsMultiRow(Holder(x))'
               PROVE  Shows(x)' \subseteq Valued(MetricOf[x])'
    BY <2>2 DEF ShownIsThere
  <2>4. CASE x # n
    <3>1. IsMultiRow(Holder(x))
      BY <2>2, <2>4 DEF IsMultiRow
    <3> QED
      BY <1>1, <1>3, <2>1, <2>3, <2>4, <3>1, JoinRestartShows
  <2>5. CASE x = n
    <3>1. IsMultiRow(recThen) /\ IsMultiRow(Holder(n))
      BY <1>3, <2>1, <2>2, <2>5, JoinRestartShows DEF IsMultiRow
    <3>2. CASE IdentityChanged(workers[n], recThen)
      BY <1>3, <2>1, <2>5, <3>1, <3>2, JoinRestartShows
    <3>3. CASE ~IdentityChanged(workers[n], recThen)
      <4>1. /\ Shows(n)' = Shows(n)
            /\ Valued(MetricOf[n])' = Valued(MetricOf[n])
        BY <1>3, <2>1, <3>3, JoinRestartShows
      <4>2. Shows(n) \subseteq Valued(MetricOf[n])
        BY <2>3, <3>1 DEF ShownIsThere
      <4> QED
        BY <2>5, <4>1, <4>2
    <3> QED
      BY <3>2, <3>3
  <2> QED
    BY <2>4, <2>5
<1>4. CASE JoinAndStop
  <2>1. PICK n : n = recWait
    OBVIOUS
  <2>2. /\ n \in Query /\ InCharge(n)
        /\ \A x \in Query : InCharge(x)' <=> Running(x)
        /\ \A x \in Query : Running(x) =>
               /\ x # n /\ InCharge(x) /\ Holder(x)' = Holder(x)
               /\ Shows(x)' = Shows(x)
    BY <1>4, <2>1, JoinStopShows
  <2> SUFFICES ASSUME NEW x \in Query, Running(x), IsMultiRow(Holder(x))'
               PROVE  Shows(x)' \subseteq Valued(MetricOf[x])'
    BY <2>2 DEF ShownIsThere
  <2>3. IsMultiRow(Holder(x))
    BY <2>2 DEF IsMultiRow
  <2> QED
    BY <1>1, <1>4, <2>1, <2>2, <2>3, JoinStopShows
<1> QED
  BY <1>2, <1>3, <1>4 DEF ReconcileStep, Visit

-----------------------------------------------------------------------------
(* The steps of reconcile: gauges                                          *)

\* The successor of a worker has its gauges only on the same database.
LEMMA SuccessorsGauges ==
    ASSUME ClonesStayApart, RowsInv, StaysHome, JoinAndRestart, NEW n, n = recWait
    PROVE  /\ n \in Query /\ recThen \in Worker /\ Holder(n) = workers[n]
           /\ HealthOf(n, recThen) \in Metric \X DB
           /\ HealthOf(n, recThen) \notin conflict
           /\ up[HealthOf(n, recThen)] # "absent" =>
                  HealthOf(n, recThen) = HealthOf(n, workers[n])
<1>1. /\ n \in Query /\ recThen \in Worker /\ Holder(n) = workers[n]
      /\ HealthOf(n, workers[n]) \notin conflict
  BY JoinRestartHolders, JoinRestartHealth
<1>2. recThen.cfg.db \in DatabasesOf(n)
  <2>1. recThen # NoWorker
    BY <1>1, SentinelsAreNotValues DEF Worker, RunnableQuery
  <2> QED
    BY <1>1, <2>1 DEF StaysHome
<1>3. \/ up[HealthOf(n, recThen)] # "absent"
      \/ HealthOf(n, recThen) \in conflict
      => HealthOf(n, recThen) = HealthOf(n, workers[n])
  BY <1>1, <1>2, GaugeIsOwn DEF HealthOf
<1>4. HealthOf(n, recThen) \in Metric \X DB
  BY <1>1, HealthIsOne
<1> QED
  BY <1>1, <1>3, <1>4

LEMMA ReconcileDownShowsNothing ==
    ASSUME ClonesStayApart, RowsInv, AtHome, DownShowsNothing,
           Reload \/ (\E d \in DB : Reconnect(d)) \/ ReconcileStep
    PROVE  DownShowsNothing'
<1>0. /\ StaysHome /\ Threads /\ MetricOf \in [Query -> Metric]
      /\ RowsTypeOK
  BY RowsAssumption DEF AtHome, RowsInv
\* One that goes on showing what it showed, with no value more.
<1>1. ASSUME NEW x \in Query, InCharge(x), Holder(x)' = Holder(x),
             Shows(x)' = Shows(x), UNCHANGED run,
             Valued(MetricOf[x])' \subseteq Valued(MetricOf[x]),
             up'[HealthOf(x, Holder(x))] = "down" => up[HealthOf(x, Holder(x))] = "down",
             \/ (up[HealthOf(x, Holder(x))] = "down" /\ ~InRun(x, "ok"))'
             \/ (~IsMultiRow(Holder(x)) /\ Erred(x))'
      PROVE  Shows(x)' \cap Valued(MetricOf[x])' = {}
  <2>1. Shows(x) \cap Valued(MetricOf[x]) = {}
    BY <1>1 DEF DownShowsNothing, HealthOf, IsMultiRow, InRun, Erred
  <2> QED
    BY <1>1, <2>1
<1>2. CASE \/ Reload \/ (\E d \in DB : Reconnect(d)) \/ EndReconcile
           \/ \E n \in Query : Visit(n)
  <2>1. /\ UNCHANGED <<rows, blank, run, up>>
        /\ \A x \in Query : InCharge(x) =>
               InCharge(x)' /\ Holder(x)' = Holder(x) /\ prev'[x] = prev[x]
    BY <1>2, VisitFacts
  <2> SUFFICES ASSUME NEW x \in Query, InCharge(x)',
                      \/ (up[HealthOf(x, Holder(x))] = "down" /\ ~InRun(x, "ok"))'
                      \/ (~IsMultiRow(Holder(x)) /\ Erred(x))'
               PROVE  Shows(x)' \cap Valued(MetricOf[x])' = {}
    BY DEF DownShowsNothing
  <2>2. CASE InCharge(x)
    <3>1. Shows(x)' = Shows(x) /\ Holder(x)' = Holder(x)
      BY <2>1, <2>2, SameShows
    <3>2. Valued(MetricOf[x])' = Valued(MetricOf[x])
      BY <1>0, <2>1, SameRowsFacts
    <3> QED
      BY <1>1, <2>1, <2>2, <3>1, <3>2
  <2>3. CASE ~InCharge(x)
    <3>1. run[x].pc = "none"
      BY <2>3, NobodysRunIsEmpty
    <3>2. PICK n \in Query : VisitAndPass(n) /\ ReconcileStart(n, Snap)
      <4>1. ASSUME UNCHANGED <<workers, recWait, recGone>> PROVE FALSE
        BY <2>3, <4>1, SameHolders
      <4>2. ~(Reload \/ (\E d \in DB : Reconnect(d)) \/ EndReconcile)
        BY <4>1 DEF Reload, Reconnect, EndReconcile, ReconcileBegin
      <4>3. PICK n \in Query : Visit(n)
        BY <1>2, <4>2
      <4>4. VisitAndPass(n)
        BY <2>3, <4>3, RestartHolders, StopHolders DEF Visit
      <4>5. ~ReconcileLeave(n, Snap)
        BY <4>1, <4>4 DEF VisitAndPass, ReconcileLeave
      <4> QED
        BY <4>4, <4>5 DEF VisitAndPass
    <3>3. /\ ~InCharge(n) /\ Holder(n)' = Target(n, Snap)
          /\ Target(n, Snap) \in Worker
          /\ \A y \in Query \ {n} : InCharge(y)' <=> InCharge(y)
      BY <3>2, StartHolders DEF VisitAndPass
    <3>4. x = n
      BY <2>3, <3>3
    <3>5. Target(n, Snap).cfg.db \in DatabasesOf(n)
      BY <3>2, TargetStaysHome DEF ReconcileStart
    <3>6. up[HealthOf(n, Target(n, Snap))] = "absent"
      BY <1>0, <3>3, <3>5, GaugeIsOwn
    <3>7. up'[HealthOf(x, Holder(x)')] = "absent"
      BY <2>1, <3>3, <3>4, <3>6
    <3>8. ~Erred(x)'
      BY <2>1, <3>1 DEF Erred, InRun
    <3> QED
      BY <3>7, <3>8 DEF HealthOf
  <2> QED
    BY <2>2, <2>3
<1>3. CASE JoinAndRestart
  <2>1. PICK n : n = recWait
    OBVIOUS
  <2>2. /\ n \in Query /\ run[n].pc = "none" /\ UNCHANGED run
        /\ \A x \in Query \ {n} : Shows(x)' = Shows(x)
        /\ \A k \in Metric : Valued(k)' \subseteq Valued(k)
    BY <1>3, <2>1, JoinRestartShows
  <2>3. /\ \A x \in Query : InCharge(x)' <=> InCharge(x)
        /\ \A x \in Query \ {n} : Holder(x)' = Holder(x)
        /\ Holder(n)' = recThen /\ Holder(n) = workers[n] /\ InCharge(n)
    BY <1>3, <2>1, JoinRestartHolders
  <2>4. \A md \in Metric \X DB : up'[md] = up[md] \/ up'[md] = "absent"
    BY <1>3, <2>1, JoinRestartHealth
  <2> SUFFICES ASSUME NEW x \in Query, InCharge(x),
                      \/ (up[HealthOf(x, Holder(x))] = "down" /\ ~InRun(x, "ok"))'
                      \/ (~IsMultiRow(Holder(x)) /\ Erred(x))'
               PROVE  Shows(x)' \cap Valued(MetricOf[x])' = {}
    BY <2>3 DEF DownShowsNothing
  <2>5. CASE x # n
    <3>1. HealthOf(x, Holder(x)) \in Metric \X DB
      BY <1>0, HolderIsWorker, HealthIsOne
    <3>2. up'[HealthOf(x, Holder(x))] = "down" => up[HealthOf(x, Holder(x))] = "down"
      BY <2>4, <3>1
    <3> QED
      BY <1>0, <1>1, <2>2, <2>3, <2>5, <3>2
  <2>6. CASE x = n
    <3>1. ~Erred(n)'
      BY <2>2 DEF Erred, InRun
    <3>2. up'[HealthOf(n, recThen)] = "down"
      BY <2>3, <2>6, <3>1 DEF HealthOf
    <3>3. /\ HealthOf(n, recThen) = HealthOf(n, workers[n])
          /\ up[HealthOf(n, workers[n])] = "down"
          /\ ~IdentityChanged(workers[n], recThen)
      BY <1>0, <1>3, <2>1, <2>4, <3>2, SuccessorsGauges, JoinRestartHealth
    <3>4. /\ Shows(n)' = Shows(n)
          /\ Valued(MetricOf[n])' = Valued(MetricOf[n])
      BY <1>3, <2>1, <3>3, JoinRestartShows
    <3>5. Shows(n) \cap Valued(MetricOf[n]) = {}
      BY <2>2, <2>3, <3>3 DEF DownShowsNothing, InRun
    <3> QED
      BY <2>6, <3>4, <3>5
  <2> QED
    BY <2>5, <2>6
<1>4. CASE JoinAndStop
  <2>1. PICK n : n = recWait
    OBVIOUS
  <2>2. /\ n \in Query /\ UNCHANGED run
        /\ \A x \in Query : InCharge(x)' <=> Running(x)
        /\ \A x \in Query : Running(x) =>
               /\ InCharge(x) /\ Holder(x)' = Holder(x) /\ Shows(x)' = Shows(x)
        /\ \A k \in Metric : Valued(k)' \subseteq Valued(k)
    BY <1>4, <2>1, JoinStopShows
  <2>3. \A md \in Metric \X DB : up'[md] = up[md] \/ up'[md] = "absent"
    BY <1>4, <2>1, JoinStopHealth
  <2> SUFFICES ASSUME NEW x \in Query, Running(x),
                      \/ (up[HealthOf(x, Holder(x))] = "down" /\ ~InRun(x, "ok"))'
                      \/ (~IsMultiRow(Holder(x)) /\ Erred(x))'
               PROVE  Shows(x)' \cap Valued(MetricOf[x])' = {}
    BY <2>2 DEF DownShowsNothing
  <2>4. HealthOf(x, Holder(x)) \in Metric \X DB
    BY <1>0, <2>2, HolderIsWorker, HealthIsOne
  <2>5. up'[HealthOf(x, Holder(x))] = "down" => up[HealthOf(x, Holder(x))] = "down"
    BY <2>3, <2>4
  <2> QED
    BY <1>0, <1>1, <2>2, <2>5
<1> QED
  BY <1>2, <1>3, <1>4 DEF ReconcileStep, Visit

-----------------------------------------------------------------------------
(* The steps of reconcile: schema conflicts                                *)

Decided(x) ==
    /\ Running(x) /\ lastQueries[x] # NoQuery /\ ~IsPending(x, Snap)
    => (HealthOf(x, workers[x]) \in conflict
            <=> workers[x].cfg.schema # lastQueries[x].schema)

LEMMA DecidedIsPart ==
    /\ ConflictIsDecided <=> \A x \in Query \ (recTodo \cup {recWait}) : Decided(x)
    /\ ConflictIsDecided'
           <=> \A x \in Query \ (recTodo' \cup {recWait'}) : Decided(x)'
BY DEF ConflictIsDecided, Decided

\* A decision stands as long as its worker, its query and its gauge do.
LEMMA StillDecided ==
    ASSUME NEW x \in Query, Decided(x),
           UNCHANGED <<pmVars, config, lastQueries>>,
           workers'[x] = workers[x],
           Running(x) => (HealthOf(x, workers[x]) \in conflict'
                              <=> HealthOf(x, workers[x]) \in conflict)
    PROVE  Decided(x)'
BY DEF Decided, Running, IsPending, Wanted, Snap, PendingDBs, HealthOf

\* A visit that is not ended early compares the schema that is wanted.
LEMMA VisitDecides ==
    ASSUME RowsInv, AtHome, NEW n \in recTodo, Running(n), ~Stops(n, Snap)
    PROVE  /\ ConflictAfter(n) = IF SchemaChanged(n, Snap)
                                 THEN conflict \cup {HealthOf(n, workers[n])}
                                 ELSE conflict \ {HealthOf(n, workers[n])}
           /\ ~IsPending(n, Snap) =>
                  (SchemaChanged(n, Snap)
                       <=> workers[n].cfg.schema # lastQueries[n].schema)
<1>1. ~Skips(n, Snap)
  BY VisitedIsConfigured DEF Skips
<1> QED
  BY <1>1, VisitedIsConfigured DEF ConflictAfter, SchemaChanged, Candidate

\* The gauge of a new worker is not there, and its schema is the wanted one.
LEMMA StartDecides ==
    ASSUME ClonesStayApart, RowsInv, AtHome, NEW n \in Query,
           ReconcileStart(n, Snap), UNCHANGED recGone
    PROVE  /\ HealthOf(n, Target(n, Snap)) \notin conflict
           /\ Target(n, Snap).cfg.schema = lastQueries[n].schema
<1>1. /\ n \in recTodo /\ ~Running(n) /\ ~InCharge(n)
      /\ Target(n, Snap) \in Worker /\ StaysHome
  BY StartHolders DEF ReconcileStart, Starts, AtHome
<1>2. HealthOf(n, Target(n, Snap)) \notin conflict
  BY <1>1, TargetStaysHome, GaugeIsOwn
<1> QED
  BY <1>1, <1>2, VisitedIsConfigured DEF Target, Effective, SchemaChanged, Candidate

LEMMA ReconcileConflicts ==
    ASSUME ClonesStayApart, RowsInv, AtHome, ConflictIsDecided, NextHasWantedSchema,
           Reload \/ (\E d \in DB : Reconnect(d)) \/ ReconcileStep
    PROVE  ConflictIsDecided'
<1>0. /\ StaysHome /\ Waiting /\ RowsTypeOK
      /\ workers \in [Query -> Worker \cup {NoWorker}]
  BY DEF AtHome, RowsInv, RowsTypeOK, WMTypeOK
\* The gauge that a step for one worker decides is not that of another.
<1>1. ASSUME NEW n \in Query, NEW x \in Query, x # n, InCharge(n), Running(x)
      PROVE  HealthOf(x, workers[x]) # HealthOf(n, Holder(n))
  <2>1. InCharge(x) /\ Holder(x) = workers[x]
    BY <1>1 DEF InCharge, Holder
  <2> QED
    BY <1>0, <1>1, <2>1, HealthIsApart
<1>2. CASE Reload \/ (\E d \in DB : Reconnect(d))
  <2>1. \A n \in Query : lastQueries'[n] # NoQuery => n \in recTodo'
    BY <1>2, BeginAtHome
  <2> QED
    BY <2>1 DEF ConflictIsDecided
<1>3. ASSUME NEW n \in Query, VisitAndPass(n) PROVE ConflictIsDecided'
  <2>1. /\ UNCHANGED <<pmVars, config, lastQueries, recWait, recGone>>
        /\ recTodo' = recTodo \ {n} /\ n \in recTodo
        /\ conflict' = ConflictAfter(n)
    BY <1>3 DEF VisitAndPass, ReconcileLeave, ReconcileStart
  <2> SUFFICES ASSUME NEW x \in Query \ (recTodo' \cup {recWait'})
               PROVE  Decided(x)'
    BY DecidedIsPart
  <2>2. CASE x # n
    <3>1. workers'[x] = workers[x]
      BY <1>0, <1>3, <2>2 DEF VisitAndPass, ReconcileLeave, ReconcileStart
    <3>2. Running(x) => (HealthOf(x, workers[x]) \in conflict'
                             <=> HealthOf(x, workers[x]) \in conflict)
      <4>1. Running(n) => InCharge(n) /\ Holder(n) = workers[n]
        BY DEF InCharge, Holder
      <4> QED
        BY <1>1, <2>1, <2>2, <4>1, ConflictAfterFacts
    <3>3. Decided(x)
      BY <2>1, <2>2, DecidedIsPart
    <3> QED
      BY <2>1, <3>1, <3>2, <3>3, StillDecided
  <2>3. CASE x = n /\ ReconcileLeave(n, Snap)
    <3>1. UNCHANGED workers
      BY <2>3 DEF ReconcileLeave
    <3>2. ASSUME Running(n), ~IsPending(n, Snap)
          PROVE  HealthOf(n, workers[n]) \in conflict'
                     <=> workers[n].cfg.schema # lastQueries[n].schema
      <4>1. ~Skips(n, Snap)
        BY <2>1, <3>2, VisitedIsConfigured DEF Skips
      <4>2. ~Stops(n, Snap)
        BY <2>3, <3>2, <4>1 DEF ReconcileLeave, Keeps
      <4> QED
        BY <2>1, <3>2, <4>2, VisitDecides
    <3> QED
      BY <2>1, <2>3, <3>1, <3>2
         DEF Decided, Running, IsPending, Wanted, Snap, PendingDBs, HealthOf
  <2>4. CASE x = n /\ ReconcileStart(n, Snap)
    <3>1. workers'[n] = Target(n, Snap) /\ ~Running(n)
      BY <1>0, <2>4 DEF ReconcileStart, Starts
    <3>2. conflict' = conflict
      BY <2>1, <3>1 DEF ConflictAfter
    <3>3. /\ HealthOf(n, Target(n, Snap)) \notin conflict
          /\ Target(n, Snap).cfg.schema = lastQueries[n].schema
      BY <2>1, <2>4, StartDecides
    <3> QED
      BY <2>1, <2>4, <3>1, <3>2, <3>3 DEF Decided, HealthOf
  <2> QED
    BY <1>3, <2>2, <2>3, <2>4 DEF VisitAndPass
<1>4. ASSUME NEW n \in Query, VisitAndRestart(n) PROVE ConflictIsDecided'
  <2>1. /\ UNCHANGED <<pmVars, config, lastQueries, workers, recGone>>
        /\ recTodo' = recTodo \ {n} /\ n \in recTodo
        /\ conflict' = ConflictAfter(n) /\ recWait' = n /\ recWait = NoQuery
        /\ Running(n)
    BY <1>4 DEF VisitAndRestart, ReconcileRestart, Restarts
  <2> SUFFICES ASSUME NEW x \in Query \ (recTodo' \cup {recWait'})
               PROVE  Decided(x)'
    BY DecidedIsPart
  <2>2. x # n /\ InCharge(n) /\ Holder(n) = workers[n]
    BY <2>1 DEF InCharge, Holder
  <2>3. Running(x) => (HealthOf(x, workers[x]) \in conflict'
                           <=> HealthOf(x, workers[x]) \in conflict)
    BY <1>1, <2>1, <2>2, ConflictAfterFacts
  <2>4. Decided(x)
    BY <2>1, <2>2, DecidedIsPart, SentinelsAreNotValues
  <2> QED
    BY <2>1, <2>3, <2>4, StillDecided
<1>5. ASSUME NEW n \in Query, VisitAndStop(n) PROVE ConflictIsDecided'
  <2>1. /\ UNCHANGED <<pmVars, config, lastQueries, conflict>>
        /\ recTodo \subseteq recTodo' \cup {n} /\ recWait' = n /\ recWait = NoQuery
        /\ workers' = [workers EXCEPT ![n] = NoWorker]
    BY <1>5 DEF VisitAndStop, ReconcileStop, ReconcileRemove, StopWorker
  <2> SUFFICES ASSUME NEW x \in Query \ (recTodo' \cup {recWait'})
               PROVE  Decided(x)'
    BY DecidedIsPart
  <2>2. workers'[x] = workers[x] /\ x # NoQuery /\ x # n
    BY <1>0, <2>1, SentinelsAreNotValues
  <2>3. Decided(x)
    BY <2>1, <2>2, DecidedIsPart
  <2> QED
    BY <2>1, <2>2, <2>3, StillDecided
<1>6. CASE JoinAndRestart
  <2>1. PICK n : n = recWait
    OBVIOUS
  <2>2. /\ n \in Query /\ recThen \in Worker /\ recThen # NoWorker
        /\ HealthOf(n, recThen) \notin conflict
    <3>1. n \in Query /\ recThen \in Worker /\ HealthOf(n, recThen) \notin conflict
      BY <1>0, <1>6, <2>1, SuccessorsGauges
    <3> QED
      BY <3>1, SentinelsAreNotValues DEF Worker, RunnableQuery
  <2>3. /\ UNCHANGED <<pmVars, config, lastQueries, recTodo, conflict>>
        /\ recWait' = NoQuery
        /\ workers' = [workers EXCEPT ![n] = recThen]
    BY <1>6, <2>1, <2>2 DEF JoinAndRestart, ReconcileJoin
  <2> SUFFICES ASSUME NEW x \in Query \ (recTodo' \cup {recWait'})
               PROVE  Decided(x)'
    BY DecidedIsPart
  <2>4. CASE x # n
    <3>1. workers'[x] = workers[x] /\ Decided(x)
      BY <1>0, <2>1, <2>3, <2>4, DecidedIsPart
    <3> QED
      BY <2>3, <3>1, StillDecided
  <2>5. CASE x = n
    <3>1. workers'[n] = recThen
      BY <1>0, <2>2, <2>3
    <3>2. ~IsPending(n, Snap) => recThen.cfg.schema = lastQueries[n].schema
      BY <2>1, <2>2 DEF NextHasWantedSchema
    <3> QED
      BY <2>2, <2>3, <2>5, <3>1, <3>2
         DEF Decided, Running, IsPending, Wanted, Snap, PendingDBs, HealthOf
  <2> QED
    BY <2>4, <2>5
<1>7. CASE JoinAndStop
  <2>1. PICK n : n = recWait
    OBVIOUS
  <2>2. /\ n \in Query /\ InCharge(n) /\ Holder(n) = recGone
        /\ ~Running(n) /\ recThen = NoWorker
        /\ conflict' = conflict \ {HealthOf(n, Holder(n))}
    BY <1>7, <2>1, JoinStopHolders, JoinStopHealth
  <2>3. /\ UNCHANGED <<pmVars, config, lastQueries, recTodo, workers>>
        /\ recWait' = NoQuery
    BY <1>7, <2>2 DEF JoinAndStop, ReconcileJoin
  <2> SUFFICES ASSUME NEW x \in Query \ (recTodo' \cup {recWait'})
               PROVE  Decided(x)'
    BY DecidedIsPart
  <2>4. CASE x # n
    <3>1. Decided(x)
      BY <2>1, <2>3, <2>4, DecidedIsPart
    <3>2. Running(x) => (HealthOf(x, workers[x]) \in conflict'
                             <=> HealthOf(x, workers[x]) \in conflict)
      BY <1>1, <2>2, <2>4
    <3> QED
      BY <2>3, <3>1, <3>2, StillDecided
  <2>5. CASE x = n
    BY <2>2, <2>3, <2>5 DEF Decided, Running
  <2> QED
    BY <2>4, <2>5
<1>8. CASE EndReconcile
  <2>1. UNCHANGED <<pmVars, wmVars, config, conflict>>
    BY <1>8 DEF EndReconcile
  <2> QED
    BY <2>1 DEF ConflictIsDecided, Running, IsPending, Wanted, Snap, PendingDBs, HealthOf
<1> QED
  BY <1>2, <1>3, <1>4, <1>5, <1>6, <1>7, <1>8 DEF ReconcileStep

LEMMA ReconcileNextSchema ==
    ASSUME RowsInv, AtHome, NextHasWantedSchema,
           Reload \/ (\E d \in DB : Reconnect(d)) \/ ReconcileStep
    PROVE  NextHasWantedSchema'
<1>1. Waiting /\ WMTypeOK
  BY DEF RowsInv, RowsTypeOK
<1>2. ASSUME recThen' = NoWorker PROVE NextHasWantedSchema'
  BY <1>2 DEF NextHasWantedSchema
<1>3. CASE \/ Reload \/ (\E d \in DB : Reconnect(d)) \/ EndReconcile
           \/ \E n \in Query : VisitAndPass(n)
  <2>1. recWait = NoQuery /\ UNCHANGED recThen
    BY <1>1, <1>3
       DEF Reload, Reconnect, EndReconcile, ReconcileDone, ReconcileBegin,
           VisitAndPass, ReconcileLeave, ReconcileStart, Waiting
  <2> QED
    BY <1>1, <1>2, <2>1 DEF Waiting
<1>4. ASSUME NEW n \in Query, VisitAndRestart(n) PROVE NextHasWantedSchema'
  <2>1. /\ UNCHANGED <<pmVars, config, lastQueries>>
        /\ n \in recTodo /\ recWait' = n /\ recThen' = Target(n, Snap)
        /\ Restarts(n, Snap)
    BY <1>4 DEF VisitAndRestart, ReconcileRestart
  <2>2. lastQueries[n] # NoQuery
    BY <1>1, <2>1 DEF Waiting
  <2>3. ~IsPending(n, Snap) =>
            Target(n, Snap).cfg.schema = lastQueries[n].schema
    BY <1>1, <2>1, RestartKeepsSchema, VisitedIsConfigured DEF Candidate
  <2> QED
    BY <2>1, <2>2, <2>3
       DEF NextHasWantedSchema, IsPending, Wanted, Snap, PendingDBs
<1>5. ASSUME NEW n \in Query, VisitAndStop(n) PROVE NextHasWantedSchema'
  BY <1>2, <1>5 DEF VisitAndStop, ReconcileStop, ReconcileRemove, StopWorker
<1>6. CASE JoinAndRestart \/ JoinAndStop
  BY <1>2, <1>6 DEF JoinAndRestart, JoinAndStop, ReconcileJoin
<1> QED
  BY <1>3, <1>4, <1>5, <1>6 DEF ReconcileStep

-----------------------------------------------------------------------------
(* The theorems                                                            *)

LEMMA InitApartInv ==
    ASSUME RowsInit
    PROVE  ApartInv
<1>1. RowsInv
  BY InitRowsInv
<1>2. \A n \in Query : ~Running(n) /\ ~InCharge(n) /\ lastQueries[n] = NoQuery
  BY DEF RowsInit, PMInit, WMInit, Running, InCharge
<1>3. recThen = NoWorker /\ ConfigInForce
  BY DEF RowsInit, PMInit, WMInit, ConfigInForce
<1>4. StaysHome /\ ShownIsThere /\ DownShowsNothing
  BY <1>2, <1>3 DEF StaysHome, ShownIsThere, DownShowsNothing
<1>5. ConflictIsDecided /\ NextHasWantedSchema /\ \A n \in Query : ~NotInConfig(n)
  BY <1>2, <1>3 DEF ConflictIsDecided, NextHasWantedSchema, NotInConfig
<1> QED
  BY <1>1, <1>3, <1>4, <1>5 DEF ApartInv

LEMMA NextKeepsApartInv ==
    ASSUME ClonesStayApart, ApartInv, [Next]_rowVars
    PROVE  ApartInv'
<1>1. RowsInv'
  BY NextKeepsRowsInv DEF ApartInv
<1>2. RowsInv /\ AtHome /\ StaysHome
  BY DEF ApartInv, AtHome
<1>3. ASSUME NEW n \in Query, RunStep(n)
      PROVE  ApartInv'
  BY <1>1, <1>2, <1>3, RunStepAtHome, RunStepShownIsThere,
     RunStepDownShowsNothing, RunStepConflicts DEF ApartInv, AtHome
<1>4. CASE Reload \/ (\E d \in DB : Reconnect(d)) \/ ReconcileStep
  <2>1. AtHome'
    BY <1>2, <1>4, BeginAtHome, ReconcileAtHome
  <2>2. ConflictIsDecided' /\ NextHasWantedSchema'
    BY <1>2, <1>4, ReconcileConflicts, ReconcileNextSchema DEF ApartInv
  <2> QED
    BY <1>1, <1>2, <1>4, <2>1, <2>2, ReconcileShownIsThere,
       ReconcileDownShowsNothing DEF ApartInv, AtHome
<1>5. CASE UNCHANGED rowVars
  <2>1. \A x \in Query : /\ InCharge(x)' <=> InCharge(x)
                         /\ Holder(x)' = Holder(x) /\ Shows(x)' = Shows(x)
    BY <1>5, SameHolders, SameShows
  <2>2. AtHome'
    BY <1>2, <1>5, <2>1
       DEF AtHome, ConfigInForce, StaysHome, NotInConfig, Running
  <2>3. ShownIsThere' /\ DownShowsNothing'
    BY <1>5, <2>1
       DEF ApartInv, ShownIsThere, DownShowsNothing, IsMultiRow, Valued,
           HealthOf, InRun, Erred
  <2>4. ConflictIsDecided' /\ NextHasWantedSchema'
    BY <1>5
       DEF ApartInv, ConflictIsDecided, NextHasWantedSchema, Running,
           IsPending, Wanted, Snap, PendingDBs, HealthOf
  <2> QED
    BY <1>1, <2>2, <2>3, <2>4 DEF ApartInv, AtHome
<1> QED
  BY <1>3, <1>4, <1>5 DEF Next

(***************************************************************************)
(* The inductive invariant for configurations with a unique (query, db).   *)
(***************************************************************************)
THEOREM ApartInvariance ==
    ASSUME ClonesStayApart
    PROVE  Spec => []ApartInv
<1>1. RowsInit => ApartInv
  BY InitApartInv
<1>2. ApartInv /\ [Next]_rowVars => ApartInv'
  BY NextKeepsApartInv
<1> QED
  BY <1>1, <1>2, PTL DEF Spec

\* An idle worker has no run.
LEMMA IdleHasNoRun ==
    ASSUME RowsInv, NEW n \in Query, Idle(n)
    PROVE  run[n].pc = "none"
BY DEF RowsInv, Threads, Idle

LEMMA RunningIsInCharge ==
    ASSUME NEW n, Running(n)
    PROVE  InCharge(n) /\ Holder(n) = workers[n]
BY DEF InCharge, Holder

(***************************************************************************)
(* A row of the last success stays until the next run, whatever stops,     *)
(* restarts or failures its clones go through.                             *)
(***************************************************************************)
THEOREM PublishedRowsAreKept ==
    ASSUME ClonesStayApart
    PROVE  Spec => []PublishedRowsStay
<1>1. ApartInv => PublishedRowsStay
  <2> SUFFICES ASSUME ApartInv, NEW n \in Query, Running(n), Idle(n), prev[n] # {}
               PROVE  prev[n] \subseteq Valued(MetricOf[n])
    BY DEF PublishedRowsStay
  <2>1. InCharge(n) /\ IsMultiRow(Holder(n))
    BY RunningIsInCharge DEF ApartInv, RowsInv, OwnIdentity
  <2>2. run[n].pc = "none"
    BY IdleHasNoRun DEF ApartInv
  <2>3. Shows(n) = prev[n]
    BY <2>1, <2>2 DEF Shows, InRun
  <2> QED
    BY <2>1, <2>3 DEF ApartInv, ShownIsThere
<1> QED
  BY <1>1, ApartInvariance, PTL

(***************************************************************************)
(* After a failed run the query shows none of its values, also none that   *)
(* a clone has left or put there (worker.go:221).                          *)
(***************************************************************************)
THEOREM DownMeansNoValue ==
    ASSUME ClonesStayApart
    PROVE  Spec => []NoValueWhileDown
<1>1. ApartInv => NoValueWhileDown
  <2> SUFFICES ASSUME ApartInv, NEW n \in Query, Running(n), Idle(n),
                      up[HealthOf(n, workers[n])] = "down",
                      NEW s \in Valued(MetricOf[n]), HasIdentity(s, workers[n])
               PROVE  FALSE
    BY DEF NoValueWhileDown
  <2>1. InCharge(n) /\ Holder(n) = workers[n] /\ run[n].pc = "none"
    BY RunningIsInCharge, IdleHasNoRun DEF ApartInv
  <2>2. Shows(n) \cap Valued(MetricOf[n]) = {}
    BY <2>1 DEF ApartInv, DownShowsNothing, InRun
  <2>3. PICK y \in Query : /\ MetricOf[y] = MetricOf[n]
                           /\ InCharge(y) /\ s \in Shows(y)
    BY RowsAssumption DEF ApartInv, RowsInv, ValuesAreShown
  <2>4. y # n
    BY <2>2, <2>3
  <2> QED
    BY <2>1, <2>3, <2>4, ClonesShareNothing DEF ApartInv
<1> QED
  BY <1>1, ApartInvariance, PTL

(***************************************************************************)
(* Between two reconciles the conflict gauge is there for exactly the      *)
(* workers whose wanted schema is another one (README.md:485).             *)
(***************************************************************************)
THEOREM ConflictsAreShown ==
    ASSUME ClonesStayApart
    PROVE  Spec => []ConflictIsShown
<1>1. ApartInv => ConflictIsShown
  <2> SUFFICES ASSUME ApartInv, ~reconciling, NEW n \in Query,
                      Running(n), ~IsPending(n, Snap)
               PROVE  HealthOf(n, workers[n]) \in conflict
                          <=> workers[n].cfg.schema # lastQueries[n].schema
    BY DEF ConflictIsShown
  <2>1. recTodo = {} /\ recWait = NoQuery
    BY DEF ApartInv, RowsInv, Waiting
  <2>2. lastQueries[n] # NoQuery
    BY DEF ApartInv, NotInConfig
  <2>3. n \in Query \ (recTodo \cup {recWait})
    BY <2>1, SentinelsAreNotValues
  <2> QED
    BY <2>2, <2>3 DEF ApartInv, ConflictIsDecided
<1> QED
  BY <1>1, ApartInvariance, PTL

(***************************************************************************)
(* The end of stopWorker leaves every other query its values and its       *)
(* health: with the clones that share its metric it shares no row          *)
(* (worker_manager.go:284).                                                *)
(***************************************************************************)
THEOREM StopsSpareOthers ==
    ASSUME ClonesStayApart
    PROVE  Spec => StopSparesOthers
<1>1. ASSUME ApartInv, JoinAndStop, NEW x \in Query \ {recWait}, Running(x)
      PROVE  /\ RowsOf(x)' = RowsOf(x)
             /\ up'[HealthOf(x, workers[x])] = up[HealthOf(x, workers[x])]
  <2>1. PICK n : n = recWait
    OBVIOUS
  <2>2. /\ n \in Query /\ x # n /\ InCharge(n) /\ InCharge(x)
        /\ Holder(x) = workers[x] /\ Holder(x)' = Holder(x) /\ InCharge(x)'
        /\ Running(x)' <=> Running(x)
    <3>1. recThen = NoWorker
      BY <1>1, JoinStopHolders DEF ApartInv
    <3>2. UNCHANGED workers
      BY <1>1, <3>1 DEF JoinAndStop, ReconcileJoin
    <3> QED
      BY <1>1, <2>1, <3>2, JoinStopShows DEF ApartInv, Running
  <2>3. workers'[x] = workers[x]
    BY <1>1, JoinStopHolders DEF ApartInv, JoinAndStop, ReconcileJoin
  <2>4. \A s \in Valued(MetricOf[x]) : HasIdentity(s, workers[x]) =>
            s \in Valued(MetricOf[x])'
    <3>1. CASE MetricOf[x] # MetricOf[n]
      BY <1>1, <2>1, <3>1, JoinStopShows, RowsAssumption DEF ApartInv
    <3>2. CASE MetricOf[x] = MetricOf[n]
      <4>1. \A s \in Valued(MetricOf[n]) \ Valued(MetricOf[n])' :
                s \in prev[n] \cup {SingleSeries(Holder(n))}
        BY <1>1, <2>1, <3>2, JoinStopShows DEF ApartInv
      <4>2. \A s \in prev[n] \cup {SingleSeries(Holder(n))} :
                ~HasIdentity(s, Holder(x))
        BY <1>1, <2>2, <3>2, ClonesShareNothing DEF ApartInv
      <4> QED
        BY <2>2, <3>2, <4>1, <4>2
    <3> QED
      BY <3>1, <3>2
  <2>5. Valued(MetricOf[x])' \subseteq Valued(MetricOf[x])
    BY <1>1, <2>1, JoinStopShows, RowsAssumption DEF ApartInv
  <2>6. RowsOf(x)' = RowsOf(x)
    BY <2>3, <2>4, <2>5 DEF RowsOf, HasIdentity
  <2>7. /\ HealthOf(x, workers[x]) \in Metric \X DB
        /\ HealthOf(x, workers[x]) # HealthOf(n, Holder(n))
    BY <1>1, <2>2, HolderIsWorker, HealthIsOne, HealthIsApart DEF ApartInv, RowsInv
  <2>8. Holder(n) = recGone
    BY <1>1, <2>1, JoinStopHolders DEF ApartInv
  <2> QED
    BY <1>1, <2>1, <2>6, <2>7, <2>8, JoinStopHealth DEF ApartInv
<1>2. ApartInv /\ [Next]_rowVars
      => [JoinAndStop =>
             \A n \in Query \ {recWait} : Running(n) =>
                 /\ RowsOf(n)' = RowsOf(n)
                 /\ up'[HealthOf(n, workers[n])] = up[HealthOf(n, workers[n])]
         ]_rowVars
  BY <1>1
<1> QED
  BY <1>2, ApartInvariance, PTL DEF Spec, StopSparesOthers
=============================================================================
