------------------------ MODULE QueryRowsInvariants ------------------------
(***************************************************************************)
(* The inductive invariants behind the properties of QueryRows: who        *)
(* answers for a query in the middle of a reconcile, and which worker will *)
(* take away a series. RowsInv needs nothing of the configurations;        *)
(* ApartInv is what holds besides when ClonesStayApart.                    *)
(***************************************************************************)
EXTENDS QueryRowsProperties

(***************************************************************************)
(* Each goroutine is the only one of its query, runs the worker that       *)
(* answers for the query, and is in phase "running" exactly during a run.  *)
(***************************************************************************)
Threads ==
    /\ \A g, h \in goroutines : g.name = h.name => g = h
    /\ \A g \in goroutines : InCharge(g.name) /\ g.worker = Holder(g.name)
    /\ \A n \in Query : run[n].pc # "none"
           <=> \E g \in goroutines : g.name = n /\ g.phase = "running"

(***************************************************************************)
(* What reconcile waits for: a worker that it has taken out of the map for *)
(* good, or one that a worker with the same schema will replace.           *)
(***************************************************************************)
Waiting ==
    /\ ~reconciling => recTodo = {} /\ recWait = NoQuery
    /\ \A n \in recTodo : lastQueries[n] # NoQuery
    /\ recWait = NoQuery => recThen = NoWorker /\ recGone = NoWorker
    /\ recWait # NoQuery => /\ recThen = NoWorker <=> recGone # NoWorker
                            /\ recThen = NoWorker <=> ~Running(recWait)
    /\ recGone # NoWorker => recShared = SharedByOthers(recWait)
    /\ recThen # NoWorker =>
           /\ recThen.cfg.schema = workers[recWait].cfg.schema
           /\ HealthOf(recWait, workers[recWait]) \notin conflict

(***************************************************************************)
(* What a worker answers for: the rows of its last success or, from their  *)
(* publication to the end of the run, those of this run; a single-value    *)
(* query for its only row.                                                 *)
(***************************************************************************)
Shows(n) ==
    IF ~IsMultiRow(Holder(n)) THEN {SingleSeries(Holder(n))}
    ELSE IF InRun(n, "ok") THEN run[n].batch ELSE prev[n]

\* Rows have the label names of their GaugeVec.
RowsFitTheirVec == \A m \in Metric : \A s \in rows[m] : s.names = vec[m]

(***************************************************************************)
(* What a worker remembers and what its run has read are its own; only one *)
(* with several rows remembers any.                                        *)
(***************************************************************************)
OwnIdentity ==
    /\ \A n \in Query : prev[n] # {} => InCharge(n) /\ IsMultiRow(Holder(n))
    /\ \A n \in Query : InCharge(n) =>
           \A s \in prev[n] \cup run[n].batch : HasIdentity(s, Holder(n))

(***************************************************************************)
(* A run has a batch once the database has answered; that of a             *)
(* single-value query is its only row.                                     *)
(***************************************************************************)
BatchOfRun ==
    \A n \in Query :
        /\ run[n].pc \in {"none", "asking"} => run[n].batch = {}
        /\ /\ run[n].pc \in {"register", "publish", "ok", "schema_mismatch"}
           /\ ~IsMultiRow(Holder(n))
           => run[n].batch = {SingleSeries(Holder(n))}

\* Each value is one that some worker answers for.
ValuesAreShown ==
    \A m \in Metric : \A s \in Valued(m) :
        \E n \in Query : MetricOf[n] = m /\ InCharge(n) /\ s \in Shows(n)

RowsInv ==
    /\ RowsTypeOK /\ Threads /\ Waiting
    /\ RowsFitTheirVec /\ OwnIdentity /\ BatchOfRun /\ ValuesAreShown
    /\ VecLivesWithItsWorkers /\ HealthFollowsWorkers

-----------------------------------------------------------------------------
(* Configurations in which (query, db) is unique                           *)

DatabasesOf(n) ==
    {IF c.queries[n].db = NoDB THEN c.defaultDB ELSE c.queries[n].db :
         c \in {x \in Configs : x.queries[n] # NoQuery}}

(***************************************************************************)
(* Queries of one metric never get the same database, in no two            *)
(* configurations. This is what the key that cloneQueriesForDB gives to a  *)
(* clone is for: it has the database in it (config.go:526). It excludes    *)
(* what makes (query, db) ambiguous: a query that is renamed but keeps its *)
(* metric and its database, and clones that name a database themselves.    *)
(***************************************************************************)
ClonesStayApart ==
    \A x, y \in Query :
        x # y /\ MetricOf[x] = MetricOf[y] => DatabasesOf(x) \cap DatabasesOf(y) = {}

(***************************************************************************)
(* The configuration is one that was loaded, the one before the first      *)
(* reload excepted, and both managers have it.                             *)
(***************************************************************************)
ConfigInForce ==
    /\ config \in Configs \/ \A n \in Query : config.queries[n] = NoQuery
    /\ lastQueries = config.queries
    /\ lastQueriesRevision = pmRevision

\* Every worker is on a database that some configuration gave its query.
StaysHome ==
    \A n \in Query :
        /\ InCharge(n) => Holder(n).cfg.db \in DatabasesOf(n)
        /\ recWait = n /\ recThen # NoWorker => recThen.cfg.db \in DatabasesOf(n)

\* What a worker with several rows answers for is there.
ShownIsThere ==
    \A n \in Query :
        InCharge(n) /\ IsMultiRow(Holder(n)) => Shows(n) \subseteq Valued(MetricOf[n])

(***************************************************************************)
(* No value is left of a query that is down, up to the moment when its     *)
(* next run has published, nor the only row of one whose run has failed.   *)
(***************************************************************************)
DownShowsNothing ==
    \A n \in Query :
        /\ InCharge(n)
        /\ \/ up[HealthOf(n, Holder(n))] = "down" /\ ~InRun(n, "ok")
           \/ ~IsMultiRow(Holder(n)) /\ Erred(n)
        => Shows(n) \cap Valued(MetricOf[n]) = {}

(***************************************************************************)
(* The conflict gauge of each worker that reconcile is done with.          *)
(***************************************************************************)
ConflictIsDecided ==
    \A n \in Query \ (recTodo \cup {recWait}) :
        /\ Running(n) /\ lastQueries[n] # NoQuery /\ ~IsPending(n, Snap)
        => (HealthOf(n, workers[n]) \in conflict
                <=> workers[n].cfg.schema # lastQueries[n].schema)

\* The worker that reconcile is about to start has the wanted schema.
NextHasWantedSchema ==
    recThen # NoWorker /\ ~IsPending(recWait, Snap) =>
        lastQueries[recWait] # NoQuery
        /\ recThen.cfg.schema = lastQueries[recWait].schema

ApartInv ==
    /\ RowsInv
    /\ ConfigInForce /\ StaysHome
    /\ ShownIsThere /\ DownShowsNothing
    /\ ConflictIsDecided /\ NextHasWantedSchema
    /\ ~reconciling => \A n \in Query : ~NotInConfig(n)
=============================================================================
