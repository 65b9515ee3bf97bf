------------------------- MODULE QueryRowsProperties -------------------------
(***************************************************************************)
(* What a scrape of the rows and gauges of module QueryRows may rely on.   *)
(***************************************************************************)
EXTENDS QueryRows

(***************************************************************************)
(* Type correctness.                                                       *)
(***************************************************************************)
RowsTypeOK ==
    /\ PMTypeOK /\ WMTypeOK
    /\ config \in Config
    /\ reconciling \in BOOLEAN
    /\ recGone \in Worker \cup {NoWorker}
    /\ recShared \in BOOLEAN
    /\ vec \in [Metric -> (SUBSET LabelName) \cup {NoVec}]
    /\ dims \in [Metric -> (SUBSET LabelName) \cup {NoVec}]
    /\ rows \in [Metric -> SUBSET Series] /\ blank \in [Metric -> SUBSET Series]
    /\ \A m \in Metric : blank[m] \subseteq rows[m]
    /\ prev \in [Query -> SUBSET Series] /\ run \in [Query -> Run]
    /\ up \in [Metric \X DB -> {"absent", "up", "down"}]
    /\ mismatch \subseteq Metric \X DB
    /\ conflict \subseteq Metric \X DB

-----------------------------------------------------------------------------
(* The worker that answers for a query: the one in the map or, up to the   *)
(* end of stopWorker, the one that was taken out of it.                    *)

InCharge(n) == Running(n) \/ (recWait = n /\ recGone # NoWorker)

Holder(n) == IF Running(n) THEN workers[n] ELSE recGone

HasIdentity(s, w) ==
    /\ s.db = w.cfg.db
    /\ s.env = w.pool.cfg.env
    /\ s.vals = ValuesOf[w.cfg.sql]

Valued(m) == rows[m] \ blank[m]

Idle(n) == \E g \in goroutines : g.name = n /\ g.phase = "idle" /\ ~g.cancelled

(***************************************************************************)
(* No value without an owner: every series with a value is one that some   *)
(* worker knows it has shown, in prevLabels, in the batch of its run or as *)
(* its only row, under the identity that this worker has now. What nobody  *)
(* knows of is deleted by nobody (worker_manager.go:200, worker.go:149).   *)
(***************************************************************************)
ValuesHaveOwners ==
    \A m \in Metric : \A s \in Valued(m) :
        \E n \in Query :
            /\ MetricOf[n] = m /\ InCharge(n)
            /\ HasIdentity(s, Holder(n))
            /\ s \in prev[n] \cup run[n].batch \cup {SingleSeries(Holder(n))}

(***************************************************************************)
(* What prevLabels names is really there, while no run of the query is     *)
(* about to change it: a row of the last success is not lost to the stop,  *)
(* restart or failure of a clone.                                          *)
(***************************************************************************)
PublishedRowsStay ==
    \A n \in Query : Running(n) /\ Idle(n) => prev[n] \subseteq Valued(MetricOf[n])

(***************************************************************************)
(* A GaugeVec lives as long as the workers of its metric: a run never      *)
(* publishes into one that was unregistered under it, and the last worker  *)
(* to go takes it along (stopWorker: sharedByOthers).                      *)
(***************************************************************************)
VecLivesWithItsWorkers ==
    /\ \A n \in Query :
           run[n].pc \in {"publish", "ok"} => vec[MetricOf[n]] # NoVec
    /\ \A m \in Metric :
           vec[m] # NoVec => \E n \in Query : MetricOf[n] = m /\ InCharge(n)

(***************************************************************************)
(* app_query_up 0 and a value do not go together: after a failed run the   *)
(* query shows none of its values (worker.go:221).                         *)
(***************************************************************************)
NoValueWhileDown ==
    \A n \in Query :
        /\ Running(n) /\ Idle(n)
        /\ up[HealthOf(n, workers[n])] = "down"
        => \A s \in Valued(MetricOf[n]) : ~HasIdentity(s, workers[n])

(***************************************************************************)
(* The health series of a query are taken away when it leaves the config   *)
(* or moves to another database (README.md:470).                           *)
(***************************************************************************)
ShownFor(md) == \E n \in Query : InCharge(n) /\ md = HealthOf(n, Holder(n))

HealthFollowsWorkers ==
    \A md \in Metric \X DB :
        up[md] # "absent" \/ md \in conflict => ShownFor(md)

(***************************************************************************)
(* Between two reconciles app_query_config_schema_conflict is there for    *)
(* exactly the workers whose wanted schema is another one (README.md:485). *)
(* A pending database hides the wanted config from this decision.          *)
(***************************************************************************)
ConflictIsShown ==
    ~reconciling =>
        \A n \in Query :
            /\ Running(n) /\ ~IsPending(n, Snap)
            => (HealthOf(n, workers[n]) \in conflict
                    <=> workers[n].cfg.schema # lastQueries[n].schema)

(***************************************************************************)
(* The end of stopWorker leaves every other query what it shows: clones    *)
(* share the metric, but each (query, db) has one owner                    *)
(* (worker_manager.go:284).                                                *)
(***************************************************************************)
RowsOf(n) == {s \in Valued(MetricOf[n]) : HasIdentity(s, workers[n])}

StopSparesOthers ==
    [][JoinAndStop =>
           \A n \in Query \ {recWait} : Running(n) =>
               /\ RowsOf(n)' = RowsOf(n)
               /\ up'[HealthOf(n, workers[n])] = up[HealthOf(n, workers[n])]
      ]_rowVars

-----------------------------------------------------------------------------
(* What the repository says and the code does not do                       *)

(***************************************************************************)
(* app_query_runtime_schema_mismatch shows whether the problem is active   *)
(* right now (README.md:487): it is the gauge of a query that is there.    *)
(***************************************************************************)
MismatchIsCurrent == \A md \in mismatch : ShownFor(md)
=============================================================================
