------------------------ MODULE PoolMetricsProperties ------------------------
(***************************************************************************)
(* What /metrics says about the databases, and how far it can be trusted.  *)
(***************************************************************************)
EXTENDS PoolMetrics

(***************************************************************************)
(* app_db_config_applied is exact whenever stateMu is free: 0 for what is  *)
(* pending, whether or not an old pool is kept (pool_manager.go:230-233),  *)
(* 1 for the other pools, and no series for databases that are not         *)
(* configured, those that never connected included                         *)
(* (pool_manager.go:173-178).                                              *)
(***************************************************************************)
ConfigAppliedIsExact ==
    StateMuFree => \A d \in DB \ removedDBs :
        dbConfigApplied[d] = IF d \in PendingDBs THEN 0
                             ELSE IF d \in Pooled THEN 1 ELSE NoSeries

(***************************************************************************)
(* Both loops go on: their tickers fire again and again, Stats returns,    *)
(* and a ping ends by its timeout of five seconds (pool_manager.go:351).   *)
(* Of reload, poolHealthChecker and the servers nothing is assumed.        *)
(***************************************************************************)
Fairness ==
    \A o \in Observers :
        WF_vars(Observe(o) \/ Check(o) \/ Publish(o) \/ LoopDone(o)
                           \/ \E d \in DB : Look(o, d))

FairSpec == Spec /\ Fairness

(***************************************************************************)
(* A connection that dies silently does not leave app_db_up at 1 forever   *)
(* (pool_manager.go:332-336): some ping of it fails and is published.      *)
(***************************************************************************)
Silent(d) == d \in Pooled /\ d \notin answers

SilentDeathShows ==
    \A d \in DB : Silent(d) ~> dbUp[d] = 0 \/ ~Silent(d) \/ ctxDone

(***************************************************************************)
(* The pool statistics catch up with a new pool: what a race has left      *)
(* behind is corrected by a later tick (pool_manager.go:319-321).          *)
(***************************************************************************)
Shown(d) == d \in Pooled => dbPoolStats[d] = pools[d].db

StatsCatchUp == \A d \in DB : ~Shown(d) ~> Shown(d) \/ ctxDone

-----------------------------------------------------------------------------
(* What the repository says and the code does not do                       *)

\* No transition and no publication is under way.
Quiet ==
    /\ StateMuFree /\ removedDBs = {}
    /\ \A o \in Observers : obs[o].pc # "checked"

(***************************************************************************)
(* An observation that belongs to a pool which is gone is not published as *)
(* the current state (pool_manager.go:354-359), and the series of a        *)
(* removed database do not stay in the registry (pool_manager.go:173-178). *)
(***************************************************************************)
NoSeriesAfterRemoval ==
    Quiet => \A d \in DB \ KnownDBs :
        dbUp[d] = NoSeries /\ dbPoolStats[d] = NoSeries

(***************************************************************************)
(* "1 if the last health check (active ping) for this database succeeded,  *)
(* 0 otherwise" (metrics.go:106), for a pool that the last reload did not  *)
(* dial: all that was ever learnt of it since are the pings.               *)
(***************************************************************************)
UpMeansLastPingSucceeded ==
    Quiet => \A d \in Pooled :
        pools[d].made < pmRevision /\ dbUp[d] = 1 => pools[d].db \notin pingFailed
=============================================================================
