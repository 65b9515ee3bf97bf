---------------------------- MODULE PoolManager ----------------------------
(***************************************************************************)
(* poolManager (src/pool_manager.go): the only owner of the connections.   *)
(* Go maps are total functions whose value No... stands for a missing key. *)
(*                                                                         *)
(* pm.mu makes each access to the three maps one step. pm.transitionMu is  *)
(* held by applyConfig from its snapshot to its commit and by              *)
(* commitReconnect; both callers also hold app.stateMu around the call, so *)
(* the lock that module App models already keeps the two apart.            *)
(***************************************************************************)
EXTENDS ConfigTypes

VARIABLES
    pools,        \* pm.pools
    failedPools,  \* pm.failedPools: the wanted config that did not connect
    pmRevision,   \* pm.revision
    open,         \* the *sql.DBs that were opened and not yet closed
    serial        \* serial[d]: how many *sql.DBs were opened for d so far

pmVars == <<pools, failedPools, pmRevision, open, serial>>

PMInit ==
    /\ pools = [d \in DB |-> NoPool]
    /\ failedPools = [d \in DB |-> NoConfig]
    /\ pmRevision = 0
    /\ open = {}
    /\ serial = [d \in DB |-> 0]

PMTypeOK ==
    /\ pools \in [DB -> Pool \cup {NoPool}]
    /\ failedPools \in [DB -> DBConfig \cup {NoConfig}]
    /\ pmRevision \in Nat
    /\ open \subseteq Handle
    /\ serial \in [DB -> Nat]

(***************************************************************************)
(* The databases whose wanted config has not been applied: their pool, if  *)
(* there is one, was dialled with an older config.                         *)
(***************************************************************************)
PendingDBs == {d \in DB : failedPools[d] # NoConfig}

-----------------------------------------------------------------------------
(* dial: sql.Open and a Ping. A failure closes what it opened.             *)

NextHandle(d) == <<d, serial[d] + 1>>

Dial(D) ==
    /\ serial' = [d \in DB |-> IF d \in D THEN serial[d] + 1 ELSE serial[d]]
    /\ open' = open \cup {NextHandle(d) : d \in D}

-----------------------------------------------------------------------------
(* applyConfig                                                             *)

NeedUpdate(d, dbs) == pools[d] = NoPool \/ pools[d].cfg.conn # dbs[d].conn

ToDial(dbs) == {d \in DB : dbs[d] # NoConfig /\ NeedUpdate(d, dbs)}

\* Fault: an unchanged pool gets a new wrapper in every reload.
NewPoolsAlwaysWrapped(rev, dbs, dialed) ==
    [d \in DB |->
        IF dbs[d] = NoConfig THEN NoPool
        ELSE IF dialed[d] # NoHandle
             THEN [cfg |-> dbs[d], db |-> dialed[d], made |-> rev]
        ELSE IF ~NeedUpdate(d, dbs)
             THEN [cfg |-> dbs[d], db |-> pools[d].db, made |-> rev]
        ELSE pools[d]]

NewPools(rev, dbs, dialed) ==
    [d \in DB |->
        IF dbs[d] = NoConfig THEN NoPool
        ELSE IF dialed[d] # NoHandle
             THEN [cfg |-> dbs[d], db |-> dialed[d], made |-> rev]
        ELSE IF ~NeedUpdate(d, dbs) /\ pools[d].cfg.env # dbs[d].env
             THEN [cfg |-> dbs[d], db |-> pools[d].db, made |-> rev]
        ELSE pools[d]]

NewFailed(dbs, dialed) ==
    [d \in DB |-> IF d \in ToDial(dbs) /\ dialed[d] = NoHandle
                  THEN dbs[d] ELSE NoConfig]

\* Fault: the pools of databases that left the config are forgotten.
ReplacedNotRemoved(dbs, dialed) ==
    {pools[d].db : d \in {x \in DB : pools[x] # NoPool /\ dialed[x] # NoHandle}}

(***************************************************************************)
(* toClose: the handles that no pool refers to after the commit.           *)
(***************************************************************************)
Replaced(dbs, dialed) ==
    {pools[d].db : d \in {x \in DB : /\ pools[x] # NoPool
                                     /\ \/ dbs[x] = NoConfig
                                        \/ dialed[x] # NoHandle}}

ApplyConfig(rev, dbs, dialed) ==
    /\ pools' = NewPools(rev, dbs, dialed)
    /\ failedPools' = NewFailed(dbs, dialed)
    /\ pmRevision' = rev
    /\ UNCHANGED <<open, serial>>

-----------------------------------------------------------------------------
(* commitReconnect                                                         *)

CanCommit(d, cfg, rev) ==
    /\ pmRevision = rev
    /\ failedPools[d] # NoConfig
    /\ failedPools[d] = cfg

CommitReconnect(d, cfg, h) ==
    /\ pools' = [pools EXCEPT ![d] =
                    [cfg |-> cfg, db |-> h, made |-> pmRevision]]
    /\ failedPools' = [failedPools EXCEPT ![d] = NoConfig]
    /\ UNCHANGED <<pmRevision, open, serial>>

-----------------------------------------------------------------------------
(* closePools: the only place that calls sql.DB.Close.                     *)

ClosePools(hs) ==
    /\ open' = open \ hs
    /\ UNCHANGED <<pools, failedPools, pmRevision, serial>>

PoolHandles == {pools[d].db : d \in {x \in DB : pools[x] # NoPool}}
=============================================================================
