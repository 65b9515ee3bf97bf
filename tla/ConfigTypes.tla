---------------------------- MODULE ConfigTypes ----------------------------
(***************************************************************************)
(* The configuration values that the parts of the exporter pass to each    *)
(* other: src/config.go's DBConfig, QueryConfig and Config as they are     *)
(* AFTER loadConfig, validateDatabasesAndSettings and sanitizeQueries, and *)
(* src/pool_manager.go's dbPool.                                           *)
(***************************************************************************)
EXTENDS Naturals, FiniteSets

CONSTANTS
    DB,        \* names of databases: the keys of Config.Databases
    Conn,      \* what a pool is dialled with: driver, url and pool settings
    Env,       \* values of databases.<db>.env
    Query,     \* worker keys: the keys of Config.Queries, after cloning
    Sql,       \* what may change without a schema change: sql, timeout, ...
    Schema,    \* value_column and the names of the static labels
    NoDB,      \* the empty database name
    NoConfig,  \* a database or a failed pool that is not in its map
    NoPool,    \* a pool that is not in its map
    NoHandle,  \* no *sql.DB
    NoQuery,   \* a query that is not in its map
    NoWorker   \* a worker that is not in its map

(***************************************************************************)
(* Two DBConfigs with the same conn differ for applyConfig at most in env: *)
(* its needUpdate compares every field but Env.                            *)
(***************************************************************************)
DBConfig == [conn : Conn, env : Env]

(***************************************************************************)
(* A *sql.DB: the n-th one opened for a database of that name.             *)
(***************************************************************************)
Handle == DB \X Nat

(***************************************************************************)
(* A *dbPool. The code compares these by address; made, the revision in    *)
(* which the struct was allocated, tells apart two structs that hold the   *)
(* same cfg and db.                                                        *)
(***************************************************************************)
Pool == [cfg : DBConfig, db : Handle, made : Nat]

QueryConfig == [db : DB \cup {NoDB}, sql : Sql, schema : Schema]

(***************************************************************************)
(* flawed: an include failed to load or a query was dropped by             *)
(* sanitizeQueries; the rest of the config is applied all the same.        *)
(***************************************************************************)
Config == [dbs       : [DB -> DBConfig \cup {NoConfig}],
           queries   : [Query -> QueryConfig \cup {NoQuery}],
           defaultDB : DB \cup {NoDB},
           flawed    : BOOLEAN]

(***************************************************************************)
(* What validateDatabasesAndSettings and sanitizeQueries let through: the  *)
(* default database is defined, and so is the database of every query,     *)
(* its own or, if it names none, the default one.                          *)
(***************************************************************************)
WellFormed(c) ==
    /\ c.defaultDB # NoDB => c.dbs[c.defaultDB] # NoConfig
    /\ \A n \in Query : c.queries[n] # NoQuery =>
           LET d == IF c.queries[n].db = NoDB THEN c.defaultDB
                                              ELSE c.queries[n].db
           IN  d # NoDB /\ c.dbs[d] # NoConfig

ASSUME SentinelsAreNotValues ==
    /\ NoDB \notin DB
    /\ NoConfig \notin DBConfig
    /\ NoPool \notin Pool
    /\ NoHandle \notin Handle
    /\ NoQuery \notin Query
    /\ NoQuery \notin QueryConfig
    /\ NoWorker \notin [cfg : [db : DB, sql : Sql, schema : Schema], pool : Pool]
=============================================================================
