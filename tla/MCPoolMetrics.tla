---------------------------- MODULE MCPoolMetrics ----------------------------
(***************************************************************************)
(* Small instances of PoolMetrics for TLC: configurations that connect,    *)
(* replace and remove a database.                                          *)
(***************************************************************************)
EXTENDS PoolMetricsProperties, TLC

CONSTANTS a, c1, c2, e1

On(conn)   == [conn |-> conn, env |-> e1]
Given(dbs) == dbs @@ [d \in DB |-> NoConfig]

OneDatabase == {Given(a :> On(c1)), Given(a :> On(c2)), Given(<<>>)}
=============================================================================
