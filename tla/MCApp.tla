------------------------------- MODULE MCApp -------------------------------
(***************************************************************************)
(* Small instances of App for TLC: two databases, one or two queries, and  *)
(* configurations that differ from each other in each of the ways that     *)
(* applyConfig and reconcile tell apart.                                   *)
(***************************************************************************)
EXTENDS AppInvariants, TLC

CONSTANTS a, b, c1, c2, e1, e2, q1, q2, s1, s2, k1, k2

On(conn, env) == [conn |-> conn, env |-> env]
Ask(db, sql, schema) == [db |-> db, sql |-> sql, schema |-> schema]

Given(dbs, queries, default, flawed) ==
    [dbs |-> dbs @@ [d \in DB |-> NoConfig],
     queries |-> queries @@ [n \in Query |-> NoQuery],
     defaultDB |-> default, flawed |-> flawed]

Base     == Given(a :> On(c1, e1), q1 :> Ask(a, s1, k1), NoDB, FALSE)
NewUrl   == Given(a :> On(c2, e1), q1 :> Ask(a, s2, k1), NoDB, FALSE)
NewEnv   == Given(a :> On(c1, e2), q1 :> Ask(a, s1, k1), NoDB, TRUE)
NewKeys  == Given(a :> On(c2, e1), q1 :> Ask(a, s2, k2), NoDB, FALSE)
MoveToB  == Given(a :> On(c2, e1) @@ b :> On(c1, e1),
                  q1 :> Ask(NoDB, s2, k1), b, FALSE)
MoveKeys == Given(b :> On(c1, e1), q1 :> Ask(b, s2, k2), NoDB, FALSE)
Nothing  == Given(b :> On(c1, e1), <<>>, NoDB, FALSE)

OneQueryConfigs == {Base, NewUrl, NewEnv, NewKeys, MoveToB, MoveKeys, Nothing}

Two      == Given(a :> On(c1, e1) @@ b :> On(c1, e1),
                  q1 :> Ask(a, s1, k1) @@ q2 :> Ask(b, s1, k1), NoDB, FALSE)
Swapped  == Given(a :> On(c1, e1) @@ b :> On(c2, e1),
                  q1 :> Ask(b, s1, k1) @@ q2 :> Ask(a, s1, k1), NoDB, FALSE)
BothNew  == Given(a :> On(c2, e1) @@ b :> On(c2, e1),
                  q1 :> Ask(a, s2, k1) @@ q2 :> Ask(a, s1, k1), NoDB, FALSE)

TwoQueryConfigs == {Two, Swapped, BothNew}

LivenessConfigs == {Base, NewUrl}
=============================================================================
