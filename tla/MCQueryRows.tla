----------------------------- MODULE MCQueryRows -----------------------------
(***************************************************************************)
(* Small instances of QueryRows for TLC. In Clones two queries share a     *)
(* metric on two databases, as the clones of one query do; in Renamed a    *)
(* query gets another key but keeps its metric and its database.           *)
(***************************************************************************)
EXTENDS QueryRowsInvariants, TLC

CONSTANTS a, b, c1, c2, e1, e2, q1, q2, s1, s2, k1, k2, l1, x1, x2, v1, v2, m1, r1, r2

On(conn, env) == [conn |-> conn, env |-> env]
Ask(db, sql, schema) == [db |-> db, sql |-> sql, schema |-> schema]

Given(dbs, queries) ==
    [dbs |-> dbs @@ [d \in DB |-> NoConfig],
     queries |-> queries @@ [n \in Query |-> NoQuery],
     defaultDB |-> NoDB, flawed |-> FALSE]

OneMetric == [n \in Query |-> m1]
Static    == k1 :> {} @@ k2 :> {l1}
Values    == s1 :> v1 @@ s2 :> v2
Columns   == s1 :> {{x1}} @@ s2 :> {{x2}}

Both     == a :> On(c1, e1) @@ b :> On(c1, e1)
Cloned   == Given(Both, q1 :> Ask(a, s1, k1) @@ q2 :> Ask(b, s1, k1))
Altered  == Given(a :> On(c1, e1) @@ b :> On(c1, e2),
                  q1 :> Ask(a, s1, k2) @@ q2 :> Ask(b, s2, k1))
Single   == Given(a :> On(c2, e2), q1 :> Ask(a, s1, k2))

Clones == {Cloned, Altered, Single}

Before  == Given(a :> On(c1, e1), q1 :> Ask(a, s1, k1))
After   == Given(a :> On(c1, e1), q2 :> Ask(a, s1, k1))
Renamed == {Before, After}

Moved == {Before, Given(Both, q1 :> Ask(b, s1, k1)),
          Given(Both, q1 :> Ask(a, s2, k1))}

\* The instance with clones meets the hypothesis of the theorems of
\* QueryRowsClonesProofs.
ASSUME ClonesAreApart == Configs = Clones => ClonesStayApart
=============================================================================
