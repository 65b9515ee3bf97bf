--------------------------- MODULE MCConfigLoader ---------------------------
(***************************************************************************)
(* A small instance of ConfigLoader for TLC. The files are root.yaml, f =  *)
(* sub/y.yaml and g = sub/sub/y.yaml; out stands for those outside of the  *)
(* root's directory and none for those that do not exist. The paths are    *)
(* o = "../../o.yaml", r = "root.yaml", x = "sub/sub/y.yaml",              *)
(* p = "sub/y.yaml" and y = "y.yaml", which is also the base name of x, p  *)
(* and itself. Contents are broken, cloned, nested, circular or outside.   *)
(***************************************************************************)
EXTENDS ConfigLoaderProperties, TLC

CONSTANTS a, b, q, f, g, out, none, o, r, x, p, y, dr, ds, dt, dn

Order  == <<o, r, x, p, y>>
Bases  == o :> o @@ r :> r @@ x :> y @@ p :> y @@ y :> y
DirsOf == root :> dr @@ f :> ds @@ g :> dt @@ out :> dn @@ none :> dn

Nowhere == [w \in Path |-> none]
Joined ==
    dr :> (o :> out @@ r :> root @@ x :> g @@ p :> f @@ Nowhere) @@
    ds :> (o :> out @@ p :> g @@ y :> f @@ Nowhere) @@
    dt :> (y :> g @@ Nowhere) @@ dn :> Nowhere

NoEntries == [k \in Key |-> NoEntry]
Asks(d)   == [n \in Name |-> d]

With(dbs, queries, default, settings, includes, entries) ==
    [ok |-> TRUE, dbs |-> dbs, queries |-> queries, defaultDB |-> default,
     settingsDB |-> settings, includes |-> includes,
     entries |-> entries @@ NoEntries]

Plain(d) == With({}, Asks(d), NoDB, NoDB, {}, <<>>)
Broken   == [Plain(NoDB) EXCEPT !.ok = FALSE]

Elsewhere == out :> {Plain(NoDB)} @@ none :> {Broken}

RootContents ==
    {With({a, b}, Asks(NoDB), NoDB, a, {p}, p :> <<a, b>>),
     With({a, b}, Asks(NoQuery), NoDB, NoDB, {p, x}, y :> <<a>> @@ x :> <<a, b>>),
     With({a, b}, Asks(NoDB), a, NoDB, {p}, p :> <<b>>),
     With({a}, Asks(b), NoDB, b, {p, x}, p :> <<a>>),
     With({a}, Asks(NoDB), a, NoDB, {r, p}, r :> <<a>> @@ p :> <<>>),
     Broken}

IncludeContents ==
    {Plain(NoDB), Plain(b), Broken,
     With({b}, Asks(NoDB), NoDB, b, {p}, p :> <<b>>),
     With({b}, Asks(NoDB), NoDB, NoDB, {p}, <<>>),
     With({}, Asks(NoDB), b, NoDB, {y}, <<>>),
     With({b}, Asks(NoDB), NoDB, a, {o}, o :> <<a>>)}

NestedContents == {Plain(a), With({b}, Asks(NoDB), NoDB, NoDB, {}, <<>>), Broken}

SmallContents == root :> RootContents @@ f :> IncludeContents
                   @@ g :> NestedContents @@ Elsewhere

PlainRootContents ==
    {With({a, b}, Asks(NoDB), NoDB, a, {p, x}, p :> <<a, b>> @@ x :> <<b, a>>),
     With({a, b}, Asks(NoQuery), b, NoDB, {p}, y :> <<b, a, b>>),
     With({a}, Asks(b), NoDB, b, {p, x}, p :> <<a, b>> @@ x :> <<a>>),
     Broken}

PlainIncludeContents ==
    {Plain(NoDB), Plain(b), Broken, With({b}, Asks(NoDB), NoDB, b, {}, x :> <<b>>)}

PlainContents == root :> PlainRootContents @@ f :> PlainIncludeContents
                   @@ g :> PlainIncludeContents @@ Elsewhere

\* These contents meet the hypothesis of the theorem ClonesRunApart.
ASSUME PlainContentsArePlain == PlainIncludes(PlainContents)
=============================================================================
