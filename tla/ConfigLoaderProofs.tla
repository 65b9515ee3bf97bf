------------------------- MODULE ConfigLoaderProofs -------------------------
(***************************************************************************)
(* Theorems about ConfigLoader. Its functions are recursive, by the levels *)
(* of includes and by the includes of a file; what is said of their values *)
(* is proved by induction, in the form of Induction: a set of numbers that *)
(* has 0, and each number after one that it has, has them all.             *)
(***************************************************************************)
EXTENDS ConfigLoaderProperties, SequenceTheorems, WellFoundedInduction, TLAPS

-----------------------------------------------------------------------------
(* Induction                                                               *)

LEMMA LeastOfNaturals ==
    ASSUME NEW S \in SUBSET Nat, S # {}
    PROVE  \E x \in S : \A y \in S : x <= y
<1> DEFINE R == OpToRel(<, Nat)
<1>1. IsWellFoundedOn(R, Nat)
  BY NatLessThanWellFounded
<1>2. \E x \in S : \A y \in S : <<y, x>> \notin R
  <2> HIDE DEF R
  <2> QED
    BY <1>1, WFMin
<1>3. \A x, y \in S : <<y, x>> \notin R => x <= y
  BY DEF OpToRel
<1> QED
  BY <1>2, <1>3

LEMMA Induction ==
    ASSUME NEW n \in Nat, NEW S, 0 \in S,
           \A i \in 1 .. n : i - 1 \in S => i \in S
    PROVE  0 .. n \subseteq S
<1> DEFINE T == {i \in 0 .. n : i \notin S}
<1>1. SUFFICES ASSUME T # {}
               PROVE  FALSE
  OBVIOUS
<1>2. PICK x \in T : \A y \in T : x <= y
  <2>1. T \in SUBSET Nat
    OBVIOUS
  <2> HIDE DEF T
  <2> QED
    BY <1>1, <2>1, LeastOfNaturals
<1>3. x \in 1 .. n /\ x - 1 \in 0 .. n /\ x - 1 \notin T
  BY <1>2
<1> QED
  BY <1>3

-----------------------------------------------------------------------------
(* The equations that the recursive functions conform to                   *)

ListsCalls(up, f, c, entries, reject) ==
    /\ up[0] = <<>>
    /\ \A i \in 1 .. Len(PathOrder) :
          up[i] = up[i - 1] \o CallsFor(f, PathOrder[i], c, entries, reject)

LEMMA CallsUpToDef ==
    ASSUME NEW f, NEW c, NEW entries, NEW reject
    PROVE  ListsCalls(CallsUpTo(f, c, entries, reject), f, c, entries, reject)
<1> DEFINE n == Len(PathOrder)
           Part(x, i) == x \o CallsFor(f, PathOrder[i], c, entries, reject)
           Is(k, h) == h = [i \in 0 .. k |->
                               IF i = 0 THEN <<>> ELSE Part(h[i - 1], i)]
           S == {k \in 0 .. n : \E h : Is(k, h)}
<1>1. n \in Nat
  BY LoaderAssumption
<1> HIDE DEF n
<1>2. 0 \in S
  <2>1. Is(0, [i \in 0 .. 0 |-> <<>>])
    OBVIOUS
  <2> HIDE DEF Is
  <2> QED
    BY <1>1, <2>1
<1>3. ASSUME NEW k \in 1 .. n, k - 1 \in S
      PROVE  k \in S
  <2> HIDE DEF Part
  <2>1. PICK h : Is(k - 1, h)
    BY <1>3
  <2> DEFINE g == [i \in 0 .. k |-> IF i < k THEN h[i] ELSE Part(h[k - 1], k)]
  <2>2. ASSUME NEW i \in 0 .. k
        PROVE  g[i] = IF i = 0 THEN <<>> ELSE Part(g[i - 1], i)
    BY <2>1
  <2>3. Is(k, g)
    <3> HIDE DEF g
    <3>1. g = [i \in 0 .. k |-> g[i]]
      BY DEF g
    <3> QED
      BY <2>2, <3>1
  <2> HIDE DEF Is, g
  <2> QED
    BY <1>1, <1>3, <2>3
<1>4. n \in S
  <2> HIDE DEF S
  <2> QED
    BY <1>1, <1>2, <1>3, Induction
<1>5. \E h : Is(n, h)
  BY <1>4
<1>6. CallsUpTo(f, c, entries, reject) = CHOOSE h : Is(n, h)
  BY Zenon DEF CallsUpTo, n
<1>7. Is(n, CHOOSE h : Is(n, h))
  <2> HIDE DEF Is
  <2> QED
    BY <1>5
<1> DEFINE up == CallsUpTo(f, c, entries, reject)
<1>8. /\ up[0] = <<>>
      /\ \A i \in 1 .. n : up[i] = Part(up[i - 1], i)
  <2>1. Is(n, up)
    BY <1>6, <1>7
  <2> HIDE DEF up, Part
  <2> QED
    BY <1>1, <2>1
<1> QED
  BY <1>8 DEF n, ListsCalls

LEMMA MergedUpToDef ==
    ASSUME NEW own, NEW calls, Len(calls) \in Nat, NEW loaded
    PROVE  /\ MergedUpTo(own, calls, loaded)[0] = own
           /\ \A i \in 1 .. Len(calls) :
                 MergedUpTo(own, calls, loaded)[i] =
                     AddInclude(MergedUpTo(own, calls, loaded)[i - 1], calls[i],
                                loaded[calls[i]])
<1> DEFINE n == Len(calls)
           Part(x, i) == AddInclude(x, calls[i], loaded[calls[i]])
           Is(k, h) == h = [i \in 0 .. k |->
                               IF i = 0 THEN own ELSE Part(h[i - 1], i)]
           S == {k \in 0 .. n : \E h : Is(k, h)}
<1>1. n \in Nat
  OBVIOUS
<1> HIDE DEF n
<1>2. 0 \in S
  <2>1. Is(0, [i \in 0 .. 0 |-> own])
    OBVIOUS
  <2> HIDE DEF Is
  <2> QED
    BY <1>1, <2>1
<1>3. ASSUME NEW k \in 1 .. n, k - 1 \in S
      PROVE  k \in S
  <2> HIDE DEF Part
  <2>1. PICK h : Is(k - 1, h)
    BY <1>3
  <2> DEFINE g == [i \in 0 .. k |-> IF i < k THEN h[i] ELSE Part(h[k - 1], k)]
  <2>2. ASSUME NEW i \in 0 .. k
        PROVE  g[i] = IF i = 0 THEN own ELSE Part(g[i - 1], i)
    BY <2>1
  <2>3. Is(k, g)
    <3> HIDE DEF g
    <3>1. g = [i \in 0 .. k |-> g[i]]
      BY DEF g
    <3> QED
      BY <2>2, <3>1
  <2> HIDE DEF Is, g
  <2> QED
    BY <1>1, <1>3, <2>3
<1>4. n \in S
  <2> HIDE DEF S
  <2> QED
    BY <1>1, <1>2, <1>3, Induction
<1>5. \E h : Is(n, h)
  BY <1>4
<1>6. MergedUpTo(own, calls, loaded) = CHOOSE h : Is(n, h)
  BY Zenon DEF MergedUpTo, n
<1>7. Is(n, CHOOSE h : Is(n, h))
  <2> HIDE DEF Is
  <2> QED
    BY <1>5
<1> DEFINE up == MergedUpTo(own, calls, loaded)
<1>8. /\ up[0] = own
      /\ \A i \in 1 .. n : up[i] = Part(up[i - 1], i)
  <2>1. Is(n, up)
    BY <1>6, <1>7
  <2> HIDE DEF up, Part
  <2> QED
    BY <1>1, <2>1
<1> QED
  BY <1>8 DEF n

LEMMA LoadDef ==
    ASSUME NEW files
    PROVE  LET up == Load(files)
           IN  \A i \in 0 .. MaxIncludeDepth + 1 : \A call \in Call :
                   up[i][call] = LoadFile(files, i, call, up[i - 1])
<1> DEFINE n == MaxIncludeDepth + 1
           Part(x, i) == [call \in Call |-> LoadFile(files, i, call, x)]
           Is(k, h) == h = [i \in 0 .. k |-> Part(h[i - 1], i)]
           S == {k \in 0 .. n : \E h : Is(k, h)}
<1>1. n \in Nat
  BY LoaderAssumption
<1> HIDE DEF n
<1>0. \A x : Part(x, 0) = [call \in Call |-> Failed]
  BY DEF LoadFile, FileFails
<1>2. 0 \in S
  <2>1. Is(0, [i \in 0 .. 0 |-> [call \in Call |-> Failed]])
    BY <1>0
  <2> HIDE DEF Is
  <2> QED
    BY <1>1, <2>1
<1>3. ASSUME NEW k \in 1 .. n, k - 1 \in S
      PROVE  k \in S
  <2> HIDE DEF Part
  <2>1. PICK h : Is(k - 1, h)
    BY <1>3
  <2> DEFINE g == [i \in 0 .. k |-> IF i < k THEN h[i] ELSE Part(h[k - 1], k)]
  <2>2. ASSUME NEW i \in 0 .. k
        PROVE  g[i] = Part(g[i - 1], i)
    <3>1. CASE i = 0
      BY <1>0, <2>1, <3>1
    <3>2. CASE i # 0
      BY <2>1, <3>2
    <3> QED
      BY <3>1, <3>2
  <2>3. Is(k, g)
    <3> HIDE DEF g
    <3>1. g = [i \in 0 .. k |-> g[i]]
      BY DEF g
    <3> QED
      BY <2>2, <3>1
  <2> HIDE DEF Is, g
  <2> QED
    BY <1>1, <1>3, <2>3
<1>4. n \in S
  <2> HIDE DEF S
  <2> QED
    BY <1>1, <1>2, <1>3, Induction
<1>5. \E h : Is(n, h)
  BY <1>4
<1>6. Load(files) = CHOOSE h : Is(n, h)
  BY Zenon DEF Load, n
<1>7. Is(n, CHOOSE h : Is(n, h))
  <2> HIDE DEF Is
  <2> QED
    BY <1>5
<1> DEFINE up == Load(files)
<1>8. \A i \in 0 .. n : up[i] = Part(up[i - 1], i)
  <2>1. Is(n, up)
    BY <1>6, <1>7
  <2> HIDE DEF up, Part
  <2> QED
    BY <1>1, <2>1
<1>9. ASSUME NEW i \in 0 .. n, NEW call \in Call
      PROVE  up[i][call] = LoadFile(files, i, call, up[i - 1])
  <2> HIDE DEF up
  <2> QED
    BY <1>8
<1> QED
  BY <1>9 DEF n

-----------------------------------------------------------------------------
(* The loads of the includes of a file                                     *)

Entries == [Key -> Seq(DB) \cup {NoEntry}]

(***************************************************************************)
(* What holds of the loads that a file asks for: an include of the file,   *)
(* for a database of its entry; a load for one of several databases, or    *)
(* below one, rejects the queries that name their database.                *)
(***************************************************************************)
CallsOf(f, c, entries, reject) ==
    {x \in Call : /\ x.entries = entries
                  /\ \E p \in c.includes :
                         /\ x.file = FullPath(f, p)
                         /\ EntryOf(entries, p) # NoEntry
                         /\ x.db \in DB
                         /\ x.db \in ToSet(EntryOf(entries, p))
                         /\ x.suffix <=> Len(EntryOf(entries, p)) > 1
                  /\ x.suffix => x.reject
                  /\ reject => x.reject}

LEMMA FullPathType ==
    ASSUME NEW f \in File, NEW p \in Path
    PROVE  FullPath(f, p) \in File
BY LoaderAssumption DEF FullPath

LEMMA EntryOfType ==
    ASSUME NEW entries \in Entries, NEW p \in Path
    PROVE  EntryOf(entries, p) \in Seq(DB) \cup {NoEntry}
BY LoaderAssumption DEF Entries, EntryOf, Key

LEMMA CallsForType ==
    ASSUME NEW c \in Content, NEW entries \in Entries, NEW reject \in BOOLEAN,
           NEW f \in File, NEW p \in Path
    PROVE  CallsFor(f, p, c, entries, reject) \in Seq(CallsOf(f, c, entries, reject))
<1> DEFINE dbs == EntryOf(entries, p)
           x(i) == [file |-> FullPath(f, p), db |-> dbs[i], entries |-> entries,
                    suffix |-> Len(dbs) > 1, reject |-> reject \/ Len(dbs) > 1]
<1>1. CASE p \notin c.includes \/ dbs = NoEntry
  <2>1. CallsFor(f, p, c, entries, reject) = <<>>
    BY <1>1 DEF CallsFor
  <2> QED
    BY <2>1
<1>2. CASE p \in c.includes /\ dbs # NoEntry
  <2>1. dbs \in Seq(DB)
    BY <1>2, EntryOfType
  <2>2. CallsFor(f, p, c, entries, reject) = [i \in 1 .. Len(dbs) |-> x(i)]
    <3>1. DOMAIN dbs = 1 .. Len(dbs)
      BY <2>1
    <3>2. CallsFor(f, p, c, entries, reject) = [i \in DOMAIN dbs |-> x(i)]
      BY ONLY <1>2 DEF CallsFor
    <3> QED
      BY <3>1, <3>2
  <2>3. ASSUME NEW i \in 1 .. Len(dbs)
        PROVE  x(i) \in CallsOf(f, c, entries, reject)
    <3>1. dbs[i] \in DB /\ dbs[i] \in ToSet(dbs)
      BY <2>1 DEF ToSet
    <3>2. x(i) \in Call
      BY <3>1, <2>1, FullPathType DEF Call, Entries
    <3> QED
      BY <1>2, <2>1, <3>1, <3>2 DEF CallsOf
  <2> HIDE DEF x
  <2>4. [i \in 1 .. Len(dbs) |-> x(i)] \in Seq(CallsOf(f, c, entries, reject))
    BY <2>1, <2>3
  <2> QED
    BY <2>2, <2>4
<1> QED
  BY <1>1, <1>2

LEMMA IncludeCallsType ==
    ASSUME NEW f \in File, NEW c \in Content, NEW entries \in Entries,
           NEW reject \in BOOLEAN
    PROVE  IncludeCalls(f, c, entries, reject) \in Seq(CallsOf(f, c, entries, reject))
<1> DEFINE n == Len(PathOrder)
           T == CallsOf(f, c, entries, reject)
           up == CallsUpTo(f, c, entries, reject)
           S == {i \in 0 .. n : up[i] \in Seq(T)}
<1>1. n \in Nat /\ PathOrder \in Seq(Path)
  BY LoaderAssumption
<1>2. /\ up[0] = <<>>
      /\ \A i \in 1 .. n :
            up[i] = up[i - 1] \o CallsFor(f, PathOrder[i], c, entries, reject)
  <2>1. ListsCalls(up, f, c, entries, reject)
    BY CallsUpToDef
  <2> HIDE DEF up
  <2> QED
    BY <2>1 DEF ListsCalls
<1> HIDE DEF up, T
<1>3. 0 \in S
  <2>1. 0 \in 0 .. n
    BY <1>1
  <2>2. up[0] \in Seq(T)
    BY <1>2, EmptySeq
  <2> QED
    BY <2>1, <2>2
<1>4. ASSUME NEW i \in 1 .. n, i - 1 \in S
      PROVE  i \in S
  <2>0. i \in 0 .. n /\ up[i - 1] \in Seq(T)
    BY <1>1, <1>4
  <2>1. PathOrder[i] \in Path
    BY <1>1
  <2>2. CallsFor(f, PathOrder[i], c, entries, reject) \in Seq(T)
    BY <2>1, CallsForType DEF T
  <2> QED
    <3>1. up[i] \in Seq(T)
      BY <1>2, <2>0, <2>2, ConcatProperties
    <3> QED
      BY <2>0, <3>1
<1>5. n \in S
  <2> HIDE DEF S, n
  <2> QED
    BY <1>1, <1>3, <1>4, Induction
<1> QED
  BY <1>5 DEF IncludeCalls, up, T

-----------------------------------------------------------------------------
(* The types of what is loaded                                             *)

DBOrNone == DB \cup {NoDB}

QueryDef == [db : DBOrNone, from : File]

WorkerKey == {k \in Seq(Name \cup DB) :
                 /\ Len(k) > 0 /\ k[1] \in Name
                 /\ \A i \in 2 .. Len(k) : k[i] \in DB}

Queries == UNION {[K -> QueryDef] : K \in SUBSET WorkerKey}

LoadedConfig == [dbs          : [DB -> File \cup {NoFile}],
                 queries      : Queries,
                 failed       : SUBSET (File \X DBOrNone),
                 dependencies : SUBSET File]

LEMMA QueriesIntro ==
    ASSUME NEW K \in SUBSET WorkerKey, NEW f \in [K -> QueryDef]
    PROVE  f \in Queries
BY DEF Queries

LEMMA QueriesElim ==
    ASSUME NEW f \in Queries
    PROVE  /\ DOMAIN f \in SUBSET WorkerKey
           /\ f \in [DOMAIN f -> QueryDef]
BY DEF Queries

LEMMA FailedIsNoConfig ==
    Failed \notin LoadedConfig
BY DEF Failed, LoadedConfig

LEMMA AppendKey ==
    ASSUME NEW k \in WorkerKey, NEW d \in DB
    PROVE  /\ Append(k, d) \in WorkerKey
           /\ Front(Append(k, d)) = k
           /\ Append(k, d)[1] = k[1]
           /\ Len(Append(k, d)) = Len(k) + 1
           /\ Append(k, d)[Len(k) + 1] = d
<1> DEFINE a == Append(k, d)
<1>1. k \in Seq(Name \cup DB) /\ Len(k) \in Nat /\ Len(k) > 0
  BY DEF WorkerKey
<1>2. /\ a \in Seq(Name \cup DB)
      /\ Len(a) = Len(k) + 1
      /\ \A i \in 1 .. Len(k) : a[i] = k[i]
      /\ a[Len(k) + 1] = d
  BY <1>1, AppendProperties
<1> HIDE DEF a
<1>3. a[1] = k[1]
  BY <1>1, <1>2
<1>4. a \in WorkerKey
  <2>1. ASSUME NEW i \in 2 .. Len(a)
        PROVE  a[i] \in DB
    <3>1. CASE i = Len(k) + 1
      BY <1>2, <3>1
    <3>2. CASE i # Len(k) + 1
      <4>1. i \in 2 .. Len(k) /\ i \in 1 .. Len(k)
        BY <1>1, <1>2, <3>2
      <4> QED
        BY <1>2, <4>1 DEF WorkerKey
    <3> QED
      BY <3>1, <3>2
  <2> QED
    BY <1>1, <1>2, <1>3, <2>1 DEF WorkerKey
<1>5. Front(a) = k
  <2>1. Front(a) = SubSeq(a, 1, Len(k))
    BY <1>1, <1>2 DEF Front
  <2>2. SubSeq(a, 1, Len(k)) = k
    BY <1>1, <1>2
  <2> QED
    BY <2>1, <2>2
<1> QED
  BY <1>2, <1>3, <1>4, <1>5 DEF a

LEMMA CloneType ==
    ASSUME NEW inc \in LoadedConfig, NEW d \in DB
    PROVE  LET clone == CloneQueriesForDB(inc, d)
           IN  /\ clone \in LoadedConfig
               /\ clone.dbs = inc.dbs
               /\ clone.dependencies = inc.dependencies
               /\ DOMAIN clone.queries = {Append(key, d) : key \in DOMAIN inc.queries}
               /\ \A key \in DOMAIN inc.queries :
                     clone.queries[Append(key, d)] = inc.queries[key]
<1> DEFINE K == {Append(key, d) : key \in DOMAIN inc.queries}
           g == [k \in K |-> inc.queries[Front(k)]]
<1>1. inc.queries \in Queries
  BY DEF LoadedConfig
<1>2. \A key \in DOMAIN inc.queries :
         key \in WorkerKey /\ inc.queries[key] \in QueryDef
  BY <1>1, QueriesElim
<1>3. \A key \in DOMAIN inc.queries :
         Append(key, d) \in WorkerKey /\ Front(Append(key, d)) = key
  BY <1>2, AppendKey
<1>4. g \in Queries
  <2>1. K \in SUBSET WorkerKey
    BY <1>3
  <2>2. g \in [K -> QueryDef]
    BY <1>2, <1>3
  <2> HIDE DEF K, g
  <2> QED
    BY <2>1, <2>2, QueriesIntro
<1>5. \A key \in DOMAIN inc.queries : g[Append(key, d)] = inc.queries[key]
  BY <1>3
<1>6. CloneQueriesForDB(inc, d) = [inc EXCEPT !.queries = g]
  BY DEF CloneQueriesForDB
<1>7. DOMAIN g = K
  OBVIOUS
<1> HIDE DEF g
<1>8. /\ [inc EXCEPT !.queries = g] \in LoadedConfig
      /\ [inc EXCEPT !.queries = g].dbs = inc.dbs
      /\ [inc EXCEPT !.queries = g].dependencies = inc.dependencies
      /\ [inc EXCEPT !.queries = g].queries = g
  BY <1>4 DEF LoadedConfig
<1> QED
  BY <1>5, <1>6, <1>7, <1>8

LEMMA MergeType ==
    ASSUME NEW cfg \in LoadedConfig, NEW inc \in LoadedConfig
    PROVE  MergeConfig(cfg, inc) \in LoadedConfig
<1> DEFINE K == DOMAIN cfg.queries \cup DOMAIN inc.queries
           g == [k \in K |-> IF k \in DOMAIN inc.queries THEN inc.queries[k]
                                                        ELSE cfg.queries[k]]
<1>1. cfg.queries \in Queries /\ inc.queries \in Queries
  BY DEF LoadedConfig
<1>2. g \in Queries
  <2>1. /\ \A k \in DOMAIN cfg.queries : k \in WorkerKey /\ cfg.queries[k] \in QueryDef
        /\ \A k \in DOMAIN inc.queries : k \in WorkerKey /\ inc.queries[k] \in QueryDef
    BY <1>1, QueriesElim
  <2>2. K \in SUBSET WorkerKey /\ g \in [K -> QueryDef]
    BY <2>1
  <2> HIDE DEF K, g
  <2> QED
    BY <2>2, QueriesIntro
<1>3. MergeConfig(cfg, inc).queries = g
  BY DEF MergeConfig
<1> HIDE DEF g
<1> QED
  BY <1>2, <1>3 DEF MergeConfig, LoadedConfig

LEMMA EffectiveType ==
    ASSUME NEW c \in Content, NEW isRoot \in BOOLEAN, NEW p \in DBOrNone
    PROVE  EffectiveDefaultDB(c, isRoot, p) \in DBOrNone
BY DEF EffectiveDefaultDB, Content, DBOrNone

LEMMA OwnPartType ==
    ASSUME NEW call \in Call, NEW c \in Content, NEW d \in DBOrNone
    PROVE  OwnPart(call, c, d) \in LoadedConfig
<1> DEFINE K == {<<q>> : q \in QueriesOf(c)}
           g == [k \in K |-> [db |-> IF c.queries[k[1]] = NoDB
                                     THEN d ELSE c.queries[k[1]],
                              from |-> call.file]]
<1>1. \A q \in QueriesOf(c) : <<q>> \in WorkerKey
  BY DEF QueriesOf, WorkerKey
<1>2. \A q \in QueriesOf(c) : c.queries[q] \in DBOrNone
  BY DEF QueriesOf, Content, DBOrNone
<1>3. call.file \in File
  BY DEF Call
<1>4. g \in Queries
  <2>1. K \in SUBSET WorkerKey
    BY <1>1
  <2>2. g \in [K -> QueryDef]
    BY <1>2, <1>3 DEF QueryDef
  <2> HIDE DEF K, g
  <2> QED
    BY <2>1, <2>2, QueriesIntro
<1>5. OwnPart(call, c, d).queries = g
  BY DEF OwnPart
<1> HIDE DEF g
<1>6. Dependencies(call, c) \in SUBSET File
  BY <1>3, FullPathType DEF Dependencies, Content
<1> QED
  BY <1>3, <1>4, <1>5, <1>6 DEF OwnPart, LoadedConfig

\* What a load returns: a configuration or an error.
Result == LoadedConfig \cup {Failed}

LEMMA AddIncludeType ==
    ASSUME NEW cfg \in LoadedConfig, NEW call \in Call, call.db \in DB,
           NEW inc \in Result
    PROVE  LET sum == AddInclude(cfg, call, inc)
           IN  /\ sum \in LoadedConfig
               /\ cfg.dependencies \subseteq sum.dependencies
               /\ inc # Failed => inc.dependencies \subseteq sum.dependencies
<1> DEFINE sum == AddInclude(cfg, call, inc)
<1>1. CASE inc = Failed
  <2> DEFINE all == cfg.failed \cup {<<call.file, call.db>>}
  <2>1. sum = [cfg EXCEPT !.failed = all]
    BY <1>1 DEF AddInclude
  <2>2. all \in SUBSET (File \X DBOrNone)
    <3>1. call.file \in File /\ call.db \in DBOrNone
      BY DEF Call, DBOrNone
    <3>2. cfg.failed \in SUBSET (File \X DBOrNone)
      BY DEF LoadedConfig
    <3> QED
      BY <3>1, <3>2
  <2> HIDE DEF all
  <2>3. /\ [cfg EXCEPT !.failed = all] \in LoadedConfig
        /\ [cfg EXCEPT !.failed = all].dependencies = cfg.dependencies
    BY <2>2 DEF LoadedConfig
  <2> QED
    BY <1>1, <2>1, <2>3
<1>2. CASE inc # Failed
  <2>1. PICK part \in LoadedConfig :
           /\ part.dependencies = inc.dependencies
           /\ sum = MergeConfig(cfg, part)
    <3>1. inc \in LoadedConfig
      BY <1>2 DEF Result
    <3>2. CASE call.suffix
      <4> DEFINE part == CloneQueriesForDB(inc, call.db)
      <4>1. part \in LoadedConfig /\ part.dependencies = inc.dependencies
        BY <3>1, CloneType
      <4>2. sum = MergeConfig(cfg, part)
        BY <1>2, <3>2 DEF AddInclude
      <4> QED
        BY <4>1, <4>2
    <3>3. CASE ~call.suffix
      <4>1. sum = MergeConfig(cfg, inc)
        BY <1>2, <3>3 DEF AddInclude
      <4> QED
        BY <3>1, <4>1
    <3> QED
      BY <3>2, <3>3
  <2>2. sum \in LoadedConfig
    BY <2>1, MergeType
  <2>3. sum.dependencies = cfg.dependencies \cup part.dependencies
    BY <2>1 DEF MergeConfig
  <2> QED
    BY <2>1, <2>2, <2>3
<1> QED
  BY <1>1, <1>2

LEMMA MergedType ==
    ASSUME NEW own \in LoadedConfig, NEW T \in SUBSET Call, \A x \in T : x.db \in DB,
           NEW calls \in Seq(T), NEW loaded, \A x \in Call : loaded[x] \in Result
    PROVE  \A i \in 0 .. Len(calls) :
               /\ MergedUpTo(own, calls, loaded)[i] \in LoadedConfig
               /\ own.dependencies
                     \subseteq MergedUpTo(own, calls, loaded)[i].dependencies
<1> DEFINE n == Len(calls)
           m == MergedUpTo(own, calls, loaded)
           S == {i \in 0 .. n : /\ m[i] \in LoadedConfig
                                /\ own.dependencies \subseteq m[i].dependencies}
<1>1. n \in Nat
  OBVIOUS
<1>2. /\ m[0] = own
      /\ \A i \in 1 .. n : m[i] = AddInclude(m[i - 1], calls[i], loaded[calls[i]])
  BY ONLY <1>1, MergedUpToDef
<1> HIDE DEF m
<1>3. 0 \in S
  BY <1>1, <1>2
<1>4. ASSUME NEW i \in 1 .. n, i - 1 \in S
      PROVE  i \in S
  <2>1. calls[i] \in T
    OBVIOUS
  <2>2. calls[i] \in Call /\ calls[i].db \in DB /\ loaded[calls[i]] \in Result
    BY <2>1
  <2>3. m[i - 1] \in LoadedConfig
    BY <1>4
  <2>4. /\ m[i] \in LoadedConfig
        /\ m[i - 1].dependencies \subseteq m[i].dependencies
    BY <1>2, <2>2, <2>3, AddIncludeType
  <2> QED
    BY <1>1, <1>4, <2>4
<1>5. 0 .. n \subseteq S
  <2> HIDE DEF S, n
  <2> QED
    BY <1>1, <1>3, <1>4, Induction
<1> QED
  BY <1>5 DEF m

-----------------------------------------------------------------------------
(* One file, and all of them                                               *)

Disks == [File -> Content]

EntriesIn(files, call) ==
    MergeIncludeDefaults(call.entries, files[call.file].entries)

CallsIn(files, call) ==
    IncludeCalls(call.file, files[call.file], EntriesIn(files, call), call.reject)

OwnIn(files, left, call) ==
    OwnPart(call, files[call.file],
            EffectiveDefaultDB(files[call.file], left = MaxIncludeDepth + 1, call.db))

Fails(files, left, call) ==
    FileFails(call.file, files[call.file], left, call.reject)

LEMMA LoadFileIs ==
    ASSUME NEW files, NEW left, NEW call, NEW loaded
    PROVE  LoadFile(files, left, call, loaded) =
               IF Fails(files, left, call) THEN Failed
               ELSE MergedUpTo(OwnIn(files, left, call), CallsIn(files, call), loaded)
                        [Len(CallsIn(files, call))]
BY Zenon DEF LoadFile, Fails, OwnIn, CallsIn, EntriesIn

LEMMA CallsInType ==
    ASSUME NEW files \in Disks, NEW call \in Call
    PROVE  /\ EntriesIn(files, call) \in Entries
           /\ CallsIn(files, call)
                 \in Seq(CallsOf(call.file, files[call.file],
                                 EntriesIn(files, call), call.reject))
<1>1. call.file \in File /\ files[call.file] \in Content /\ call.reject \in BOOLEAN
  BY DEF Disks, Call
<1>2. EntriesIn(files, call) \in Entries
  BY <1>1 DEF EntriesIn, MergeIncludeDefaults, Entries, Content, Call
<1> QED
  BY <1>1, <1>2, IncludeCallsType DEF CallsIn

LEMMA OwnInType ==
    ASSUME NEW files \in Disks, NEW left, NEW call \in Call
    PROVE  OwnIn(files, left, call) \in LoadedConfig
<1>1. files[call.file] \in Content /\ call.db \in DBOrNone
  BY DEF Disks, Call, DBOrNone
<1> DEFINE d == EffectiveDefaultDB(files[call.file], left = MaxIncludeDepth + 1,
                                   call.db)
<1>2. d \in DBOrNone
  <2>1. (left = MaxIncludeDepth + 1) \in BOOLEAN
    OBVIOUS
  <2> QED
    BY <1>1, <2>1, EffectiveType
<1> HIDE DEF d
<1>3. OwnPart(call, files[call.file], d) \in LoadedConfig
  BY <1>1, <1>2, OwnPartType
<1> QED
  BY <1>3 DEF d, OwnIn

\* A file's load is a configuration exactly if the file does not fail.
LEMMA LoadFileType ==
    ASSUME NEW files \in Disks, NEW left, NEW call \in Call,
           NEW loaded, \A x \in Call : loaded[x] \in Result
    PROVE  LET r == LoadFile(files, left, call, loaded)
           IN  IF Fails(files, left, call)
               THEN r = Failed
               ELSE /\ r \in LoadedConfig
                    /\ OwnIn(files, left, call).dependencies \subseteq r.dependencies
<1> DEFINE calls == CallsIn(files, call)
           own == OwnIn(files, left, call)
           T == CallsOf(call.file, files[call.file], EntriesIn(files, call), call.reject)
           m == MergedUpTo(own, calls, loaded)
<1>1. LoadFile(files, left, call, loaded)
         = IF Fails(files, left, call) THEN Failed ELSE m[Len(calls)]
  BY LoadFileIs
<1>2. calls \in Seq(T) /\ own \in LoadedConfig
  BY CallsInType, OwnInType
<1>3. T \in SUBSET Call /\ \A x \in T : x.db \in DB
  BY DEF CallsOf
<1> HIDE DEF calls, own, T
<1>4. Len(calls) \in 0 .. Len(calls)
  BY <1>2
<1>5. /\ m[Len(calls)] \in LoadedConfig
      /\ own.dependencies \subseteq m[Len(calls)].dependencies
  BY <1>2, <1>3, <1>4, MergedType
<1> QED
  BY <1>1, <1>5 DEF own

LEMMA LoadType ==
    ASSUME NEW files \in Disks
    PROVE  \A left \in 0 .. MaxIncludeDepth + 1 : \A call \in Call :
               /\ Load(files)[left][call] \in Result
               /\ Load(files)[left][call] = Failed <=> Fails(files, left, call)
<1> DEFINE n == MaxIncludeDepth + 1
           up == Load(files)
           S == {left \in 0 .. n : \A call \in Call : up[left][call] \in Result}
<1>1. n \in Nat
  BY LoaderAssumption
<1>2. \A left \in 0 .. n : \A call \in Call :
         up[left][call] = LoadFile(files, left, call, up[left - 1])
  BY LoadDef
<1> HIDE DEF up
<1>3. 0 \in S
  <2>1. \A call \in Call : Fails(files, 0, call)
    BY DEF Fails, FileFails
  <2>2. ASSUME NEW call \in Call
        PROVE  up[0][call] \in Result
    <3>1. up[0][call] = LoadFile(files, 0, call, up[0 - 1])
      BY <1>1, <1>2
    <3>2. LoadFile(files, 0, call, up[0 - 1]) = Failed
      BY <2>1, LoadFileIs
    <3> QED
      BY <3>1, <3>2 DEF Result
  <2> QED
    BY <1>1, <2>2
<1>4. ASSUME NEW left \in 1 .. n, left - 1 \in S
      PROVE  left \in S
  <2>1. \A x \in Call : up[left - 1][x] \in Result
    BY <1>4
  <2>2. ASSUME NEW call \in Call
        PROVE  up[left][call] \in Result
    <3>1. up[left][call] = LoadFile(files, left, call, up[left - 1])
      BY <1>1, <1>2
    <3>2. LoadFile(files, left, call, up[left - 1]) \in Result
      BY <2>1, LoadFileType DEF Result
    <3> QED
      BY <3>1, <3>2
  <2> QED
    BY <1>1, <2>2
<1>5. 0 .. n \subseteq S
  <2> HIDE DEF S, n
  <2> QED
    BY <1>1, <1>3, <1>4, Induction
<1>6. ASSUME NEW left \in 0 .. n, NEW call \in Call
      PROVE  up[left][call] = Failed <=> Fails(files, left, call)
  <2>1. up[left][call] = LoadFile(files, left, call, up[left - 1])
    BY <1>2
  <2>2. CASE Fails(files, left, call)
    BY <2>1, <2>2, LoadFileIs
  <2>3. CASE ~Fails(files, left, call)
    <3>1. left - 1 \in 0 .. n
      <4>1. left # 0
        BY <2>3 DEF Fails, FileFails
      <4> QED
        BY <1>1, <4>1
    <3>2. \A x \in Call : up[left - 1][x] \in Result
      BY <1>5, <3>1
    <3>3. LoadFile(files, left, call, up[left - 1]) \in LoadedConfig
      BY <2>3, <3>2, LoadFileType
    <3> QED
      BY <2>1, <2>3, <3>3, FailedIsNoConfig
  <2> QED
    BY <2>2, <2>3
<1> QED
  BY <1>5, <1>6 DEF up

-----------------------------------------------------------------------------
(* Where the queries of a configuration come from                          *)

\* A worker runs on a database that some way to its file provides for.
MayRun(files, def, q) ==
    \E chain \in Chains(files) :
        def.from = End(chain) /\ def.db \in MayRunOn(files, chain, q)

(***************************************************************************)
(* Each worker is a query of the file that it is said to be from; one that *)
(* names its database is no clone, and is absent where several databases   *)
(* share the file; and each runs on a database that it may run on.         *)
(***************************************************************************)
QueriesHold(files, reject, cfg) ==
    \A k \in DOMAIN cfg.queries :
        /\ k[1] \in QueriesOf(files[cfg.queries[k].from])
        /\ files[cfg.queries[k].from].queries[k[1]] # NoDB => Len(k) = 1 /\ ~reject
        /\ MayRun(files, cfg.queries[k], k[1])

IsNearest(files, chain, key, i) ==
    /\ i \in Having(files, chain, key)
    /\ \A j \in Having(files, chain, key) : j <= i

\* The entries that are handed down are those of the nearest files on the way.
EntriesHold(files, chain, entries) ==
    \A k \in Key :
        IF Having(files, chain, k) = {} THEN entries[k] = NoEntry
        ELSE \E i \in 1 .. Len(chain) : /\ IsNearest(files, chain, k, i)
                                 /\ entries[k] = files[chain[i].from].entries[k]

\* The loads that includes ask for, and the load of the root, with their way.
ComesBy(files, chain, left, call) ==
    /\ chain \in Seq(Steps(files)) /\ IsChain(chain)
    /\ Len(chain) = MaxIncludeDepth + 1 - left
    /\ End(chain) = call.file
    /\ EntriesHold(files, chain, call.entries)
    /\ chain # <<>> => call.db \in IncludeDefaults(files, chain)

IncludeHolds(files, left, call) == \E chain : ComesBy(files, chain, left, call)

LEMMA ChainsIntro ==
    ASSUME NEW files, NEW chain \in Seq(Steps(files)), IsChain(chain),
           Len(chain) <= MaxIncludeDepth
    PROVE  chain \in Chains(files)
<1>1. Len(chain) \in 0 .. MaxIncludeDepth /\ chain \in [1 .. Len(chain) -> Steps(files)]
  BY LoaderAssumption
<1> QED
  BY <1>1 DEF Chains, SeqOf

\* One more step on a way.
LEMMA Longer ==
    ASSUME NEW files \in Disks, NEW chain \in Seq(Steps(files)), IsChain(chain),
           NEW p \in files[End(chain)].includes, End(chain) \in File
    PROVE  LET step == [from |-> End(chain), path |-> p]
               longer == Append(chain, step)
           IN  /\ longer \in Seq(Steps(files)) /\ IsChain(longer)
               /\ Len(longer) = Len(chain) + 1 /\ longer # <<>>
               /\ \A i \in 1 .. Len(chain) : longer[i] = chain[i]
               /\ longer[Len(chain) + 1] = step
               /\ Last(longer) = step
               /\ End(longer) = FullPath(End(chain), p)
<1> DEFINE n == Len(chain)
           step == [from |-> End(chain), path |-> p]
           longer == Append(chain, step)
<1>1. p \in Path
  BY DEF Disks, Content
<1>2. step \in Steps(files)
  BY <1>1 DEF Steps
<1>3. step.from = End(chain) /\ step.path = p
  OBVIOUS
<1>4. n \in Nat /\ \A i \in 1 .. n : chain[i] \in Steps(files)
  OBVIOUS
<1> HIDE DEF step
<1>5. /\ longer \in Seq(Steps(files)) /\ Len(longer) = n + 1
      /\ \A i \in 1 .. n : longer[i] = chain[i]
      /\ longer[n + 1] = step
  BY <1>2, AppendProperties
<1> HIDE DEF longer, n
<1>6. longer # <<>> /\ Last(longer) = step
  BY <1>4, <1>5 DEF Last
<1>7. End(longer) = FullPath(End(chain), p)
  BY <1>3, <1>6 DEF End
<1>8. ASSUME NEW i \in 1 .. n + 1
      PROVE  longer[i].from = IF i = 1 THEN root
                              ELSE FullPath(longer[i - 1].from, longer[i - 1].path)
  <2>1. CASE i \in 1 .. n
    <3>1. longer[i] = chain[i]
      BY <1>5, <2>1
    <3>2. i # 1 => longer[i - 1] = chain[i - 1]
      BY <1>4, <1>5, <2>1
    <3>3. DOMAIN chain = 1 .. n
      BY DEF n
    <3> QED
      BY <2>1, <3>1, <3>2, <3>3 DEF IsChain
  <2>2. CASE i = n + 1
    <3>1. longer[i].from = End(chain)
      BY <1>3, <1>5, <2>2
    <3>2. CASE n = 0
      <4>1. chain = <<>>
        BY <3>2 DEF n
      <4> QED
        BY <2>2, <3>1, <3>2, <4>1 DEF End
    <3>3. CASE n # 0
      <4>1. chain # <<>>
        BY <3>3 DEF n
      <4>2. End(chain) = FullPath(chain[n].from, chain[n].path)
        BY <4>1 DEF End, Last, n
      <4>3. n \in 1 .. n
        BY <1>4, <3>3
      <4>4. longer[i - 1] = chain[n] /\ i # 1
        BY <1>4, <1>5, <2>2, <3>3, <4>3
      <4> QED
        BY <3>1, <4>2, <4>4
    <3> QED
      BY <3>2, <3>3
  <2> QED
    BY <1>4, <2>1, <2>2
<1>9. IsChain(longer)
  <2>1. DOMAIN longer = 1 .. n + 1
    BY <1>4, <1>5
  <2> QED
    BY <1>8, <2>1 DEF IsChain
<1> QED
  BY <1>5, <1>6, <1>7, <1>9 DEF longer, step, n

LEMMA EntriesInHold ==
    ASSUME NEW files \in Disks, NEW call \in Call,
           NEW chain, chain \in Seq(Steps(files)),
           EntriesHold(files, chain, call.entries),
           NEW longer, longer \in Seq(Steps(files)), Len(longer) = Len(chain) + 1,
           \A i \in 1 .. Len(chain) : longer[i] = chain[i],
           longer[Len(chain) + 1].from = call.file
    PROVE  EntriesHold(files, longer, EntriesIn(files, call))
<1> DEFINE n == Len(chain)
           entries == EntriesIn(files, call)
           own == files[call.file].entries
<1>1. n \in Nat /\ DOMAIN chain = 1 .. n /\ DOMAIN longer = 1 .. n + 1
  OBVIOUS
<1>2. \A k \in Key : entries[k] = IF own[k] # NoEntry THEN own[k] ELSE call.entries[k]
  BY DEF EntriesIn, MergeIncludeDefaults
<1> HIDE DEF entries
<1>3. SUFFICES ASSUME NEW k \in Key
               PROVE  IF Having(files, longer, k) = {} THEN entries[k] = NoEntry
                      ELSE \E i \in 1 .. Len(longer) :
                              /\ IsNearest(files, longer, k, i)
                              /\ entries[k] = files[longer[i].from].entries[k]
  BY DEF EntriesHold, entries
<1> DEFINE H == Having(files, chain, k)
           L == Having(files, longer, k)
<1>4. H = {i \in 1 .. n : files[chain[i].from].entries[k] # NoEntry}
  BY <1>1 DEF Having
<1>5. L = {i \in 1 .. n + 1 : files[longer[i].from].entries[k] # NoEntry}
  BY <1>1 DEF Having
<1>6. Len(longer) = n + 1 /\ longer[n + 1].from = call.file
      /\ \A i \in 1 .. n : longer[i] = chain[i]
  OBVIOUS
<1> HIDE DEF n, own
<1>7. CASE own[k] # NoEntry
  <2>1. n + 1 \in L /\ \A j \in L : j <= n + 1
    BY <1>1, <1>5, <1>6, <1>7 DEF own
  <2>2. IsNearest(files, longer, k, n + 1)
    BY <2>1 DEF IsNearest
  <2>3. entries[k] = files[longer[n + 1].from].entries[k]
    BY <1>2, <1>6, <1>7 DEF own
  <2>4. n + 1 \in 1 .. Len(longer)
    BY <1>1, <1>6
  <2> QED
    BY <2>1, <2>2, <2>3, <2>4
<1>8. CASE own[k] = NoEntry
  <2>1. files[longer[n + 1].from].entries[k] = NoEntry
    BY <1>6, <1>8 DEF own
  <2>2. L = H
    <3> HIDE DEF H, L
    <3>1. \A i \in 1 .. n + 1 : i = n + 1 \/ i \in 1 .. n
      BY <1>1
    <3>2. \A i \in 1 .. n : i \in 1 .. n + 1
      BY <1>1
    <3> QED
      BY <1>4, <1>5, <1>6, <2>1, <3>1, <3>2
  <2>3. entries[k] = call.entries[k]
    BY <1>2, <1>8
  <2>4. CASE H = {}
    BY <2>2, <2>3, <2>4 DEF EntriesHold
  <2>5. CASE H # {}
    <3>1. PICK i \in 1 .. n : /\ IsNearest(files, chain, k, i)
                              /\ call.entries[k] = files[chain[i].from].entries[k]
      BY <2>5 DEF EntriesHold, n
    <3>2. IsNearest(files, longer, k, i) /\ longer[i] = chain[i]
      BY <1>6, <2>2, <3>1 DEF IsNearest
    <3>3. i \in 1 .. Len(longer)
      BY <1>1, <1>6, <3>1
    <3> QED
      BY <2>2, <2>3, <2>5, <3>1, <3>2, <3>3
  <2> QED
    BY <2>4, <2>5
<1> QED
  BY <1>7, <1>8

\* The databases of the entry for an include are those of the nearest entry.
LEMMA NearestEntries ==
    ASSUME NEW files, NEW chain, NEW entries, EntriesHold(files, chain, entries),
           NEW p \in Path, Last(chain).path = p, EntryOf(entries, p) # NoEntry,
           NEW d \in DB, d \in ToSet(EntryOf(entries, p))
    PROVE  d \in IncludeDefaults(files, chain)
<1> DEFINE k == IF Having(files, chain, p) # {} THEN p ELSE BaseOf[p]
<1>1. p \in Key /\ BaseOf[p] \in Key
  BY LoaderAssumption DEF Key
<1>2. entries[p] # NoEntry <=> Having(files, chain, p) # {}
  <2>1. CASE Having(files, chain, p) = {}
    BY <1>1, <2>1 DEF EntriesHold
  <2>2. CASE Having(files, chain, p) # {}
    BY <1>1, <2>2 DEF EntriesHold, IsNearest, Having
  <2> QED
    BY <2>1, <2>2
<1>3. EntryOf(entries, p) = entries[k]
  BY <1>2 DEF EntryOf
<1>4. k \in Key
  BY <1>1
<1>5. IncludeDefaults(files, chain) = NearestEntry(files, chain, k)
  BY DEF IncludeDefaults
<1> HIDE DEF k
<1>6. Having(files, chain, k) # {}
  BY <1>3, <1>4 DEF EntriesHold
<1>7. PICK i : /\ IsNearest(files, chain, k, i)
               /\ entries[k] = files[chain[i].from].entries[k]
  BY <1>4, <1>6 DEF EntriesHold
<1>8. d \in NearestEntry(files, chain, k)
  BY <1>3, <1>7 DEF NearestEntry, IsNearest
<1> QED
  BY <1>5, <1>8

LEMMA CallsHold ==
    ASSUME NEW files \in Disks, NEW left \in Int, NEW call \in Call,
           IncludeHolds(files, left, call),
           NEW x \in CallsOf(call.file, files[call.file], EntriesIn(files, call),
                             call.reject)
    PROVE  IncludeHolds(files, left - 1, x)
<1> DEFINE f == call.file
           entries == EntriesIn(files, call)
<1>1. f \in File
  BY DEF Call
<1>2. PICK p \in files[f].includes : /\ x.file = FullPath(f, p)
                                     /\ EntryOf(entries, p) # NoEntry
                                     /\ x.db \in DB
                                     /\ x.db \in ToSet(EntryOf(entries, p))
  BY DEF CallsOf
<1>3. x.entries = entries
  BY DEF CallsOf
<1>4. p \in Path
  BY <1>1, <1>2 DEF Disks, Content
<1>5. PICK chain : ComesBy(files, chain, left, call)
  BY DEF IncludeHolds
<1>6. /\ chain \in Seq(Steps(files)) /\ IsChain(chain) /\ End(chain) = f
      /\ Len(chain) = MaxIncludeDepth + 1 - left
      /\ EntriesHold(files, chain, call.entries)
  BY <1>5 DEF ComesBy
<1> DEFINE step == [from |-> f, path |-> p]
           longer == Append(chain, step)
<1>7. step.from = f /\ step.path = p
  OBVIOUS
<1> HIDE DEF step, entries
<1>8. /\ longer \in Seq(Steps(files)) /\ IsChain(longer)
      /\ Len(longer) = Len(chain) + 1
      /\ \A i \in 1 .. Len(chain) : longer[i] = chain[i]
      /\ longer[Len(chain) + 1] = step
      /\ Last(longer) = step
      /\ End(longer) = FullPath(f, p)
  BY <1>1, <1>2, <1>6, Longer DEF step
<1> HIDE DEF longer, f
<1>9. EntriesHold(files, longer, entries)
  BY <1>6, <1>7, <1>8, EntriesInHold DEF f, entries
<1>10. x.db \in IncludeDefaults(files, longer)
  BY <1>2, <1>4, <1>7, <1>8, <1>9, NearestEntries
<1>11. Len(longer) = MaxIncludeDepth + 1 - (left - 1)
  BY <1>6, <1>8, LoaderAssumption
<1>12. ComesBy(files, longer, left - 1, x)
  BY <1>2, <1>3, <1>8, <1>9, <1>10, <1>11 DEF ComesBy
<1> QED
  BY <1>12 DEF IncludeHolds

LEMMA OwnInHolds ==
    ASSUME NEW files \in Disks, NEW left \in 1 .. MaxIncludeDepth + 1, NEW call \in Call,
           ~Fails(files, left, call), IncludeHolds(files, left, call)
    PROVE  QueriesHold(files, call.reject, OwnIn(files, left, call))
<1> DEFINE f == call.file
           c == files[f]
           d == EffectiveDefaultDB(c, left = MaxIncludeDepth + 1, call.db)
           own == OwnIn(files, left, call)
<1>1. f \in File /\ c \in Content
  BY DEF Call, Disks
<1>2. own.queries = [k \in {<<q>> : q \in QueriesOf(c)} |->
                        [db |-> IF c.queries[k[1]] = NoDB THEN d
                                                          ELSE c.queries[k[1]],
                         from |-> f]]
  BY DEF OwnIn, OwnPart
<1>3. PICK chain : ComesBy(files, chain, left, call)
  BY DEF IncludeHolds
<1>4. chain \in Chains(files) /\ End(chain) = f
  <2>1. Len(chain) <= MaxIncludeDepth
    BY <1>3, LoaderAssumption DEF ComesBy
  <2> QED
    BY <1>3, <2>1, ChainsIntro DEF ComesBy
<1>5. left = MaxIncludeDepth + 1 <=> chain = <<>>
  <2>1. Len(chain) = MaxIncludeDepth + 1 - left /\ chain \in Seq(Steps(files))
    BY <1>3 DEF ComesBy
  <2>2. chain = <<>> <=> Len(chain) = 0
    BY <2>1, EmptySeq
  <2> QED
    BY <2>1, <2>2, LoaderAssumption
<1>6. ASSUME NEW q \in QueriesOf(c), c.queries[q] = NoDB
      PROVE  d \in MayRunOn(files, chain, q)
  <2>1. CASE c.defaultDB # NoDB
    BY <1>4, <1>6, <2>1 DEF EffectiveDefaultDB, MayRunOn
  <2>2. CASE c.defaultDB = NoDB
    <3>1. MayRunOn(files, chain, q) = IF chain = <<>> THEN {c.settingsDB}
                                      ELSE IncludeDefaults(files, chain)
      BY <1>4, <1>6, <2>2 DEF MayRunOn
    <3>2. CASE chain = <<>>
      BY <1>5, <2>2, <3>1, <3>2 DEF EffectiveDefaultDB
    <3>3. CASE chain # <<>>
      <4>1. d = call.db
        BY <1>5, <2>2, <3>3 DEF EffectiveDefaultDB
      <4> QED
        BY <1>3, <3>1, <3>3, <4>1 DEF ComesBy
    <3> QED
      BY <3>2, <3>3
  <2> QED
    BY <2>1, <2>2
<1>7. ASSUME NEW q \in QueriesOf(c), c.queries[q] # NoDB
      PROVE  c.queries[q] \in MayRunOn(files, chain, q) /\ ~call.reject
  BY <1>4, <1>7 DEF MayRunOn, Fails, FileFails
<1> HIDE DEF c, d, own
<1>8. ASSUME NEW k \in DOMAIN own.queries
      PROVE  /\ k[1] \in QueriesOf(files[own.queries[k].from])
             /\ files[own.queries[k].from].queries[k[1]] # NoDB
                   => Len(k) = 1 /\ ~call.reject
             /\ MayRun(files, own.queries[k], k[1])
  <2>1. PICK q \in QueriesOf(c) : k = <<q>>
    BY <1>2
  <2>2. k[1] = q /\ Len(k) = 1
    BY <2>1
  <2>3. own.queries[k] = [db |-> IF c.queries[q] = NoDB THEN d ELSE c.queries[q],
                          from |-> f]
    BY <1>2, <2>1, <2>2
  <2>4. own.queries[k].from = f /\ files[f] = c
    BY <2>3 DEF c
  <2>5. own.queries[k].db \in MayRunOn(files, chain, q)
    BY <1>6, <1>7, <2>3
  <2>6. MayRun(files, own.queries[k], k[1])
    BY <1>4, <2>2, <2>4, <2>5 DEF MayRun
  <2> QED
    BY <1>7, <2>2, <2>4, <2>6
<1> QED
  BY <1>8 DEF QueriesHold, own

LEMMA CloneHolds ==
    ASSUME NEW files, NEW inc \in LoadedConfig, NEW d \in DB, NEW reject,
           QueriesHold(files, TRUE, inc)
    PROVE  QueriesHold(files, reject, CloneQueriesForDB(inc, d))
<1> DEFINE clone == CloneQueriesForDB(inc, d)
<1>1. /\ DOMAIN clone.queries = {Append(key, d) : key \in DOMAIN inc.queries}
      /\ \A key \in DOMAIN inc.queries :
            clone.queries[Append(key, d)] = inc.queries[key]
  BY CloneType
<1>2. \A key \in DOMAIN inc.queries : Append(key, d)[1] = key[1]
  <2>1. inc.queries \in Queries
    BY DEF LoadedConfig
  <2>2. DOMAIN inc.queries \subseteq WorkerKey
    BY <2>1, QueriesElim
  <2> QED
    BY <2>2, AppendKey
<1> HIDE DEF clone
<1>3. ASSUME NEW k \in DOMAIN clone.queries
      PROVE  /\ k[1] \in QueriesOf(files[clone.queries[k].from])
             /\ files[clone.queries[k].from].queries[k[1]] = NoDB
             /\ MayRun(files, clone.queries[k], k[1])
  <2>1. PICK key \in DOMAIN inc.queries : k = Append(key, d)
    BY <1>1
  <2>2. clone.queries[k] = inc.queries[key] /\ k[1] = key[1]
    BY <1>1, <1>2, <2>1
  <2> QED
    BY <2>2 DEF QueriesHold
<1> QED
  BY <1>3 DEF QueriesHold, clone

LEMMA AddIncludeHolds ==
    ASSUME NEW files, NEW cfg \in LoadedConfig, NEW reject,
           QueriesHold(files, reject, cfg), NEW call \in Call, call.db \in DB,
           call.suffix => call.reject, reject => call.reject,
           NEW inc \in Result, inc # Failed => QueriesHold(files, call.reject, inc)
    PROVE  QueriesHold(files, reject, AddInclude(cfg, call, inc))
<1> DEFINE sum == AddInclude(cfg, call, inc)
<1>1. CASE inc = Failed
  <2>1. sum.queries = cfg.queries
    BY <1>1 DEF AddInclude, LoadedConfig
  <2> QED
    BY <2>1 DEF QueriesHold
<1>2. CASE inc # Failed
  <2>1. inc \in LoadedConfig
    BY <1>2 DEF Result
  <2>2. PICK part : QueriesHold(files, reject, part) /\ sum = MergeConfig(cfg, part)
    <3>1. CASE call.suffix
      <4>1. QueriesHold(files, TRUE, inc)
        <5>1. call.reject
          BY <3>1
        <5> QED
          BY <1>2, <5>1 DEF QueriesHold
      <4>2. QueriesHold(files, reject, CloneQueriesForDB(inc, call.db))
        BY <2>1, <4>1, CloneHolds
      <4> QED
        BY <1>2, <3>1, <4>2 DEF AddInclude
    <3>2. CASE ~call.suffix
      <4>1. QueriesHold(files, reject, inc)
        BY <1>2 DEF QueriesHold
      <4> QED
        BY <1>2, <3>2, <4>1 DEF AddInclude
    <3> QED
      BY <3>1, <3>2
  <2>3. sum.queries = [k \in DOMAIN cfg.queries \cup DOMAIN part.queries |->
                          IF k \in DOMAIN part.queries THEN part.queries[k]
                                                       ELSE cfg.queries[k]]
    BY <2>2 DEF MergeConfig
  <2> HIDE DEF sum
  <2>4. ASSUME NEW k \in DOMAIN sum.queries
        PROVE  \/ k \in DOMAIN part.queries /\ sum.queries[k] = part.queries[k]
               \/ k \in DOMAIN cfg.queries /\ sum.queries[k] = cfg.queries[k]
    BY <2>3
  <2>5. QueriesHold(files, reject, sum)
    <3>1. SUFFICES ASSUME NEW k \in DOMAIN sum.queries
                   PROVE  /\ k[1] \in QueriesOf(files[sum.queries[k].from])
                          /\ files[sum.queries[k].from].queries[k[1]] # NoDB
                                => Len(k) = 1 /\ ~reject
                          /\ MayRun(files, sum.queries[k], k[1])
      BY DEF QueriesHold
    <3>2. CASE k \in DOMAIN part.queries /\ sum.queries[k] = part.queries[k]
      BY <2>2, <3>2 DEF QueriesHold
    <3>3. CASE k \in DOMAIN cfg.queries /\ sum.queries[k] = cfg.queries[k]
      BY <3>3 DEF QueriesHold
    <3> QED
      BY <2>4, <3>2, <3>3
  <2> QED
    BY <2>5 DEF sum
<1> QED
  BY <1>1, <1>2

LEMMA LoadFileHolds ==
    ASSUME NEW files \in Disks, NEW left \in 1 .. MaxIncludeDepth + 1, NEW call \in Call,
           IncludeHolds(files, left, call),
           NEW loaded,
           \A x \in Call : /\ loaded[x] \in Result
                           /\ IncludeHolds(files, left - 1, x) /\ loaded[x] # Failed
                                 => QueriesHold(files, x.reject, loaded[x]),
           ~Fails(files, left, call)
    PROVE  QueriesHold(files, call.reject, LoadFile(files, left, call, loaded))
<1> DEFINE calls == CallsIn(files, call)
           own == OwnIn(files, left, call)
           T == CallsOf(call.file, files[call.file], EntriesIn(files, call), call.reject)
           m == MergedUpTo(own, calls, loaded)
           n == Len(calls)
           S == {i \in 0 .. n : QueriesHold(files, call.reject, m[i])}
<1>1. LoadFile(files, left, call, loaded) = m[n]
  BY LoadFileIs
<1>2. calls \in Seq(T) /\ own \in LoadedConfig
  BY CallsInType, OwnInType
<1>3. /\ T \in SUBSET Call
      /\ \A x \in T : /\ x.db \in DB
                      /\ x.suffix => x.reject
                      /\ call.reject => x.reject
  BY DEF CallsOf
<1>4. \A x \in T : IncludeHolds(files, left - 1, x)
  <2>1. left \in Int
    OBVIOUS
  <2> QED
    BY <2>1, CallsHold
<1>5. QueriesHold(files, call.reject, own)
  BY OwnInHolds
<1> HIDE DEF calls, own, T
<1>6. n \in Nat
  BY <1>2
<1>7. \A i \in 0 .. n : m[i] \in LoadedConfig
  <2>1. \A x \in Call : loaded[x] \in Result
    OBVIOUS
  <2> QED
    BY <1>2, <1>3, <2>1, MergedType
<1>8. /\ m[0] = own
      /\ \A i \in 1 .. n : m[i] = AddInclude(m[i - 1], calls[i], loaded[calls[i]])
  BY ONLY <1>6, MergedUpToDef
<1> HIDE DEF m
<1>9. 0 \in S
  BY <1>5, <1>6, <1>8
<1>10. ASSUME NEW i \in 1 .. n, i - 1 \in S
       PROVE  i \in S
  <2>1. calls[i] \in T
    BY <1>2
  <2>2. /\ calls[i] \in Call /\ calls[i].db \in DB
        /\ calls[i].suffix => calls[i].reject
        /\ call.reject => calls[i].reject
        /\ loaded[calls[i]] \in Result
        /\ loaded[calls[i]] # Failed
              => QueriesHold(files, calls[i].reject, loaded[calls[i]])
    <3>1. calls[i] \in Call /\ IncludeHolds(files, left - 1, calls[i])
      BY <1>3, <1>4, <2>1
    <3>2. /\ loaded[calls[i]] \in Result
          /\ loaded[calls[i]] # Failed
                => QueriesHold(files, calls[i].reject, loaded[calls[i]])
      BY <3>1
    <3> QED
      BY <1>3, <2>1, <3>1, <3>2
  <2>3. m[i - 1] \in LoadedConfig /\ QueriesHold(files, call.reject, m[i - 1])
    BY <1>6, <1>7, <1>10
  <2>4. QueriesHold(files, call.reject, m[i])
    BY <1>8, <2>2, <2>3, AddIncludeHolds
  <2> QED
    BY <1>6, <2>4
<1>11. n \in S
  <2> HIDE DEF S, n
  <2> QED
    BY <1>6, <1>9, <1>10, Induction
<1> QED
  BY <1>1, <1>11

LEMMA LoadHolds ==
    ASSUME NEW files \in Disks
    PROVE  \A left \in 0 .. MaxIncludeDepth + 1 : \A call \in Call :
               IncludeHolds(files, left, call) /\ Load(files)[left][call] # Failed
                   => QueriesHold(files, call.reject, Load(files)[left][call])
<1> DEFINE n == MaxIncludeDepth + 1
           up == Load(files)
           Holds(left, call) == IncludeHolds(files, left, call) /\ up[left][call] # Failed
                                    => QueriesHold(files, call.reject, up[left][call])
           S == {left \in 0 .. n : \A call \in Call : Holds(left, call)}
<1>1. n \in Nat
  BY LoaderAssumption
<1>2. \A left \in 0 .. n : \A call \in Call :
         up[left][call] = LoadFile(files, left, call, up[left - 1])
  BY <1>1, LoadDef
<1>3. \A left \in 0 .. n : \A call \in Call :
         /\ up[left][call] \in Result
         /\ up[left][call] = Failed <=> Fails(files, left, call)
  BY <1>1, LoadType
<1> HIDE DEF up
<1>4. 0 \in S
  <2>1. \A call \in Call : Fails(files, 0, call)
    BY DEF Fails, FileFails
  <2> QED
    BY <1>1, <1>3, <2>1
<1>5. ASSUME NEW left \in 1 .. n, left - 1 \in S
      PROVE  left \in S
  <2>1. \A x \in Call : Holds(left - 1, x) /\ up[left - 1][x] \in Result
    BY <1>1, <1>3, <1>5
  <2>2. ASSUME NEW call \in Call, IncludeHolds(files, left, call),
               up[left][call] # Failed
        PROVE  QueriesHold(files, call.reject, up[left][call])
    <3>1. up[left][call] = LoadFile(files, left, call, up[left - 1])
      BY <1>1, <1>2
    <3>2. ~Fails(files, left, call)
      BY <1>1, <1>3, <2>2
    <3>3. QueriesHold(files, call.reject, LoadFile(files, left, call, up[left - 1]))
      BY <2>1, <2>2, <3>2, LoadFileHolds
    <3> QED
      BY <3>1, <3>3
  <2> QED
    BY <1>1, <2>2
<1>6. 0 .. n \subseteq S
  <2> HIDE DEF S, n
  <2> QED
    BY <1>1, <1>4, <1>5, Induction
<1> QED
  BY <1>6 DEF up

-----------------------------------------------------------------------------
(* A configuration depends on its dependencies only                        *)

Agree(files, files2, F) == \A f \in F : files[f] = files2[f]

(***************************************************************************)
(* What a load returns is the same for other files, if these agree on the  *)
(* dependencies of what it returns; and whether it is an error is told by  *)
(* the file itself.                                                        *)
(***************************************************************************)
SameResult(files, files2, call, r, r2) ==
    /\ files[call.file] = files2[call.file] => (r = Failed <=> r2 = Failed)
    /\ r # Failed /\ Agree(files, files2, r.dependencies) => r2 = r

LEMMA LoadFileSame ==
    ASSUME NEW files \in Disks, NEW files2 \in Disks, NEW left, NEW call \in Call,
           NEW loaded, NEW loaded2,
           \A x \in Call : /\ loaded[x] \in Result
                           /\ SameResult(files, files2, x, loaded[x], loaded2[x]),
           ~Fails(files, left, call),
           Agree(files, files2, LoadFile(files, left, call, loaded).dependencies)
    PROVE  LoadFile(files2, left, call, loaded2) = LoadFile(files, left, call, loaded)
<1> DEFINE calls == CallsIn(files, call)
           own == OwnIn(files, left, call)
           c == files[call.file]
           D == {FullPath(call.file, p) : p \in c.includes}
           T == CallsOf(call.file, c, EntriesIn(files, call), call.reject)
           m == MergedUpTo(own, calls, loaded)
           m2 == MergedUpTo(own, calls, loaded2)
           n == Len(calls)
           S == {i \in 0 .. n : Agree(files, files2, m[i].dependencies) => m2[i] = m[i]}
<1>1. LoadFile(files, left, call, loaded) = m[n]
  BY LoadFileIs
<1>2. calls \in Seq(T) /\ own \in LoadedConfig
  BY CallsInType, OwnInType
<1>3. /\ T \in SUBSET Call
      /\ \A x \in T : x.db \in DB /\ x.file \in D
  BY DEF CallsOf
<1>4. own.dependencies = {call.file} \cup D
  BY DEF OwnIn, OwnPart, Dependencies
<1>5. n \in Nat
  BY <1>2
<1>6. \A i \in 0 .. n : /\ m[i] \in LoadedConfig
                        /\ own.dependencies \subseteq m[i].dependencies
  <2>1. \A x \in Call : loaded[x] \in Result
    OBVIOUS
  <2> HIDE DEF calls, own, T
  <2> QED
    BY <1>2, <1>3, <2>1, MergedType
<1>7. files2[call.file] = c
  <2>1. call.file \in m[n].dependencies
    <3> HIDE DEF calls, own, m
    <3> QED
      BY <1>4, <1>5, <1>6
  <2> QED
    BY <1>1, <2>1 DEF Agree
<1>8. LoadFile(files2, left, call, loaded2) = m2[n]
  <2>1. ~Fails(files2, left, call)
    BY <1>7 DEF Fails
  <2>2. CallsIn(files2, call) = calls /\ OwnIn(files2, left, call) = own
    BY <1>7 DEF CallsIn, EntriesIn, OwnIn
  <2> QED
    BY <2>1, <2>2, LoadFileIs
<1> HIDE DEF calls, own, T, c, D
<1>9. /\ m[0] = own
      /\ \A i \in 1 .. n : m[i] = AddInclude(m[i - 1], calls[i], loaded[calls[i]])
  BY ONLY <1>5, MergedUpToDef
<1>10. /\ m2[0] = own
       /\ \A i \in 1 .. n : m2[i] = AddInclude(m2[i - 1], calls[i], loaded2[calls[i]])
  BY ONLY <1>5, MergedUpToDef
<1> HIDE DEF m, m2
<1>11. 0 \in S
  BY <1>5, <1>9, <1>10
<1>12. ASSUME NEW i \in 1 .. n, i - 1 \in S
       PROVE  i \in S
  <2>1. SUFFICES ASSUME Agree(files, files2, m[i].dependencies)
                 PROVE  m2[i] = m[i]
    BY <1>5
  <2> DEFINE x == calls[i]
  <2>2. x \in T
    BY <1>2
  <2>3. x \in Call /\ x.db \in DB /\ x.file \in D
    BY <1>3, <2>2
  <2>4. loaded[x] \in Result /\ SameResult(files, files2, x, loaded[x], loaded2[x])
    BY <2>3
  <2> HIDE DEF x
  <2>5. i - 1 \in 0 .. n /\ m[i - 1] \in LoadedConfig
    BY <1>5, <1>6
  <2>6. m[i] = AddInclude(m[i - 1], x, loaded[x])
    BY <1>9 DEF x
  <2>7. m2[i] = AddInclude(m2[i - 1], x, loaded2[x])
    BY <1>10 DEF x
  <2>8. /\ m[i - 1].dependencies \subseteq m[i].dependencies
        /\ loaded[x] # Failed => loaded[x].dependencies \subseteq m[i].dependencies
    BY <2>3, <2>4, <2>5, <2>6, AddIncludeType
  <2>9. m2[i - 1] = m[i - 1]
    BY <1>12, <2>1, <2>8 DEF Agree
  <2>10. files[x.file] = files2[x.file]
    <3>1. x.file \in m[i].dependencies
      BY <1>4, <1>6, <2>3, <2>5, <2>8
    <3> QED
      BY <2>1, <3>1 DEF Agree
  <2>11. loaded2[x] = loaded[x]
    BY <2>1, <2>4, <2>8, <2>10 DEF SameResult, Agree
  <2> QED
    BY <2>6, <2>7, <2>9, <2>11
<1>13. n \in S
  <2> HIDE DEF S, n
  <2> QED
    BY <1>5, <1>11, <1>12, Induction
<1> QED
  BY <1>1, <1>8, <1>13

LEMMA LoadSame ==
    ASSUME NEW files \in Disks, NEW files2 \in Disks
    PROVE  \A left \in 0 .. MaxIncludeDepth + 1 : \A call \in Call :
               SameResult(files, files2, call, Load(files)[left][call],
                                               Load(files2)[left][call])
<1> DEFINE n == MaxIncludeDepth + 1
           up == Load(files)
           up2 == Load(files2)
           S == {left \in 0 .. n : \A call \in Call :
                     SameResult(files, files2, call, up[left][call], up2[left][call])}
<1>1. n \in Nat
  BY LoaderAssumption
<1>2. \A left \in 0 .. n : \A call \in Call :
         /\ up[left][call] = LoadFile(files, left, call, up[left - 1])
         /\ up2[left][call] = LoadFile(files2, left, call, up2[left - 1])
  BY LoadDef
<1>3. \A left \in 0 .. n : \A call \in Call :
         /\ up[left][call] \in Result /\ up2[left][call] \in Result
         /\ up[left][call] = Failed <=> Fails(files, left, call)
         /\ up2[left][call] = Failed <=> Fails(files2, left, call)
  BY LoadType
<1> HIDE DEF up, up2
<1>4. 0 \in S
  <2>1. \A call \in Call : Fails(files, 0, call) /\ Fails(files2, 0, call)
    BY DEF Fails, FileFails
  <2> QED
    BY <1>1, <1>3, <2>1 DEF SameResult
<1>5. ASSUME NEW left \in 1 .. n, left - 1 \in S
      PROVE  left \in S
  <2>1. \A x \in Call :
           /\ up[left - 1][x] \in Result
           /\ SameResult(files, files2, x, up[left - 1][x], up2[left - 1][x])
    BY <1>1, <1>3, <1>5
  <2>2. ASSUME NEW call \in Call, files[call.file] = files2[call.file]
        PROVE  up[left][call] = Failed <=> up2[left][call] = Failed
    <3>1. Fails(files, left, call) <=> Fails(files2, left, call)
      BY <2>2 DEF Fails
    <3> QED
      BY <1>1, <1>3, <3>1
  <2>3. ASSUME NEW call \in Call, up[left][call] # Failed,
               Agree(files, files2, up[left][call].dependencies)
        PROVE  up2[left][call] = up[left][call]
    <3>1. ~Fails(files, left, call)
      BY <1>1, <1>3, <2>3
    <3>2. /\ up[left][call] = LoadFile(files, left, call, up[left - 1])
          /\ up2[left][call] = LoadFile(files2, left, call, up2[left - 1])
      BY <1>1, <1>2
    <3> QED
      BY <2>1, <2>3, <3>1, <3>2, LoadFileSame
  <2> QED
    BY <1>1, <2>2, <2>3 DEF SameResult
<1>6. 0 .. n \subseteq S
  <2> HIDE DEF S, n
  <2> QED
    BY <1>1, <1>4, <1>5, Induction
<1> QED
  BY <1>6 DEF up, up2

-----------------------------------------------------------------------------
(* A broken file is as good as an empty one                                *)

SameView(r, r2) == r.dbs = r2.dbs /\ r.queries = r2.queries

DefinesNothing(r) == (\A d \in DB : r.dbs[d] = NoFile) /\ DOMAIN r.queries = {}

(***************************************************************************)
(* What becomes of a load when the broken file f is emptied: the load of f *)
(* itself, an error, may become an empty configuration; each other load    *)
(* defines what it did.                                                    *)
(***************************************************************************)
Contained(f, call, r, r2) ==
    IF call.file = f
    THEN r = Failed /\ (r2 # Failed => DefinesNothing(r2))
    ELSE /\ r = Failed <=> r2 = Failed
         /\ r # Failed => SameView(r, r2)

LEMMA MergeSameView ==
    ASSUME NEW cfg, NEW cfg2, SameView(cfg, cfg2), NEW inc, NEW inc2, SameView(inc, inc2)
    PROVE  SameView(MergeConfig(cfg, inc), MergeConfig(cfg2, inc2))
BY DEF SameView, MergeConfig

LEMMA MergeNothing ==
    ASSUME NEW cfg, NEW cfg2 \in LoadedConfig, SameView(cfg, cfg2),
           NEW inc \in LoadedConfig, DefinesNothing(inc)
    PROVE  SameView(cfg, MergeConfig(cfg2, inc))
<1> DEFINE sum == MergeConfig(cfg2, inc)
<1>1. sum.dbs = cfg2.dbs
  <2>1. cfg2.dbs \in [DB -> File \cup {NoFile}]
    BY DEF LoadedConfig
  <2>2. sum.dbs = [d \in DB |-> cfg2.dbs[d]]
    BY DEF MergeConfig, DefinesNothing
  <2> QED
    BY <2>1, <2>2
<1>2. sum.queries = cfg2.queries
  <2>1. cfg2.queries \in Queries
    BY DEF LoadedConfig
  <2>2. cfg2.queries \in [DOMAIN cfg2.queries -> QueryDef]
    BY <2>1, QueriesElim
  <2>3. sum.queries = [k \in DOMAIN cfg2.queries |-> cfg2.queries[k]]
    BY DEF MergeConfig, DefinesNothing
  <2> QED
    BY <2>2, <2>3
<1> QED
  BY <1>1, <1>2 DEF SameView

LEMMA CloneSameView ==
    ASSUME NEW inc \in LoadedConfig, NEW inc2 \in LoadedConfig, SameView(inc, inc2),
           NEW d \in DB
    PROVE  SameView(CloneQueriesForDB(inc, d), CloneQueriesForDB(inc2, d))
BY DEF SameView, CloneQueriesForDB, LoadedConfig

LEMMA AddIncludeContained ==
    ASSUME NEW f, NEW cfg \in LoadedConfig, NEW cfg2 \in LoadedConfig,
           SameView(cfg, cfg2), NEW call \in Call, call.db \in DB,
           NEW inc \in Result, NEW inc2 \in Result, Contained(f, call, inc, inc2)
    PROVE  SameView(AddInclude(cfg, call, inc), AddInclude(cfg2, call, inc2))
<1> DEFINE sum == AddInclude(cfg, call, inc)
           sum2 == AddInclude(cfg2, call, inc2)
<1>1. inc = Failed => sum.dbs = cfg.dbs /\ sum.queries = cfg.queries
  BY DEF AddInclude, LoadedConfig
<1>2. inc2 = Failed => sum2.dbs = cfg2.dbs /\ sum2.queries = cfg2.queries
  BY DEF AddInclude, LoadedConfig
<1>3. CASE inc2 = Failed
  <2>1. inc = Failed
    BY <1>3 DEF Contained
  <2> QED
    BY <1>1, <1>2, <1>3, <2>1 DEF SameView
<1>4. CASE inc = Failed /\ inc2 # Failed
  <2>1. inc2 \in LoadedConfig /\ DefinesNothing(inc2)
    BY <1>4 DEF Contained, Result
  <2>2. PICK part \in LoadedConfig : DefinesNothing(part) /\ sum2 = MergeConfig(cfg2, part)
    <3>1. CASE call.suffix
      <4> DEFINE part == CloneQueriesForDB(inc2, call.db)
      <4>1. /\ part \in LoadedConfig
            /\ part.dbs = inc2.dbs
            /\ DOMAIN part.queries = {Append(key, call.db) : key \in DOMAIN inc2.queries}
        BY <2>1, CloneType
      <4>2. DefinesNothing(part)
        <5> HIDE DEF part
        <5> QED
          BY <2>1, <4>1 DEF DefinesNothing
      <4>3. sum2 = MergeConfig(cfg2, part)
        BY <1>4, <3>1 DEF AddInclude
      <4> QED
        BY <4>1, <4>2, <4>3
    <3>2. CASE ~call.suffix
      <4>1. sum2 = MergeConfig(cfg2, inc2)
        BY <1>4, <3>2 DEF AddInclude
      <4> QED
        BY <2>1, <4>1
    <3> QED
      BY <3>1, <3>2
  <2>3. SameView(cfg, sum2)
    BY <2>2, MergeNothing
  <2> QED
    BY <1>1, <1>4, <2>3 DEF SameView
<1>5. CASE inc # Failed /\ inc2 # Failed
  <2>1. /\ inc \in LoadedConfig /\ inc2 \in LoadedConfig
        /\ SameView(inc, inc2)
    BY <1>5 DEF Contained, Result
  <2>2. CASE call.suffix
    <3>1. /\ sum = MergeConfig(cfg, CloneQueriesForDB(inc, call.db))
          /\ sum2 = MergeConfig(cfg2, CloneQueriesForDB(inc2, call.db))
      BY <1>5, <2>2 DEF AddInclude
    <3>2. SameView(CloneQueriesForDB(inc, call.db), CloneQueriesForDB(inc2, call.db))
      BY <2>1, CloneSameView
    <3> QED
      BY <3>1, <3>2, MergeSameView
  <2>3. CASE ~call.suffix
    <3>1. sum = MergeConfig(cfg, inc) /\ sum2 = MergeConfig(cfg2, inc2)
      BY <1>5, <2>3 DEF AddInclude
    <3> QED
      BY <2>1, <3>1, MergeSameView
  <2> QED
    BY <2>2, <2>3
<1> QED
  BY <1>3, <1>4, <1>5

LEMMA EmptyIsContent ==
    Empty \in Content
BY DEF Empty, Content

LEMMA EmptyFileDefinesNothing ==
    ASSUME NEW files \in Disks, NEW left, NEW call \in Call, files[call.file] = Empty,
           NEW loaded, ~Fails(files, left, call)
    PROVE  DefinesNothing(LoadFile(files, left, call, loaded))
<1> DEFINE calls == CallsIn(files, call)
           own == OwnIn(files, left, call)
           T == CallsOf(call.file, Empty, EntriesIn(files, call), call.reject)
<1>1. calls \in Seq(T)
  BY CallsInType
<1>2. T = {}
  BY DEF CallsOf, Empty
<1> HIDE DEF calls, T
<1>3. Len(calls) = 0
  <2>1. Len(calls) \in Nat /\ \A i \in 1 .. Len(calls) : calls[i] \in T
    BY <1>1
  <2>2. ~(1 \in 1 .. Len(calls))
    BY <1>2, <2>1
  <2> QED
    BY <2>1, <2>2
<1>4. LoadFile(files, left, call, loaded) = own
  <2>1. LoadFile(files, left, call, loaded)
           = MergedUpTo(own, calls, loaded)[Len(calls)]
    BY LoadFileIs DEF calls
  <2> HIDE DEF own
  <2>2. MergedUpTo(own, calls, loaded)[0] = own
    <3>1. Len(calls) \in Nat
      BY <1>3
    <3> QED
      BY Zenon, <3>1, MergedUpToDef
  <2> QED
    BY <1>3, <2>1, <2>2
<1>5. DefinesNothing(own)
  BY DEF OwnIn, OwnPart, DefinesNothing, Empty, QueriesOf
<1> QED
  BY <1>4, <1>5

LEMMA LoadFileContained ==
    ASSUME NEW files \in Disks, NEW f \in File, NEW left, NEW call \in Call,
           call.file # f, NEW files2, files2 = [files EXCEPT ![f] = Empty],
           NEW loaded, NEW loaded2,
           \A x \in Call : /\ loaded[x] \in Result /\ loaded2[x] \in Result
                           /\ Contained(f, x, loaded[x], loaded2[x]),
           ~Fails(files, left, call)
    PROVE  SameView(LoadFile(files, left, call, loaded),
                    LoadFile(files2, left, call, loaded2))
<1> DEFINE calls == CallsIn(files, call)
           own == OwnIn(files, left, call)
           T == CallsOf(call.file, files[call.file], EntriesIn(files, call), call.reject)
           m == MergedUpTo(own, calls, loaded)
           m2 == MergedUpTo(own, calls, loaded2)
           n == Len(calls)
           S == {i \in 0 .. n : SameView(m[i], m2[i])}
<1>1. LoadFile(files, left, call, loaded) = m[n]
  BY LoadFileIs
<1>2. calls \in Seq(T) /\ own \in LoadedConfig
  BY CallsInType, OwnInType
<1>3. T \in SUBSET Call /\ \A x \in T : x.db \in DB
  BY DEF CallsOf
<1>4. files2[call.file] = files[call.file]
  BY DEF Call, Disks
<1>5. LoadFile(files2, left, call, loaded2) = m2[n]
  <2>1. ~Fails(files2, left, call)
    BY <1>4 DEF Fails
  <2>2. CallsIn(files2, call) = calls /\ OwnIn(files2, left, call) = own
    BY <1>4 DEF CallsIn, EntriesIn, OwnIn
  <2> QED
    BY <2>1, <2>2, LoadFileIs
<1> HIDE DEF calls, own, T
<1>6. n \in Nat
  BY <1>2
<1>7. \A i \in 0 .. n : m[i] \in LoadedConfig /\ m2[i] \in LoadedConfig
  <2>1. \A x \in Call : loaded[x] \in Result
    OBVIOUS
  <2>2. \A x \in Call : loaded2[x] \in Result
    OBVIOUS
  <2>3. \A i \in 0 .. n : m[i] \in LoadedConfig
    BY <1>2, <1>3, <2>1, MergedType
  <2>4. \A i \in 0 .. n : m2[i] \in LoadedConfig
    BY <1>2, <1>3, <2>2, MergedType
  <2> QED
    BY <2>3, <2>4
<1>8. /\ m[0] = own
      /\ \A i \in 1 .. n : m[i] = AddInclude(m[i - 1], calls[i], loaded[calls[i]])
  BY ONLY <1>6, MergedUpToDef
<1>9. /\ m2[0] = own
      /\ \A i \in 1 .. n : m2[i] = AddInclude(m2[i - 1], calls[i], loaded2[calls[i]])
  BY ONLY <1>6, MergedUpToDef
<1> HIDE DEF m, m2
<1>10. 0 \in S
  BY <1>6, <1>8, <1>9 DEF SameView
<1>11. ASSUME NEW i \in 1 .. n, i - 1 \in S
       PROVE  i \in S
  <2> DEFINE x == calls[i]
  <2>1. x \in T
    BY <1>2
  <2>2. x \in Call /\ x.db \in DB
    BY <1>3, <2>1
  <2>3. /\ loaded[x] \in Result /\ loaded2[x] \in Result
        /\ Contained(f, x, loaded[x], loaded2[x])
    BY <2>2
  <2>4. /\ m[i - 1] \in LoadedConfig /\ m2[i - 1] \in LoadedConfig
        /\ SameView(m[i - 1], m2[i - 1])
    BY <1>6, <1>7, <1>11
  <2>5. /\ m[i] = AddInclude(m[i - 1], x, loaded[x])
        /\ m2[i] = AddInclude(m2[i - 1], x, loaded2[x])
    BY <1>8, <1>9
  <2> HIDE DEF x
  <2>6. SameView(m[i], m2[i])
    BY <2>2, <2>3, <2>4, <2>5, AddIncludeContained
  <2> QED
    BY <1>6, <2>6
<1>12. n \in S
  <2> HIDE DEF S, n
  <2> QED
    BY <1>6, <1>10, <1>11, Induction
<1> QED
  BY <1>1, <1>5, <1>12

LEMMA LoadContained ==
    ASSUME NEW files \in Disks, NEW f \in File, ~files[f].ok
    PROVE  LET files2 == [files EXCEPT ![f] = Empty]
           IN  \A left \in 0 .. MaxIncludeDepth + 1 : \A call \in Call :
                   Contained(f, call, Load(files)[left][call], Load(files2)[left][call])
<1> DEFINE n == MaxIncludeDepth + 1
           files2 == [files EXCEPT ![f] = Empty]
           up == Load(files)
           up2 == Load(files2)
           S == {left \in 0 .. n : \A call \in Call :
                     Contained(f, call, up[left][call], up2[left][call])}
<1>1. n \in Nat
  BY LoaderAssumption
<1>2. files2 \in Disks /\ files2[f] = Empty
  BY EmptyIsContent DEF Disks
<1>3. \A call \in Call : call.file # f => files2[call.file] = files[call.file]
  BY DEF Call, Disks
<1>4. \A left \in 0 .. n : \A call \in Call :
         /\ up[left][call] = LoadFile(files, left, call, up[left - 1])
         /\ up2[left][call] = LoadFile(files2, left, call, up2[left - 1])
  BY LoadDef
<1> HIDE DEF files2
<1>5. \A left \in 0 .. n : \A call \in Call :
         /\ up[left][call] \in Result /\ up2[left][call] \in Result
         /\ up[left][call] = Failed <=> Fails(files, left, call)
         /\ up2[left][call] = Failed <=> Fails(files2, left, call)
  BY <1>2, LoadType
<1> HIDE DEF up, up2
<1>6. 0 \in S
  <2>1. \A call \in Call : Fails(files, 0, call) /\ Fails(files2, 0, call)
    BY DEF Fails, FileFails
  <2> QED
    BY <1>1, <1>5, <2>1 DEF Contained
<1>7. ASSUME NEW left \in 1 .. n, left - 1 \in S
      PROVE  left \in S
  <2>1. \A x \in Call : /\ up[left - 1][x] \in Result /\ up2[left - 1][x] \in Result
                        /\ Contained(f, x, up[left - 1][x], up2[left - 1][x])
    BY <1>1, <1>5, <1>7
  <2>2. ASSUME NEW call \in Call
        PROVE  Contained(f, call, up[left][call], up2[left][call])
    <3>1. /\ up[left][call] = LoadFile(files, left, call, up[left - 1])
          /\ up2[left][call] = LoadFile(files2, left, call, up2[left - 1])
          /\ up[left][call] = Failed <=> Fails(files, left, call)
          /\ up2[left][call] = Failed <=> Fails(files2, left, call)
      BY <1>1, <1>4, <1>5
    <3>2. CASE call.file = f
      <4>1. up[left][call] = Failed
        BY <3>1, <3>2 DEF Fails, FileFails
      <4>2. up2[left][call] # Failed => DefinesNothing(up2[left][call])
        BY <1>2, <3>1, <3>2, EmptyFileDefinesNothing
      <4> QED
        BY <3>2, <4>1, <4>2 DEF Contained
    <3>3. CASE call.file # f
      <4>1. Fails(files, left, call) <=> Fails(files2, left, call)
        BY <1>3, <3>3 DEF Fails
      <4>2. ASSUME up[left][call] # Failed
            PROVE  SameView(up[left][call], up2[left][call])
        <5>1. ~Fails(files, left, call)
          BY <3>1, <4>2
        <5>2. files2 = [files EXCEPT ![f] = Empty]
          BY DEF files2
        <5>3. SameView(LoadFile(files, left, call, up[left - 1]),
                       LoadFile(files2, left, call, up2[left - 1]))
          BY <2>1, <3>3, <5>1, <5>2, LoadFileContained
        <5> QED
          BY <3>1, <5>3
      <4> QED
        BY <3>1, <3>3, <4>1, <4>2 DEF Contained
    <3> QED
      BY <3>2, <3>3
  <2> QED
    BY <1>1, <2>2
<1>8. 0 .. n \subseteq S
  <2> HIDE DEF S, n
  <2> QED
    BY <1>1, <1>6, <1>7, Induction
<1> QED
  BY <1>8 DEF up, up2, files2

-----------------------------------------------------------------------------
(* The configuration that the root file amounts to                         *)

LEMMA RootCallType ==
    RootCall \in Call
BY LoaderAssumption DEF RootCall, Call

LEMMA LoadConfigType ==
    ASSUME NEW files \in Disks
    PROVE  LoadConfig(files) \in Result
<1>1. MaxIncludeDepth + 1 \in 0 .. MaxIncludeDepth + 1
  BY LoaderAssumption
<1> QED
  BY <1>1, RootCallType, LoadType DEF LoadConfig

LEMMA LoadConfigHolds ==
    ASSUME NEW files \in Disks, LoadConfig(files) # Failed
    PROVE  QueriesHold(files, FALSE, LoadConfig(files))
<1> DEFINE n == MaxIncludeDepth + 1
<1>1. n \in 0 .. n /\ n - n = 0
  BY LoaderAssumption
<1>2. RootCall \in Call /\ RootCall.file = root /\ RootCall.reject = FALSE
  BY RootCallType DEF RootCall
<1>3. \A k \in Key : Having(files, <<>>, k) = {} /\ RootCall.entries[k] = NoEntry
  BY DEF Having, RootCall
<1>4. ComesBy(files, <<>>, n, RootCall)
  <2>1. EntriesHold(files, <<>>, RootCall.entries)
    BY <1>3 DEF EntriesHold
  <2>2. <<>> \in Seq(Steps(files)) /\ IsChain(<<>>) /\ Len(<<>>) = 0
    BY EmptySeq DEF IsChain
  <2>3. End(<<>>) = root
    BY DEF End
  <2>4. Len(<<>>) = MaxIncludeDepth + 1 - n
    BY <2>2, LoaderAssumption
  <2> HIDE DEF n
  <2> QED
    BY <1>2, <2>1, <2>2, <2>3, <2>4 DEF ComesBy
<1>5. IncludeHolds(files, n, RootCall)
  BY <1>4 DEF IncludeHolds
<1> HIDE DEF n
<1>6. LoadConfig(files) = Load(files)[n][RootCall]
  BY DEF LoadConfig, n
<1>7. \A left \in 0 .. n : \A call \in Call :
         IncludeHolds(files, left, call) /\ Load(files)[left][call] # Failed
             => QueriesHold(files, call.reject, Load(files)[left][call])
  BY LoadHolds DEF n
<1> QED
  BY <1>1, <1>2, <1>5, <1>6, <1>7

(***************************************************************************)
(* The configuration is a function of the files among its own dependencies *)
(* (config.go:353), and whether there is one, of the root file alone: the  *)
(* watcher misses nothing if it watches those.                             *)
(***************************************************************************)
THEOREM DependenciesSuffice ==
    ASSUME NEW files \in Disks, NEW files2 \in Disks, files[root] = files2[root]
    PROVE  /\ LoadConfig(files) = Failed <=> LoadConfig(files2) = Failed
           /\ LoadConfig(files) # Failed
              /\ Agree(files, files2, LoadConfig(files).dependencies)
                 => LoadConfig(files2) = LoadConfig(files)
<1>1. MaxIncludeDepth + 1 \in 0 .. MaxIncludeDepth + 1
  BY LoaderAssumption
<1>2. SameResult(files, files2, RootCall, LoadConfig(files), LoadConfig(files2))
  BY <1>1, RootCallType, LoadSame DEF LoadConfig
<1>3. RootCall.file = root
  BY DEF RootCall
<1> QED
  BY <1>2, <1>3 DEF SameResult

LEMMA AppliedType ==
    ASSUME NEW cfg \in LoadedConfig
    PROVE  /\ Applied(cfg).dbs \in [DB -> File \cup {NoFile}]
           /\ \A k \in DOMAIN Applied(cfg).queries :
                 /\ k[1] \in Name /\ \A i \in 2 .. Len(k) : k[i] \in DB
                 /\ Applied(cfg).queries[k] \in [db : DB, from : File]
           /\ Dirs(cfg) \subseteq Dir
<1>1. /\ cfg.dbs \in [DB -> File \cup {NoFile}]
      /\ cfg.queries \in Queries
      /\ cfg.dependencies \subseteq File
  BY DEF LoadedConfig
<1>2. \A k \in DOMAIN cfg.queries : k \in WorkerKey /\ cfg.queries[k] \in QueryDef
  BY <1>1, QueriesElim
<1> DEFINE a == Applied(cfg)
<1>3. /\ a.dbs = cfg.dbs
      /\ DOMAIN a.queries = {k \in DOMAIN cfg.queries : cfg.queries[k].db \in Defined(cfg)}
      /\ \A k \in DOMAIN a.queries : a.queries[k] = cfg.queries[k]
  BY DEF Applied, SanitizeQueries
<1> HIDE DEF a
<1>4. ASSUME NEW k \in DOMAIN a.queries
      PROVE  /\ k[1] \in Name /\ \A i \in 2 .. Len(k) : k[i] \in DB
             /\ a.queries[k] \in [db : DB, from : File]
  <2>1. k \in WorkerKey /\ a.queries[k] \in QueryDef /\ a.queries[k].db \in DB
    BY <1>2, <1>3 DEF Defined
  <2> QED
    BY <2>1 DEF WorkerKey, QueryDef
<1>5. Dirs(cfg) \subseteq Dir
  BY <1>1, LoaderAssumption DEF Dirs
<1> QED
  BY <1>1, <1>3, <1>4, <1>5 DEF a

-----------------------------------------------------------------------------
(* What holds in every state                                               *)

(***************************************************************************)
(* While nothing is noticed, the directories of all that the last load     *)
(* depended on are watched: an edit that goes unnoticed is one of a file   *)
(* on which the configuration does not depend.                             *)
(***************************************************************************)
LoaderInv ==
    /\ disk \in Disks
    /\ LoaderTypeOK
    /\ DirOf[root] \in watched
    /\ ~noticed /\ Loaded # Failed => Dirs(Loaded) \subseteq watched
    /\ QuietMeansApplied

LEMMA LoaderInit_Inv ==
    LoaderInit => LoaderInv
<1> SUFFICES ASSUME LoaderInit
             PROVE  LoaderInv
  OBVIOUS
<1>1. disk \in Disks /\ \A f \in File : disk[f] \in Contents[f]
  BY LoaderAssumption DEF LoaderInit, Disks
<1>2. /\ applied.dbs \in [DB -> File \cup {NoFile}]
      /\ DOMAIN applied.queries = {}
  BY DEF LoaderInit, Nothing
<1>3. noticed = TRUE /\ watched = {DirOf[root]} /\ DirOf[root] \in Dir
  BY LoaderAssumption DEF LoaderInit
<1> QED
  BY <1>1, <1>2, <1>3 DEF LoaderInv, LoaderTypeOK, QuietMeansApplied

LEMMA Edit_Inv ==
    ASSUME LoaderInv, NEW f \in File, NEW c \in Contents[f], Edit(f, c)
    PROVE  LoaderInv'
<1>1. c \in Content
  BY LoaderAssumption
<1>2. disk \in Disks /\ disk' = [disk EXCEPT ![f] = c] /\ disk' \in Disks
  BY <1>1 DEF LoaderInv, Edit, Disks
<1>3. LoaderTypeOK'
  <2>1. \A g \in File : disk'[g] \in Contents[g]
    BY <1>2 DEF LoaderInv, LoaderTypeOK, Disks
  <2>2. noticed' \in BOOLEAN
    BY DEF Edit
  <2>3. applied' = applied /\ watched' = watched
    BY DEF Edit
  <2> QED
    BY <2>1, <2>2, <2>3 DEF LoaderInv, LoaderTypeOK
<1>4. (DirOf[root] \in watched)'
  BY DEF LoaderInv, Edit
<1>5. ASSUME ~noticed', Loaded' # Failed
      PROVE  /\ Loaded # Failed /\ Loaded' = Loaded
             /\ Dirs(Loaded) \subseteq watched
             /\ IsValid(disk', Loaded) <=> IsValid(disk, Loaded)
  <2>1. ~noticed /\ DirOf[f] \notin watched
    BY <1>5 DEF Edit
  <2>2. f # root /\ disk'[root] = disk[root]
    BY <1>2, <2>1, LoaderAssumption DEF LoaderInv, Disks
  <2>3. LoadConfig(disk) # Failed
    BY <1>2, <1>5, <2>2, DependenciesSuffice DEF Loaded
  <2>4. LoadConfig(disk) \in LoadedConfig
    BY <1>2, <2>3, LoadConfigType DEF Result
  <2>5. Dirs(Loaded) \subseteq watched
    BY <2>1, <2>3 DEF LoaderInv, Loaded
  <2>6. f \notin LoadConfig(disk).dependencies
    BY <2>1, <2>5 DEF Dirs, Loaded
  <2>7. Agree(disk, disk', LoadConfig(disk).dependencies)
    BY <1>2, <2>4, <2>6 DEF Agree, LoadedConfig, Disks
  <2>8. LoadConfig(disk') = LoadConfig(disk)
    BY <1>2, <2>2, <2>3, <2>7, DependenciesSuffice
  <2> QED
    BY <2>2, <2>3, <2>5, <2>8 DEF Loaded, IsValid
<1>6. (~noticed /\ Loaded # Failed => Dirs(Loaded) \subseteq watched)'
  BY <1>5 DEF Edit
<1>7. QuietMeansApplied'
  <2>1. SUFFICES ASSUME ~noticed', Loaded' # Failed, IsValid(disk', Loaded')
                 PROVE  applied' = Applied(Loaded')
    BY DEF QuietMeansApplied
  <2>2. ~noticed /\ applied' = applied
    BY <2>1 DEF Edit
  <2> QED
    BY <1>5, <2>1, <2>2 DEF LoaderInv, QuietMeansApplied
<1> QED
  BY <1>2, <1>3, <1>4, <1>6, <1>7 DEF LoaderInv

LEMMA Reload_Inv ==
    ASSUME LoaderInv, Reload
    PROVE  LoaderInv'
<1> DEFINE cfg == LoadConfig(disk)
<1>1. disk' = disk /\ noticed' = FALSE /\ disk \in Disks
  BY DEF LoaderInv, Reload
<1>2. Loaded = cfg /\ Loaded' = cfg
  BY <1>1 DEF Loaded
<1>3. CASE cfg = Failed
  <2>1. applied' = applied /\ watched' = watched
    BY <1>3 DEF Reload
  <2> QED
    BY <1>1, <1>2, <1>3, <2>1 DEF LoaderInv, LoaderTypeOK, QuietMeansApplied
<1>4. CASE cfg # Failed
  <2>1. /\ watched' = watched \cup Dirs(cfg)
        /\ applied' = IF IsValid(disk, cfg) THEN Applied(cfg) ELSE applied
    BY <1>4 DEF Reload
  <2>2. cfg \in LoadedConfig
    BY <1>1, <1>4, LoadConfigType DEF Result
  <2> HIDE DEF cfg
  <2>3. LoaderTypeOK'
    BY <1>1, <2>1, <2>2, AppliedType DEF LoaderInv, LoaderTypeOK
  <2>4. QuietMeansApplied'
    BY <1>1, <1>2, <2>1 DEF QuietMeansApplied
  <2> QED
    BY <1>1, <1>2, <2>1, <2>3, <2>4 DEF LoaderInv
<1> QED
  BY <1>3, <1>4

LEMMA LoaderInv_Stutter ==
    ASSUME LoaderInv, UNCHANGED loaderVars
    PROVE  LoaderInv'
BY DEF LoaderInv, LoaderTypeOK, QuietMeansApplied, Loaded, loaderVars

(***************************************************************************)
(* The invariant of the loader: nothing on which the configuration depends *)
(* escapes the watcher.                                                    *)
(***************************************************************************)
THEOREM LoaderInvariance == Spec => []LoaderInv
<1>1. LoaderInit => LoaderInv
  BY LoaderInit_Inv
<1>2. LoaderInv /\ [Next]_loaderVars => LoaderInv'
  <2>1. SUFFICES ASSUME LoaderInv, [Next]_loaderVars
                 PROVE  LoaderInv'
    OBVIOUS
  <2>2. CASE \E f \in File : \E c \in Contents[f] : Edit(f, c)
    BY <2>1, <2>2, Edit_Inv
  <2>3. CASE Reload
    BY <2>1, <2>3, Reload_Inv
  <2>4. CASE UNCHANGED loaderVars
    BY <2>1, <2>4, LoaderInv_Stutter
  <2> QED
    BY <2>1, <2>2, <2>3, <2>4 DEF Next
<1> QED
  BY <1>1, <1>2, PTL DEF Spec

(***************************************************************************)
(* What a reload applies is well formed: names and databases as declared,  *)
(* each worker on a database that exists (sanitizeQueries).                *)
(***************************************************************************)
THEOREM LoaderTypes == Spec => []LoaderTypeOK
<1>1. LoaderInv => LoaderTypeOK
  BY DEF LoaderInv
<1> QED
  BY <1>1, LoaderInvariance, PTL

(***************************************************************************)
(* Once the watcher has nothing left to report, the workers are those that *)
(* the files ask for, whatever files were missing, broken or edited in     *)
(* between (loadConfigWithContext, config.go:353).                         *)
(***************************************************************************)
THEOREM QuietIsCurrent == Spec => []QuietMeansApplied
<1>1. LoaderInv => QuietMeansApplied
  BY DEF LoaderInv
<1> QED
  BY <1>1, LoaderInvariance, PTL

(***************************************************************************)
(* An include that cannot be read or parsed costs what it would define and *)
(* nothing else (config.go:390).                                           *)
(***************************************************************************)
THEOREM BrokenIncludes == Spec => []BrokenIncludeIsContained
<1>1. LoaderInv => BrokenIncludeIsContained
  <2>1. SUFFICES ASSUME disk \in Disks, NEW f \in File \ {root}, ~disk[f].ok
                 PROVE  /\ (Loaded = Failed) <=> (Without(f) = Failed)
                        /\ Loaded # Failed => /\ Loaded.dbs = Without(f).dbs
                                              /\ Loaded.queries = Without(f).queries
    BY DEF LoaderInv, BrokenIncludeIsContained
  <2>2. MaxIncludeDepth + 1 \in 0 .. MaxIncludeDepth + 1
    BY LoaderAssumption
  <2>3. Contained(f, RootCall, Loaded, Without(f))
    BY <2>1, <2>2, RootCallType, LoadContained DEF Loaded, Without, LoadConfig
  <2>4. RootCall.file # f
    BY <2>1 DEF RootCall
  <2> QED
    BY <2>3, <2>4 DEF Contained, SameView
<1> QED
  BY <1>1, LoaderInvariance, PTL

(***************************************************************************)
(* A query that names its database is loaded once, whatever the includes   *)
(* for several databases above its file are (README.md:379).               *)
(***************************************************************************)
THEOREM ExplicitDBs == Spec => []ExplicitDBRunsOnce
<1>1. LoaderInv => ExplicitDBRunsOnce
  <2>1. SUFFICES ASSUME disk \in Disks, Loaded # Failed,
                        NEW k \in DOMAIN Loaded.queries,
                        NEW key \in DOMAIN Loaded.queries,
                        SameWork(Loaded.queries, k, key),
                        disk[Loaded.queries[k].from].queries[k[1]] # NoDB
                 PROVE  k = key
    BY DEF LoaderInv, ExplicitDBRunsOnce
  <2>2. QueriesHold(disk, FALSE, Loaded)
    BY <2>1, LoadConfigHolds DEF Loaded
  <2>3. key[1] = k[1] /\ Loaded.queries[key] = Loaded.queries[k]
    BY <2>1 DEF SameWork
  <2>4. Len(k) = 1 /\ Len(key) = 1
    BY <2>1, <2>2, <2>3 DEF QueriesHold
  <2>5. k \in Seq(Name \cup DB) /\ key \in Seq(Name \cup DB)
    <3>1. Loaded \in LoadedConfig
      BY <2>1, LoadConfigType DEF Loaded, Result
    <3>2. Loaded.queries \in Queries
      BY <3>1 DEF LoadedConfig
    <3>3. k \in WorkerKey /\ key \in WorkerKey
      BY <2>1, <3>2, QueriesElim
    <3> QED
      BY <3>3 DEF WorkerKey
  <2> QED
    BY <2>3, <2>4, <2>5, SeqEqual
<1> QED
  BY <1>1, LoaderInvariance, PTL

(***************************************************************************)
(* A query that names no database runs on that of its file's default_db,   *)
(* or of the include_defaults entry of the nearest file on a way to it;    *)
(* the root's own, on that of the settings (config.go:314, 366, 388).      *)
(***************************************************************************)
THEOREM Defaults == Spec => []DefaultFromNearest
<1>1. LoaderInv => DefaultFromNearest
  BY LoadConfigHolds DEF LoaderInv, DefaultFromNearest, QueriesHold, MayRun, Loaded
<1> QED
  BY <1>1, LoaderInvariance, PTL

-----------------------------------------------------------------------------
(* Clones of plain includes                                                *)

PlainDisk(files) ==
    /\ \A p \in files[root].includes :
           /\ FullPath(root, p) # root
           /\ \A other \in files[root].includes :
                  FullPath(root, other) = FullPath(root, p) => other = p
    /\ \A f \in File \ {root} : files[f].defaultDB = NoDB /\ files[f].includes = {}

\* The files that the root includes for several databases.
Shared(files, entries) ==
    {f \in File : \E p \in files[root].includes :
                      FullPath(root, p) = f /\ Len(EntryOf(entries, p)) > 1}

(***************************************************************************)
(* A worker's key tells its database exactly if its file is shared by      *)
(* several of them.                                                        *)
(***************************************************************************)
KeysTell(shared, cfg) ==
    \A k \in DOMAIN cfg.queries :
        IF cfg.queries[k].from \in shared
        THEN Len(k) = 2 /\ k[2] = cfg.queries[k].db
        ELSE Len(k) = 1

\* What an include amounts to that includes nothing and has no default_db.
LEMMA PlainLoad ==
    ASSUME NEW files \in Disks, PlainDisk(files), NEW call \in Call, call.file # root,
           Load(files)[MaxIncludeDepth][call] # Failed
    PROVE  \A k \in DOMAIN Load(files)[MaxIncludeDepth][call].queries :
               /\ Len(k) = 1
               /\ Load(files)[MaxIncludeDepth][call].queries[k].from = call.file
               /\ call.reject =>
                     Load(files)[MaxIncludeDepth][call].queries[k].db = call.db
<1> DEFINE n == MaxIncludeDepth
           up == Load(files)
           c == files[call.file]
           own == OwnIn(files, n, call)
           calls == CallsIn(files, call)
           T == CallsOf(call.file, c, EntriesIn(files, call), call.reject)
           d == EffectiveDefaultDB(c, n = n + 1, call.db)
<1>1. n \in Nat /\ n \in 0 .. n + 1
  BY LoaderAssumption
<1>2. call.file \in File /\ c.defaultDB = NoDB /\ c.includes = {}
  BY DEF Call, PlainDisk
<1>3. ~Fails(files, n, call)
  BY <1>1, LoadType
<1>4. up[n][call] = LoadFile(files, n, call, up[n - 1])
  BY <1>1, LoadDef
<1>5. calls \in Seq(T)
  BY CallsInType
<1>6. Len(calls) = 0
  <2>1. T = {}
    BY <1>2 DEF CallsOf
  <2> HIDE DEF calls, T
  <2>2. Len(calls) \in Nat /\ \A i \in 1 .. Len(calls) : calls[i] \in T
    BY <1>5
  <2>3. ~(1 \in 1 .. Len(calls))
    BY <2>1, <2>2
  <2> QED
    BY <2>2, <2>3
<1>7. up[n][call] = own
  <2> DEFINE m == MergedUpTo(own, calls, up[n - 1])
  <2>1. LoadFile(files, n, call, up[n - 1]) = m[Len(calls)]
    BY <1>3, LoadFileIs
  <2> HIDE DEF own, calls, up
  <2>2. Len(calls) \in Nat
    BY <1>6
  <2>3. m[0] = own
    BY ONLY <2>2, MergedUpToDef
  <2> QED
    BY <1>4, <1>6, <2>1, <2>3
<1>8. d = call.db
  BY <1>1, <1>2 DEF EffectiveDefaultDB
<1>9. own.queries = [k \in {<<q>> : q \in QueriesOf(c)} |->
                        [db |-> IF c.queries[k[1]] = NoDB THEN d
                                                          ELSE c.queries[k[1]],
                         from |-> call.file]]
  BY DEF OwnIn, OwnPart
<1>10. call.reject => \A q \in QueriesOf(c) : c.queries[q] = NoDB
  BY <1>3 DEF Fails, FileFails
<1> HIDE DEF own, c, d
<1>11. ASSUME NEW k \in DOMAIN own.queries
       PROVE  /\ Len(k) = 1
              /\ own.queries[k].from = call.file
              /\ call.reject => own.queries[k].db = call.db
  <2>1. PICK q \in QueriesOf(c) : k = <<q>>
    BY <1>9
  <2>2. k[1] = q /\ Len(k) = 1
    BY <2>1
  <2>3. own.queries[k] = [db |-> IF c.queries[q] = NoDB THEN d ELSE c.queries[q],
                          from |-> call.file]
    BY <1>9, <2>1, <2>2
  <2> QED
    BY <1>8, <1>10, <2>2, <2>3
<1> HIDE DEF up
<1> QED
  BY <1>7, <1>11 DEF up

LEMMA AddIncludeTells ==
    ASSUME NEW shared, NEW cfg \in LoadedConfig, KeysTell(shared, cfg),
           NEW call \in Call, call.db \in DB,
           call.suffix <=> call.file \in shared,
           call.suffix => call.reject,
           NEW inc \in Result,
           inc # Failed => \A k \in DOMAIN inc.queries :
                               /\ Len(k) = 1
                               /\ inc.queries[k].from = call.file
                               /\ call.reject => inc.queries[k].db = call.db
    PROVE  KeysTell(shared, AddInclude(cfg, call, inc))
<1> DEFINE sum == AddInclude(cfg, call, inc)
<1>1. CASE inc = Failed
  <2>1. sum.queries = cfg.queries
    BY <1>1 DEF AddInclude, LoadedConfig
  <2> QED
    BY <2>1 DEF KeysTell
<1>2. CASE inc # Failed
  <2>1. inc \in LoadedConfig
    BY <1>2 DEF Result
  <2>2. PICK part : KeysTell(shared, part) /\ sum = MergeConfig(cfg, part)
    <3>1. CASE call.suffix
      <4> DEFINE part == CloneQueriesForDB(inc, call.db)
      <4>1. /\ DOMAIN part.queries = {Append(key, call.db) : key \in DOMAIN inc.queries}
            /\ \A key \in DOMAIN inc.queries :
                  part.queries[Append(key, call.db)] = inc.queries[key]
        BY <2>1, CloneType
      <4>2. DOMAIN inc.queries \subseteq WorkerKey
        <5>1. inc.queries \in Queries
          BY <2>1 DEF LoadedConfig
        <5> QED
          BY <5>1, QueriesElim
      <4> HIDE DEF part
      <4>3. ASSUME NEW k \in DOMAIN part.queries
            PROVE  /\ part.queries[k].from = call.file
                   /\ part.queries[k].db = call.db
                   /\ Len(k) = 2 /\ k[2] = call.db
        <5>1. PICK key \in DOMAIN inc.queries : k = Append(key, call.db)
          BY <4>1
        <5>2. key \in WorkerKey /\ Len(key) = 1
          BY <1>2, <4>2
        <5>3. Len(k) = Len(key) + 1 /\ k[Len(key) + 1] = call.db
          BY <5>1, <5>2, AppendKey
        <5>4. part.queries[k] = inc.queries[key]
          BY <4>1, <5>1
        <5> QED
          BY <1>2, <3>1, <5>2, <5>3, <5>4
      <4>4. KeysTell(shared, part)
        BY <3>1, <4>3 DEF KeysTell
      <4>5. sum = MergeConfig(cfg, part)
        BY <1>2, <3>1 DEF AddInclude, part
      <4> QED
        BY <4>4, <4>5
    <3>2. CASE ~call.suffix
      <4>1. KeysTell(shared, inc)
        BY <1>2, <3>2 DEF KeysTell
      <4> QED
        BY <1>2, <3>2, <4>1 DEF AddInclude
    <3> QED
      BY <3>1, <3>2
  <2>3. sum.queries = [k \in DOMAIN cfg.queries \cup DOMAIN part.queries |->
                          IF k \in DOMAIN part.queries THEN part.queries[k]
                                                       ELSE cfg.queries[k]]
    BY <2>2 DEF MergeConfig
  <2> HIDE DEF sum
  <2>4. ASSUME NEW k \in DOMAIN sum.queries
        PROVE  \/ k \in DOMAIN part.queries /\ sum.queries[k] = part.queries[k]
               \/ k \in DOMAIN cfg.queries /\ sum.queries[k] = cfg.queries[k]
    BY <2>3
  <2>5. KeysTell(shared, sum)
    BY <2>2, <2>4 DEF KeysTell
  <2> QED
    BY <2>5 DEF sum
<1> QED
  BY <1>1, <1>2

LEMMA LoadConfigTells ==
    ASSUME NEW files \in Disks, PlainDisk(files), LoadConfig(files) # Failed
    PROVE  KeysTell(Shared(files, EntriesIn(files, RootCall)), LoadConfig(files))
<1> DEFINE left == MaxIncludeDepth + 1
           loaded == Load(files)[MaxIncludeDepth]
           entries == EntriesIn(files, RootCall)
           shared == Shared(files, entries)
           calls == CallsIn(files, RootCall)
           own == OwnIn(files, left, RootCall)
           T == CallsOf(RootCall.file, files[RootCall.file], entries, RootCall.reject)
           m == MergedUpTo(own, calls, loaded)
           n == Len(calls)
           S == {i \in 0 .. n : KeysTell(shared, m[i])}
<1>1. /\ left \in 0 .. left /\ left - 1 = MaxIncludeDepth
      /\ MaxIncludeDepth \in 0 .. left
  BY LoaderAssumption
<1>2. RootCall \in Call /\ RootCall.file = root
  BY RootCallType DEF RootCall
<1>3. LoadConfig(files) = m[n]
  <2>1. ~Fails(files, left, RootCall)
    BY <1>1, <1>2, LoadType DEF LoadConfig
  <2>2. LoadConfig(files) = LoadFile(files, left, RootCall, Load(files)[left - 1])
    BY <1>1, <1>2, LoadDef DEF LoadConfig
  <2>3. LoadFile(files, left, RootCall, loaded) = m[n]
    BY <2>1, LoadFileIs
  <2> HIDE DEF m, left
  <2> QED
    BY <1>1, <2>2, <2>3
<1>4. calls \in Seq(T) /\ own \in LoadedConfig
  BY <1>2, CallsInType, OwnInType
<1>5. /\ T \in SUBSET Call
      /\ \A x \in T : /\ x.db \in DB
                      /\ x.file # root
                      /\ x.suffix <=> x.file \in shared
                      /\ x.suffix => x.reject
  <2>1. ASSUME NEW x \in T
        PROVE  /\ x \in Call /\ x.db \in DB /\ x.file # root
               /\ x.suffix <=> x.file \in shared
               /\ x.suffix => x.reject
    <3>1. PICK p \in files[root].includes :
             /\ x.file = FullPath(root, p) /\ x.db \in DB
             /\ x.suffix <=> Len(EntryOf(entries, p)) > 1
      BY <1>2 DEF CallsOf
    <3>2. x \in Call /\ (x.suffix => x.reject)
      BY DEF CallsOf
    <3>3. x.file \in File
      BY <3>2 DEF Call
    <3> HIDE DEF T, entries
    <3>4. \A other \in files[root].includes :
             FullPath(root, other) = x.file => other = p
      BY <3>1 DEF PlainDisk
    <3>5. x.file \in shared <=> Len(EntryOf(entries, p)) > 1
      BY <3>1, <3>3, <3>4 DEF Shared
    <3>6. x.file # root
      BY <3>1 DEF PlainDisk
    <3> QED
      BY <3>1, <3>2, <3>5, <3>6
  <2> HIDE DEF T, shared
  <2> QED
    BY <2>1
<1>6. \A x \in Call : loaded[x] \in Result
  BY <1>1, LoadType
<1>7. KeysTell(shared, own)
  <2>1. own.queries = [k \in {<<q>> : q \in QueriesOf(files[root])} |->
                          [db |-> own.queries[k].db, from |-> root]]
    BY <1>2 DEF OwnIn, OwnPart
  <2> HIDE DEF own
  <2>2. \A k \in DOMAIN own.queries : Len(k) = 1 /\ own.queries[k].from = root
    BY <2>1
  <2>3. root \notin shared
    BY DEF Shared, PlainDisk
  <2> QED
    BY <2>2, <2>3 DEF KeysTell
<1>8. \A x \in T : loaded[x] # Failed =>
         \A k \in DOMAIN loaded[x].queries :
             /\ Len(k) = 1
             /\ loaded[x].queries[k].from = x.file
             /\ x.reject => loaded[x].queries[k].db = x.db
  BY <1>5, PlainLoad
<1> HIDE DEF loaded, shared, calls, own, T
<1>9. n \in Nat
  BY <1>4
<1>10. \A i \in 0 .. n : m[i] \in LoadedConfig
  BY <1>4, <1>5, <1>6, MergedType
<1>11. /\ m[0] = own
       /\ \A i \in 1 .. n : m[i] = AddInclude(m[i - 1], calls[i], loaded[calls[i]])
  BY ONLY <1>9, MergedUpToDef
<1> HIDE DEF m
<1>12. 0 \in S
  BY <1>7, <1>9, <1>11
<1>13. ASSUME NEW i \in 1 .. n, i - 1 \in S
       PROVE  i \in S
  <2> DEFINE x == calls[i]
  <2>1. x \in T
    BY <1>4
  <2>2. m[i] = AddInclude(m[i - 1], x, loaded[x])
    BY <1>11
  <2> HIDE DEF x
  <2>3. /\ x \in Call /\ x.db \in DB
        /\ x.suffix <=> x.file \in shared
        /\ x.suffix => x.reject
        /\ loaded[x] \in Result
    BY <1>5, <1>6, <2>1
  <2>4. loaded[x] # Failed =>
           \A k \in DOMAIN loaded[x].queries :
               /\ Len(k) = 1
               /\ loaded[x].queries[k].from = x.file
               /\ x.reject => loaded[x].queries[k].db = x.db
    BY <1>8, <2>1
  <2>5. m[i - 1] \in LoadedConfig /\ KeysTell(shared, m[i - 1])
    BY <1>9, <1>10, <1>13
  <2>6. KeysTell(shared, m[i])
    BY <2>2, <2>3, <2>4, <2>5, AddIncludeTells
  <2> QED
    BY <1>9, <2>6
<1>14. n \in S
  <2> HIDE DEF S, n
  <2> QED
    BY <1>9, <1>12, <1>13, Induction
<1> QED
  BY <1>3, <1>14 DEF shared

LEMMA AppliedClonesDiffer ==
    ASSUME NEW files \in Disks, PlainDisk(files), LoadConfig(files) # Failed
    PROVE  LET queries == Applied(LoadConfig(files)).queries
           IN  \A k, key \in DOMAIN queries : SameWork(queries, k, key) => k = key
<1> DEFINE cfg == LoadConfig(files)
           queries == Applied(cfg).queries
           shared == Shared(files, EntriesIn(files, RootCall))
<1>1. KeysTell(shared, cfg)
  BY LoadConfigTells
<1>2. /\ DOMAIN queries \subseteq DOMAIN cfg.queries
      /\ \A k \in DOMAIN queries : queries[k] = cfg.queries[k]
  BY DEF Applied, SanitizeQueries
<1>3. \A k \in DOMAIN queries : k \in Seq(Name \cup DB)
  <2>1. cfg \in LoadedConfig
    BY LoadConfigType DEF Result
  <2>2. cfg.queries \in Queries
    BY <2>1 DEF LoadedConfig
  <2>3. \A k \in DOMAIN cfg.queries : k \in WorkerKey
    BY <2>2, QueriesElim
  <2> HIDE DEF cfg, queries
  <2> QED
    BY <1>2, <2>3 DEF WorkerKey
<1> HIDE DEF cfg, queries, shared
<1>4. ASSUME NEW k \in DOMAIN queries, NEW key \in DOMAIN queries,
             SameWork(queries, k, key)
      PROVE  k = key
  <2>1. k[1] = key[1] /\ cfg.queries[k] = cfg.queries[key]
    BY <1>2, <1>4 DEF SameWork
  <2>2. /\ Len(k) = Len(key) /\ Len(k) \in {1, 2}
        /\ Len(k) = 2 => k[2] = key[2]
    BY <1>1, <1>2, <2>1 DEF KeysTell
  <2>3. \A i \in 1 .. Len(k) : k[i] = key[i]
    BY <2>1, <2>2
  <2> QED
    BY <1>3, <2>2, <2>3, SeqEqual
<1> QED
  BY <1>4 DEF cfg, queries

(***************************************************************************)
(* Where included files have neither a default_db nor includes, the root   *)
(* is no include and includes no file by two paths, no two workers run one *)
(* query on one database for one metric (README.md:379, cloneQueriesForDB).*)
(***************************************************************************)
THEOREM ClonesRunApart ==
    ASSUME PlainIncludes(Contents)
    PROVE  Spec => []ClonesDiffer
<1>1. LoaderInit => ClonesDiffer
  BY DEF LoaderInit, Nothing, ClonesDiffer
<1>2. LoaderInv /\ ClonesDiffer /\ [Next]_loaderVars => ClonesDiffer'
  <2>1. SUFFICES ASSUME LoaderInv, ClonesDiffer, [Next]_loaderVars
                 PROVE  ClonesDiffer'
    OBVIOUS
  <2>2. CASE applied' = applied
    BY <2>1, <2>2 DEF ClonesDiffer
  <2>3. CASE applied' # applied
    <3>1. Reload /\ applied' = Applied(LoadConfig(disk)) /\ LoadConfig(disk) # Failed
      BY <2>1, <2>3 DEF Next, Edit, Reload, loaderVars
    <3>2. disk \in Disks /\ PlainDisk(disk)
      <4>1. disk \in Disks /\ \A f \in File : disk[f] \in Contents[f]
        BY <2>1 DEF LoaderInv, LoaderTypeOK
      <4> QED
        BY <4>1, LoaderAssumption DEF PlainIncludes, PlainDisk
    <3> QED
      BY <3>1, <3>2, AppliedClonesDiffer DEF ClonesDiffer
  <2> QED
    BY <2>2, <2>3
<1> QED
  BY <1>1, <1>2, LoaderInvariance, PTL DEF Spec
=============================================================================
