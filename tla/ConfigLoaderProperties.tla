----------------------- MODULE ConfigLoaderProperties -----------------------
(***************************************************************************)
(* What the configuration that ConfigLoader loads may be relied on for.    *)
(***************************************************************************)
EXTENDS ConfigLoader

Loaded == LoadConfig(disk)

(***************************************************************************)
(* Type correctness.                                                       *)
(***************************************************************************)
LoaderTypeOK ==
    /\ \A f \in File : disk[f] \in Contents[f]
    /\ applied.dbs \in [DB -> File \cup {NoFile}]
    /\ \A k \in DOMAIN applied.queries :
           /\ k[1] \in Name /\ \A i \in 2 .. Len(k) : k[i] \in DB
           /\ applied.queries[k] \in [db : DB, from : File]
    /\ watched \subseteq Dir
    /\ noticed \in BOOLEAN

(***************************************************************************)
(* With no edit left to notice, the exporter runs what the files say: each *)
(* file whose change can matter lies in a watched directory, also one that *)
(* is missing or broken now (config.go:353). A reload that fails leaves    *)
(* the last good configuration in force: with a broken root, or when no    *)
(* file that can be loaded defines the settings' default database.         *)
(***************************************************************************)
QuietMeansApplied ==
    ~noticed /\ Loaded # Failed /\ IsValid(disk, Loaded)
        => applied = Applied(Loaded)

(***************************************************************************)
(* A broken include costs what it defines and nothing else: the rest is    *)
(* loaded as if the file were empty (config.go:390). This is about loading *)
(* only: without what it defines, validation may reject the whole reload.  *)
(***************************************************************************)
Empty == [ok |-> TRUE, dbs |-> {}, queries |-> [q \in Name |-> NoQuery],
          defaultDB |-> NoDB, settingsDB |-> NoDB, includes |-> {},
          entries |-> [k \in Key |-> NoEntry]]

Without(f) == LoadConfig([disk EXCEPT ![f] = Empty])

BrokenIncludeIsContained ==
    \A f \in File \ {root} :
        ~disk[f].ok =>
            /\ (Loaded = Failed) <=> (Without(f) = Failed)
            /\ Loaded # Failed => /\ Loaded.dbs = Without(f).dbs
                                  /\ Loaded.queries = Without(f).queries

(***************************************************************************)
(* A query that names its database runs there once: the file of such a     *)
(* query is never cloned for several databases, directly or through the    *)
(* file that includes it (README.md:379).                                  *)
(***************************************************************************)
SameWork(queries, k, key) == k[1] = key[1] /\ queries[k] = queries[key]

ExplicitDBRunsOnce ==
    Loaded # Failed =>
        \A k, key \in DOMAIN Loaded.queries :
            /\ k # key /\ SameWork(Loaded.queries, k, key)
            => disk[Loaded.queries[k].from].queries[k[1]] = NoDB

-----------------------------------------------------------------------------
(* Default databases                                                       *)

(***************************************************************************)
(* A way from the root to an included file: the file that includes, and    *)
(* the path as it is written there, of each step.                          *)
(***************************************************************************)
Steps(files) == {s \in [from : File, path : Path] : s.path \in files[s.from].includes}

IsChain(chain) ==
    \A i \in DOMAIN chain :
        chain[i].from = IF i = 1 THEN root
                        ELSE FullPath(chain[i - 1].from, chain[i - 1].path)

Chains(files) == {chain \in SeqOf(Steps(files), MaxIncludeDepth) : IsChain(chain)}

End(chain) == IF chain = <<>> THEN root
              ELSE FullPath(Last(chain).from, Last(chain).path)

\* The files on the way that have an entry of their own under a key.
Having(files, chain, key) ==
    {i \in DOMAIN chain : files[chain[i].from].entries[key] # NoEntry}

NearestEntry(files, chain, key) ==
    {d \in DB : \E i \in Having(files, chain, key) :
                   /\ d \in ToSet(files[chain[i].from].entries[key])
                   /\ \A j \in Having(files, chain, key) : j <= i}

IncludeDefaults(files, chain) ==
    LET path == Last(chain).path
    IN  NearestEntry(files, chain, IF Having(files, chain, path) # {}
                                   THEN path ELSE BaseOf[path])

MayRunOn(files, chain, q) ==
    LET c == files[End(chain)]
    IN  CASE c.queries[q] # NoDB                          -> {c.queries[q]}
          [] c.queries[q] = NoDB /\ c.defaultDB # NoDB    -> {c.defaultDB}
          [] OTHER -> IF chain = <<>> THEN {c.settingsDB}
                      ELSE IncludeDefaults(files, chain)

(***************************************************************************)
(* The database of a query is named by the query, else by its file, else   *)
(* by the nearest file on the way to it that has an include_defaults entry *)
(* for the path by which the file was included, or, when no file on the    *)
(* way has one for the path, for its base name (config.go:366). The root's *)
(* settings count for the root's own queries only, and a file off the way  *)
(* has no say.                                                             *)
(***************************************************************************)
DefaultFromNearest ==
    Loaded # Failed =>
        \A k \in DOMAIN Loaded.queries :
            \E chain \in Chains(disk) :
                /\ Loaded.queries[k].from = End(chain)
                /\ Loaded.queries[k].db \in MayRunOn(disk, chain, k[1])

(***************************************************************************)
(* "default_db, inherited from the parent file (if the child file has not  *)
(* set one of its own)" (README.md:273), which config.go:43 says as well:  *)
(* a query that names no database, in an include without a default_db,     *)
(* runs on that of the nearest file on the way to it that has one. The     *)
(* code passes down the include_defaults entry in its place                *)
(* (config.go:388) and never a parent's default_db.                        *)
(***************************************************************************)
SetsDefault(files, chain) ==
    {i \in DOMAIN chain : files[chain[i].from].defaultDB # NoDB}

DefaultIsInherited ==
    Loaded # Failed =>
        \A k \in DOMAIN Loaded.queries :
            LET file == Loaded.queries[k].from IN
            disk[file].queries[k[1]] = NoDB /\ disk[file].defaultDB = NoDB =>
                \E chain \in Chains(disk) :
                    /\ file = End(chain)
                    /\ \A i \in SetsDefault(disk, chain) :
                           (\A j \in SetsDefault(disk, chain) : j <= i) =>
                               Loaded.queries[k].db = disk[chain[i].from].defaultDB

-----------------------------------------------------------------------------
(* Clones                                                                  *)

(***************************************************************************)
(* An include for several databases never makes two workers that run one   *)
(* query on one database and write one metric (README.md:379).             *)
(***************************************************************************)
ClonesDiffer ==
    \A k, key \in DOMAIN applied.queries :
        SameWork(applied.queries, k, key) => k = key

(***************************************************************************)
(* When this can be relied on. A default_db of an included file, or an     *)
(* include of its own, sets the database that its clones then share; and a *)
(* file that is loaded along two ways may be cloned on one of them only.   *)
(***************************************************************************)
PlainIncludes(contents) ==
    /\ \A c \in contents[root] : \A path \in c.includes :
           /\ FullPath(root, path) # root
           /\ \A other \in c.includes :
                  FullPath(root, other) = FullPath(root, path) => other = path
    /\ \A f \in File \ {root} : \A c \in contents[f] :
           c.defaultDB = NoDB /\ c.includes = {}
=============================================================================
