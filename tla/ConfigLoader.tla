---------------------------- MODULE ConfigLoader ----------------------------
(***************************************************************************)
(* loadConfig (src/config.go): the root file, its includes and theirs, as  *)
(* one configuration; and the files on disk, whose edits the watcher       *)
(* notices in the directories that the last load depended on. A reload is  *)
(* one step here; its races with edits are the subject of Lifecycle.       *)
(*                                                                         *)
(* The text of a query or of a database definition is told apart only by   *)
(* the file it comes from. The key of a query is the sequence of its name  *)
(* and of the databases it was cloned for ("name__db1__db2"). An include is*)
(* named by a path relative to the directory of the file that includes it: *)
(* one path may mean different files in different directories.             *)
(***************************************************************************)
EXTENDS Naturals, Sequences, SequencesExt

CONSTANTS
    DB, Name,         \* names of databases and of queries
    File,             \* config files, each by its absolute path
    root,             \* --config
    Dir, DirOf,       \* directories, and the directory of each file
    Outside,          \* files that lie outside of the root's directory
    Path, PathOrder,  \* paths of includes as written, and their sorted order
    Join,             \* the file that a path means in a directory
    Base, BaseOf,     \* base names, and the base name of each path
    Contents,         \* bound: what each file may contain
    MaxIncludeDepth,  \* maxIncludeDepth
    NoDB,             \* the empty database name
    NoQuery,          \* a query that is not in its map
    NoFile,           \* the file of a database that is nowhere defined
    NoEntry           \* a file without an entry in include_defaults

\* The keys of include_defaults. A path without a directory is its base name.
Key == Path \cup Base

\* The file that f includes by the path p.
FullPath(f, p) == Join[DirOf[f]][p]

(***************************************************************************)
(* A parsed file. ok is FALSE for one that is missing or no valid YAML.    *)
(* queries gives the explicit db of each query, NoDB if it has none;       *)
(* includes are those set to true; settingsDB is settings.default_db.      *)
(***************************************************************************)
Content == [ok         : BOOLEAN,
            dbs        : SUBSET DB,
            queries    : [Name -> DB \cup {NoDB, NoQuery}],
            defaultDB  : DB \cup {NoDB},
            settingsDB : DB \cup {NoDB},
            includes   : SUBSET Path,
            entries    : [Key -> Seq(DB) \cup {NoEntry}]]

ASSUME LoaderAssumption ==
    /\ root \in File /\ Outside \subseteq File
    /\ DirOf \in [File -> Dir] /\ Join \in [Dir -> [Path -> File]]
    /\ PathOrder \in Seq(Path) /\ ToSet(PathOrder) = Path
    /\ BaseOf \in [Path -> Base]
    /\ \A f \in File : Contents[f] \subseteq Content
    /\ MaxIncludeDepth \in Nat
    /\ NoDB \notin DB /\ NoQuery \notin DB \cup {NoDB}
    /\ NoFile \notin File /\ NoEntry \notin Seq(DB)

-----------------------------------------------------------------------------
(* One file                                                                *)

QueriesOf(c) == {q \in Name : c.queries[q] # NoQuery}

(***************************************************************************)
(* The database of the queries that name none: settings counts in the root *)
(* only.                                                                   *)
(***************************************************************************)
EffectiveDefaultDB(c, isRoot, parentDefaultDB) ==
    CASE c.defaultDB # NoDB            -> c.defaultDB
      [] c.defaultDB = NoDB /\ isRoot  -> c.settingsDB
      [] OTHER                         -> parentDefaultDB

\* Fault: the entries of the files above win over the file's own.
MergeIncludeDefaultsBelow(base, override) ==
    [k \in Key |-> IF base[k] # NoEntry THEN base[k] ELSE override[k]]

MergeIncludeDefaults(base, override) ==
    [k \in Key |-> IF override[k] # NoEntry THEN override[k] ELSE base[k]]

\* The path as it is written first, then its base name.
EntryOf(entries, p) ==
    IF entries[p] # NoEntry THEN entries[p] ELSE entries[BaseOf[p]]

\* Fault: only the queries of the multi-DB file itself are held to the rule.
CallsForOneLevel(f, p, c, entries, reject) ==
    LET dbs == EntryOf(entries, p)
    IN  IF p \notin c.includes \/ dbs = NoEntry THEN <<>>
        ELSE [i \in DOMAIN dbs |->
                 [file |-> FullPath(f, p), db |-> dbs[i], entries |-> entries,
                  suffix |-> Len(dbs) > 1, reject |-> Len(dbs) > 1]]

(***************************************************************************)
(* The loads that one include of f amounts to: one for each database of    *)
(* its entry, none without an entry.                                       *)
(***************************************************************************)
CallsFor(f, p, c, entries, reject) ==
    LET dbs == EntryOf(entries, p)
    IN  IF p \notin c.includes \/ dbs = NoEntry THEN <<>>
        ELSE [i \in DOMAIN dbs |->
                 [file |-> FullPath(f, p), db |-> dbs[i], entries |-> entries,
                  suffix |-> Len(dbs) > 1,
                  reject |-> reject \/ Len(dbs) > 1]]

\* Those of the first includes, by the number of paths that were looked at.
CallsUpTo(f, c, entries, reject) ==
    LET upTo[i \in 0 .. Len(PathOrder)] ==
            IF i = 0 THEN <<>>
            ELSE upTo[i - 1] \o CallsFor(f, PathOrder[i], c, entries, reject)
    IN  upTo

IncludeCalls(f, c, entries, reject) ==
    CallsUpTo(f, c, entries, reject)[Len(PathOrder)]

(***************************************************************************)
(* Whether a file is an error, whatever its includes are: over the depth   *)
(* limit, unreadable, with an explicit db where several databases share    *)
(* the file, or with an include outside of the root's directory.           *)
(***************************************************************************)
FileFails(f, c, left, reject) ==
    \/ left = 0
    \/ ~c.ok
    \/ reject /\ \E q \in QueriesOf(c) : c.queries[q] # NoDB
    \/ \E p \in c.includes : FullPath(f, p) \in Outside

\* Fault: an include becomes a dependency only once it is loaded.
OwnDependenciesOnly(call, c) == {call.file}

(***************************************************************************)
(* The dependencies that a file adds itself: each enabled include, before  *)
(* anything is known of it.                                                *)
(***************************************************************************)
Dependencies(call, c) ==
    {call.file} \cup {FullPath(call.file, p) : p \in c.includes}

OwnPart(call, c, effectiveDefaultDB) ==
    [dbs |-> [d \in DB |-> IF d \in c.dbs THEN call.file ELSE NoFile],
     queries |-> [k \in {<<q>> : q \in QueriesOf(c)} |->
                     [db |-> IF c.queries[k[1]] = NoDB
                             THEN effectiveDefaultDB ELSE c.queries[k[1]],
                      from |-> call.file]],
     failed |-> {},
     dependencies |-> Dependencies(call, c)]

-----------------------------------------------------------------------------
(* Includes                                                                *)

\* What loadConfigWithContext returns with an error.
Failed == [error |-> TRUE]

\* Fault: the database comes first in the key.
CloneQueriesPrefixed(inc, db) ==
    [inc EXCEPT !.queries =
        [k \in {<<db>> \o key : key \in DOMAIN inc.queries} |->
            inc.queries[Tail(k)]]]

CloneQueriesForDB(inc, db) ==
    [inc EXCEPT !.queries =
        [k \in {Append(key, db) : key \in DOMAIN inc.queries} |->
            inc.queries[Front(k)]]]

(***************************************************************************)
(* What an include defines wins over what was there.                       *)
(***************************************************************************)
MergeConfig(cfg, inc) ==
    [dbs |-> [d \in DB |-> IF inc.dbs[d] # NoFile THEN inc.dbs[d]
                                                  ELSE cfg.dbs[d]],
     queries |-> [k \in DOMAIN cfg.queries \cup DOMAIN inc.queries |->
                     IF k \in DOMAIN inc.queries THEN inc.queries[k]
                                                 ELSE cfg.queries[k]],
     failed |-> cfg.failed \cup inc.failed,
     dependencies |-> cfg.dependencies \cup inc.dependencies]

\* Fault: an include that fails takes the file that includes it along.
AddIncludeOrFail(cfg, call, inc) ==
    IF cfg = Failed \/ inc = Failed THEN Failed
    ELSE MergeConfig(cfg, IF call.suffix THEN CloneQueriesForDB(inc, call.db)
                                         ELSE inc)

(***************************************************************************)
(* An include that fails is missing from the result, and nothing else is.  *)
(***************************************************************************)
AddInclude(cfg, call, inc) ==
    IF inc = Failed
    THEN [cfg EXCEPT !.failed = @ \cup {<<call.file, call.db>>}]
    ELSE MergeConfig(cfg, IF call.suffix THEN CloneQueriesForDB(inc, call.db)
                                         ELSE inc)

Call == [file : File, db : DB \cup {NoDB}, entries : [Key -> Seq(DB) \cup {NoEntry}],
         suffix : BOOLEAN, reject : BOOLEAN]

RootCall == [file |-> root, db |-> NoDB, entries |-> [k \in Key |-> NoEntry],
             suffix |-> FALSE, reject |-> FALSE]

(***************************************************************************)
(* A configuration after each of the includes; loaded says what becomes of *)
(* a call.                                                                 *)
(***************************************************************************)
MergedUpTo(own, calls, loaded) ==
    LET upTo[i \in 0 .. Len(calls)] ==
            IF i = 0 THEN own
            ELSE AddInclude(upTo[i - 1], calls[i], loaded[calls[i]])
    IN  upTo

\* loadConfigWithContext, given what it returns one level further down.
LoadFile(files, left, call, loaded) ==
    LET c == files[call.file]
        isRoot == left = MaxIncludeDepth + 1
        entries == MergeIncludeDefaults(call.entries, c.entries)
        calls == IncludeCalls(call.file, c, entries, call.reject)
        own == OwnPart(call, c, EffectiveDefaultDB(c, isRoot, call.db))
    IN  IF FileFails(call.file, c, left, call.reject) THEN Failed
        ELSE MergedUpTo(own, calls, loaded)[Len(calls)]

(***************************************************************************)
(* loadConfigWithContext, by the number of levels that are left to it.     *)
(***************************************************************************)
Load(files) ==
    LET load[left \in 0 .. MaxIncludeDepth + 1] ==
            [call \in Call |-> LoadFile(files, left, call, load[left - 1])]
    IN  load

LoadConfig(files) == Load(files)[MaxIncludeDepth + 1][RootCall]

-----------------------------------------------------------------------------
(* What reload makes of it                                                 *)

Defined(cfg) == {d \in DB : cfg.dbs[d] # NoFile}

(***************************************************************************)
(* validateDatabasesAndSettings: an undefined default database rejects the *)
(* whole configuration.                                                    *)
(***************************************************************************)
IsValid(files, cfg) ==
    files[root].settingsDB = NoDB \/ files[root].settingsDB \in Defined(cfg)

(***************************************************************************)
(* sanitizeQueries drops the queries whose database is not defined.        *)
(***************************************************************************)
SanitizeQueries(cfg) ==
    [k \in {key \in DOMAIN cfg.queries :
               cfg.queries[key].db \in Defined(cfg)} |-> cfg.queries[k]]

Applied(cfg) == [dbs |-> cfg.dbs, queries |-> SanitizeQueries(cfg)]

Dirs(cfg) == {DirOf[f] : f \in cfg.dependencies}

-----------------------------------------------------------------------------
VARIABLES
    disk,     \* the contents of the files
    applied,  \* what the last reload that went through has applied
    watched,  \* the directories that the watcher looks at
    noticed   \* something in them changed since the last reload

loaderVars == <<disk, applied, watched, noticed>>

Nothing == [dbs |-> [d \in DB |-> NoFile], queries |-> <<>>]

LoaderInit ==
    /\ disk \in {files \in [File -> UNION {Contents[f] : f \in File}] :
                    \A f \in File : files[f] \in Contents[f]}
    /\ applied = Nothing
    /\ watched = {DirOf[root]}
    /\ noticed = TRUE

Edit(f, c) ==
    /\ disk[f] # c
    /\ disk' = [disk EXCEPT ![f] = c]
    /\ noticed' = (noticed \/ DirOf[f] \in watched)
    /\ UNCHANGED <<applied, watched>>

(***************************************************************************)
(* The watched directories are published before the configuration is       *)
(* validated, and the watcher never drops one.                             *)
(***************************************************************************)
Reload ==
    LET cfg == LoadConfig(disk) IN
    /\ noticed
    /\ noticed' = FALSE
    /\ IF cfg = Failed
       THEN UNCHANGED <<applied, watched>>
       ELSE /\ watched' = watched \cup Dirs(cfg)
            /\ applied' = IF IsValid(disk, cfg) THEN Applied(cfg) ELSE applied
    /\ UNCHANGED disk

Next ==
    \/ \E f \in File : \E c \in Contents[f] : Edit(f, c)
    \/ Reload

Spec == LoaderInit /\ [][Next]_loaderVars
=============================================================================
