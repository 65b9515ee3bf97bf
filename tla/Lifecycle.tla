------------------------------ MODULE Lifecycle ------------------------------
(***************************************************************************)
(* The process from start to exit: main (src/main.go), the config watcher  *)
(* (src/watcher.go) and the part of reload that reads the files and tells  *)
(* the watcher what to watch (src/app.go). What reload applies is modelled *)
(* in App, how it reads the files in ConfigLoader; here a file is a number *)
(* that each edit raises.                                                  *)
(*                                                                         *)
(* The watcher's select picks any case that is ready. The events that wait *)
(* for it are one flag: reading one or several of them arms the same       *)
(* timer. Since Go 1.23 a stopped timer delivers nothing, so that the      *)
(* timer is armed or not, and may fire at any time while it is.            *)
(***************************************************************************)
EXTENDS Naturals

CONSTANTS
    Dir,         \* directories
    rootDir,     \* the directory of the root file
    includeDir,  \* the directory of the file that the root may include
    Unloadable,  \* versions of the root file that loadConfig rejects
    Invalid,     \* versions that load but do not validate
    Including,   \* versions that include the other file
    MaxEdits,    \* bound: the edits of each file
    NoDirs,      \* no snapshot of directories
    NotRead      \* a file that reload has not read

File == {"root", "include"}

DirOf == [root |-> rootDir, include |-> includeDir]

ASSUME LifecycleAssumption ==
    /\ {rootDir, includeDir} \subseteq Dir
    /\ MaxEdits \in [File -> Nat]
    /\ \A dirs \in SUBSET Dir : NoDirs # dirs
    /\ NotRead \notin Nat

VARIABLES
    disk,           \* the version of each file
    watched,        \* the directories that fsnotify watches
    events,         \* an event of one of them waits to be read
    debounce,       \* the debounce timer is armed (debounceC is not nil)
    watchDirsCh,    \* the snapshot in the channel of capacity 1
    taken,          \* the last snapshot that the watcher has taken from it
    published,      \* the last snapshot that reload has published
    watcherPc,      \* where watchConfig is
    watcherReady,   \* what it has told main of its setup
    watcherDied,    \* the channel that reports its death
    mainPc,         \* where main is
    watchRequired,  \* --watch-required
    watcherUp,      \* app_config_watcher_up
    exitCode,
    listenErr,      \* listenErrCh
    ctxDone,        \* the process context is cancelled
    reloadMu,       \* who is in reload
    reloadPc,       \* and where
    read,           \* the versions that the last reload has read
    missed,         \* history: the files edited since they were read last,
                    \* when their directory was not watched
    configReady     \* a reload has applied a config: /readyz

watchVars == <<watched, events, debounce, taken, watcherPc, watcherReady,
               watcherDied>>
reloadVars == <<watchDirsCh, published, reloadMu, reloadPc, read, missed,
                configReady>>
mainVars == <<mainPc, watcherUp, exitCode, watchRequired>>
lifecycleVars == <<disk, watchVars, reloadVars, mainVars, listenErr, ctxDone>>

LifecycleInit ==
    /\ disk = [f \in File |-> 0]
    /\ watched = {}
    /\ events = FALSE
    /\ debounce = FALSE
    /\ watchDirsCh = NoDirs
    /\ taken = NoDirs
    /\ published = NoDirs
    /\ watcherPc = "setup"
    /\ watcherReady = "unknown"
    /\ watcherDied = FALSE
    /\ mainPc = "starting"
    /\ watchRequired \in BOOLEAN
    /\ watcherUp = "unset"
    /\ exitCode = 0
    /\ listenErr = FALSE
    /\ ctxDone = FALSE
    /\ reloadMu = "free"
    /\ reloadPc = "idle"
    /\ read = [f \in File |-> NotRead]
    /\ missed = {}
    /\ configReady = FALSE

-----------------------------------------------------------------------------
(* The environment                                                         *)

(***************************************************************************)
(* Nobody reads a file any more once main is in its teardown.              *)
(***************************************************************************)
Edit(f) ==
    /\ disk[f] < MaxEdits[f] /\ mainPc \notin {"teardown", "stopped"}
    /\ disk' = [disk EXCEPT ![f] = @ + 1]
    /\ events' = (events \/ DirOf[f] \in watched)
    /\ missed' = IF DirOf[f] \in watched THEN missed ELSE missed \cup {f}
    /\ UNCHANGED <<watched, debounce, taken, watcherPc, watcherReady,
                   watcherDied, watchDirsCh, published, reloadMu, reloadPc,
                   read, configReady, mainVars, listenErr, ctxDone>>

Signal ==
    /\ ~ctxDone /\ mainPc # "stopped"
    /\ ctxDone' = TRUE
    /\ UNCHANGED <<disk, watchVars, reloadVars, mainVars, listenErr>>

ListenFails ==
    /\ ~listenErr /\ mainPc # "stopped"
    /\ listenErr' = TRUE
    /\ UNCHANGED <<disk, watchVars, reloadVars, mainVars, ctxDone>>

-----------------------------------------------------------------------------
(* watchConfig                                                             *)

SetupFails ==
    /\ watcherPc = "setup"
    /\ watcherPc' = "exited"
    /\ watcherReady' = "error"
    /\ UNCHANGED <<disk, watched, events, debounce, taken, watcherDied,
                   reloadVars, mainVars, listenErr, ctxDone>>

SetupSucceeds ==
    /\ watcherPc = "setup"
    /\ watched' = {rootDir}
    /\ watcherPc' = "select"
    /\ watcherReady' = "ok"
    /\ UNCHANGED <<disk, events, debounce, taken, watcherDied,
                   reloadVars, mainVars, listenErr, ctxDone>>

WatcherExit ==
    /\ watcherPc = "select" /\ ctxDone
    /\ watcherPc' = "exited"
    /\ debounce' = FALSE
    /\ UNCHANGED <<disk, watched, events, taken, watcherReady, watcherDied,
                   reloadVars, mainVars, listenErr, ctxDone>>

(***************************************************************************)
(* addDir for each directory of a snapshot; one that cannot be watched is  *)
(* logged and tried again with the next snapshot.                          *)
(***************************************************************************)
TakeDirs ==
    /\ watcherPc = "select" /\ watchDirsCh # NoDirs
    /\ \E ok \in SUBSET watchDirsCh : watched' = watched \cup ok
    /\ taken' = watchDirsCh
    /\ watchDirsCh' = NoDirs
    /\ UNCHANGED <<disk, events, debounce, watcherPc, watcherReady,
                   watcherDied, published, reloadMu, reloadPc, read, missed,
                   configReady, mainVars, listenErr, ctxDone>>

(***************************************************************************)
(* triggerReload: the timer starts, or starts anew.                        *)
(***************************************************************************)
TakeEvent ==
    /\ watcherPc = "select" /\ events
    /\ events' = FALSE
    /\ debounce' = TRUE
    /\ UNCHANGED <<disk, watched, taken, watcherPc, watcherReady, watcherDied,
                   reloadVars, mainVars, listenErr, ctxDone>>

DebounceFires ==
    /\ watcherPc = "select" /\ debounce
    /\ debounce' = FALSE
    /\ watcherPc' = IF ctxDone THEN "select" ELSE "reload"
    /\ UNCHANGED <<disk, watched, events, taken, watcherReady, watcherDied,
                   reloadVars, mainVars, listenErr, ctxDone>>

\* Fault: nobody is told.
WatcherDiesSilently ==
    /\ watcherPc = "select"
    /\ watcherPc' = "died"
    /\ UNCHANGED <<disk, watched, events, debounce, taken, watcherReady,
                   watcherDied, reloadVars, mainVars, listenErr, ctxDone>>

(***************************************************************************)
(* fsnotify closed its channels.                                           *)
(***************************************************************************)
WatcherDies ==
    /\ watcherPc = "select"
    /\ watcherPc' = "died"
    /\ watcherDied' = TRUE
    /\ UNCHANGED <<disk, watched, events, debounce, taken, watcherReady,
                   reloadVars, mainVars, listenErr, ctxDone>>

-----------------------------------------------------------------------------
(* reload, called by main and by the watcher                               *)

Calls(who) ==
    \/ who = "main" /\ mainPc = "reload"
    \/ who = "watcher" /\ watcherPc = "reload"

ReloadBegin(who) ==
    /\ Calls(who) /\ reloadMu = "free"
    /\ reloadMu' = who
    /\ reloadPc' = "reading"
    /\ UNCHANGED <<disk, watchVars, mainVars, listenErr, ctxDone,
                   watchDirsCh, published, read, missed, configReady>>

ReadRoot ==
    /\ reloadPc = "reading"
    /\ read' = [root |-> disk["root"], include |-> NotRead]
    /\ missed' = missed \ {"root"}
    /\ reloadPc' = CASE disk["root"] \in Unloadable -> "leaving"
                     [] disk["root"] \in Including  -> "including"
                     [] OTHER                       -> "draining"
    /\ UNCHANGED <<disk, watchVars, mainVars, listenErr, ctxDone,
                   watchDirsCh, published, reloadMu, configReady>>

ReadInclude ==
    /\ reloadPc = "including"
    /\ read' = [read EXCEPT !.include = disk["include"]]
    /\ missed' = missed \ {"include"}
    /\ reloadPc' = "draining"
    /\ UNCHANGED <<disk, watchVars, mainVars, listenErr, ctxDone,
                   watchDirsCh, published, reloadMu, configReady>>

\* Fault: the snapshot that is still in the channel is left there.
DrainNothing ==
    /\ reloadPc = "draining"
    /\ reloadPc' = "publishing"
    /\ UNCHANGED <<disk, watchVars, mainVars, listenErr, ctxDone, watchDirsCh,
                   published, reloadMu, read, missed, configReady>>

(***************************************************************************)
(* publishWatchDirs: its first select, which empties the channel, and its  *)
(* second, which gives up on a full one.                                   *)
(***************************************************************************)
DrainWatchDirs ==
    /\ reloadPc = "draining"
    /\ watchDirsCh' = NoDirs
    /\ reloadPc' = "publishing"
    /\ UNCHANGED <<disk, watchVars, mainVars, listenErr, ctxDone,
                   published, reloadMu, read, missed, configReady>>

Snapshot == {DirOf[f] : f \in {x \in File : read[x] # NotRead}}

\* Fault: reload waits until the watcher, which may be its caller, takes it.
PublishAndWait ==
    /\ reloadPc = "publishing" /\ watcherPc = "select"
    /\ published' = Snapshot
    /\ watchDirsCh' = Snapshot
    /\ reloadPc' = "applying"
    /\ UNCHANGED <<disk, watchVars, mainVars, listenErr, ctxDone,
                   reloadMu, read, missed, configReady>>

PublishWatchDirs ==
    /\ reloadPc = "publishing"
    /\ published' = Snapshot
    /\ watchDirsCh' = IF watchDirsCh = NoDirs THEN Snapshot ELSE watchDirsCh
    /\ reloadPc' = "applying"
    /\ UNCHANGED <<disk, watchVars, mainVars, listenErr, ctxDone,
                   reloadMu, read, missed, configReady>>

ReloadApply ==
    /\ reloadPc = "applying"
    /\ configReady' = (configReady \/ read.root \notin Invalid)
    /\ reloadPc' = "leaving"
    /\ UNCHANGED <<disk, watchVars, mainVars, listenErr, ctxDone,
                   watchDirsCh, published, reloadMu, read, missed>>

ReloadEnd ==
    /\ reloadPc = "leaving"
    /\ reloadPc' = "idle"
    /\ reloadMu' = "free"
    /\ mainPc' = IF reloadMu = "main" THEN "waiting" ELSE mainPc
    /\ watcherPc' = IF reloadMu = "watcher" THEN "select" ELSE watcherPc
    /\ UNCHANGED <<disk, watched, events, debounce, taken, watcherReady,
                   watcherDied, watcherUp, exitCode, watchRequired, listenErr,
                   ctxDone, watchDirsCh, published, read, missed, configReady>>

ReloadStep ==
    \/ ReadRoot
    \/ ReadInclude
    \/ DrainWatchDirs
    \/ PublishWatchDirs
    \/ ReloadApply
    \/ ReloadEnd

-----------------------------------------------------------------------------
(* main                                                                    *)

\* Fault: the first reload does not wait for the watch.
StartAtOnce ==
    /\ mainPc = "starting"
    /\ mainPc' = "reload"
    /\ watcherUp' = "up"
    /\ UNCHANGED <<disk, watchVars, reloadVars, exitCode, watchRequired,
                   listenErr, ctxDone>>

WatchIsUp ==
    /\ mainPc = "starting" /\ watcherReady = "ok"
    /\ watcherUp' = "up"
    /\ mainPc' = "reload"
    /\ UNCHANGED <<disk, watchVars, reloadVars, exitCode, watchRequired,
                   listenErr, ctxDone>>

(***************************************************************************)
(* The end of the process by main's own decision.                          *)
(***************************************************************************)
GiveUp ==
    /\ ctxDone' = TRUE
    /\ exitCode' = 1
    /\ mainPc' = "teardown"

WatchIsDown ==
    /\ mainPc = "starting" /\ watcherReady = "error"
    /\ watcherUp' = "down"
    /\ IF watchRequired THEN GiveUp
       ELSE mainPc' = "reload" /\ UNCHANGED <<ctxDone, exitCode>>
    /\ UNCHANGED <<disk, watchVars, reloadVars, watchRequired, listenErr>>

SeesSignal ==
    /\ mainPc = "waiting" /\ ctxDone
    /\ mainPc' = "teardown"
    /\ UNCHANGED <<disk, watchVars, reloadVars, watcherUp, exitCode,
                   watchRequired, listenErr, ctxDone>>

SeesListenErr ==
    /\ mainPc = "waiting" /\ listenErr
    /\ GiveUp
    /\ UNCHANGED <<disk, watchVars, reloadVars, watcherUp, watchRequired,
                   listenErr>>

\* Fault: a watch that is required may die later on.
SeesWatcherDiedAndStays ==
    /\ mainPc = "waiting" /\ watcherDied
    /\ watcherDied' = FALSE
    /\ watcherUp' = "down"
    /\ UNCHANGED <<disk, watched, events, debounce, taken, watcherPc,
                   watcherReady, reloadVars, mainPc, exitCode, watchRequired,
                   listenErr, ctxDone>>

SeesWatcherDied ==
    /\ mainPc = "waiting" /\ watcherDied
    /\ watcherDied' = FALSE
    /\ watcherUp' = "down"
    /\ IF watchRequired THEN GiveUp ELSE UNCHANGED <<ctxDone, exitCode, mainPc>>
    /\ UNCHANGED <<disk, watched, events, debounce, taken, watcherPc,
                   watcherReady, reloadVars, watchRequired, listenErr>>

\* Fault: the watcher is not in bgWG.
TeardownAtOnce ==
    /\ mainPc = "teardown"
    /\ mainPc' = "stopped"
    /\ UNCHANGED <<disk, watchVars, reloadVars, watcherUp, exitCode,
                   watchRequired, listenErr, ctxDone>>

(***************************************************************************)
(* bgWG.Wait returned; workers, pools and the HTTP server follow.          *)
(***************************************************************************)
Teardown ==
    /\ mainPc = "teardown" /\ watcherPc \in {"exited", "died"}
    /\ mainPc' = "stopped"
    /\ UNCHANGED <<disk, watchVars, reloadVars, watcherUp, exitCode,
                   watchRequired, listenErr, ctxDone>>

MainStep ==
    \/ WatchIsUp
    \/ WatchIsDown
    \/ SeesSignal
    \/ SeesListenErr
    \/ SeesWatcherDied
    \/ Teardown

WatcherStep ==
    \/ WatcherExit
    \/ TakeDirs
    \/ TakeEvent
    \/ DebounceFires
    \/ WatcherDies

Next ==
    \/ \E f \in File : Edit(f)
    \/ Signal
    \/ ListenFails
    \/ SetupFails
    \/ SetupSucceeds
    \/ WatcherStep
    \/ \E who \in {"main", "watcher"} : ReloadBegin(who)
    \/ ReloadStep
    \/ MainStep

Spec == LifecycleInit /\ [][Next]_lifecycleVars

(***************************************************************************)
(* The goroutines run on; a mutex does not starve a waiter and select does *)
(* not starve a case that stays ready or comes back (strong fairness). The *)
(* debounce timer fires once the edits end. Nothing is assumed of the      *)
(* environment: no edit, signal or fault has to come.                      *)
(***************************************************************************)
Fairness ==
    /\ WF_lifecycleVars(SetupFails \/ SetupSucceeds)
    /\ SF_lifecycleVars(WatcherExit)
    /\ SF_lifecycleVars(TakeDirs)
    /\ SF_lifecycleVars(TakeEvent)
    /\ SF_lifecycleVars(DebounceFires)
    /\ \A who \in {"main", "watcher"} : SF_lifecycleVars(ReloadBegin(who))
    /\ WF_lifecycleVars(ReloadStep)
    /\ WF_lifecycleVars(MainStep)

FairSpec == Spec /\ Fairness
=============================================================================
