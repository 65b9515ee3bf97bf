------------------------ MODULE LifecycleProperties ------------------------
(***************************************************************************)
(* What main, the watcher and reload together promise, about module        *)
(* Lifecycle.                                                              *)
(***************************************************************************)
EXTENDS Lifecycle

Snapshots == (SUBSET Dir) \cup {NoDirs}

\* Versions, and what reload knows of them.
FilesTypeOK ==
    /\ disk \in [File -> Nat]
    /\ \A f \in File : disk[f] <= MaxEdits[f]
    /\ read \in [File -> Nat \cup {NotRead}]
    /\ missed \subseteq File

(***************************************************************************)
(* Type correctness.                                                       *)
(***************************************************************************)
LifecycleTypeOK ==
    /\ FilesTypeOK
    /\ watched \subseteq Dir
    /\ events \in BOOLEAN /\ debounce \in BOOLEAN /\ watcherDied \in BOOLEAN
    /\ listenErr \in BOOLEAN /\ ctxDone \in BOOLEAN
    /\ watchRequired \in BOOLEAN /\ configReady \in BOOLEAN
    /\ {watchDirsCh, taken, published} \subseteq Snapshots
    /\ watcherPc \in {"setup", "select", "reload", "exited", "died"}
    /\ watcherReady \in {"unknown", "ok", "error"}
    /\ mainPc \in {"starting", "reload", "waiting", "teardown", "stopped"}
    /\ watcherUp \in {"unset", "up", "down"}
    /\ exitCode \in {0, 1}
    /\ reloadMu \in {"free", "main", "watcher"}
    /\ reloadPc \in {"idle", "reading", "including", "draining", "publishing",
                     "applying", "leaving"}

(***************************************************************************)
(* The watcher has nothing to read, no timer runs, no reload is under way. *)
(***************************************************************************)
Quiet ==
    /\ mainPc = "waiting" /\ watcherPc = "select" /\ ~ctxDone
    /\ ~events /\ ~debounce /\ watchDirsCh = NoDirs
    /\ reloadMu = "free"

(***************************************************************************)
(* No edit under watch is lost: once it is quiet, the last reload has read *)
(* the root file as it is, and whatever include it has read otherwise was  *)
(* edited while nobody watched its directory. The watch is set up before   *)
(* the first reload for this (main.go:94); the directory of an include is  *)
(* watched only after a reload has read it, if it can be, and the edits of *)
(* that time are the ones that may be lost.                                *)
(***************************************************************************)
QuietMeansCurrent ==
    Quiet => /\ read["root"] = disk["root"]
             /\ \A f \in File : read[f] \in {NotRead, disk[f]} \/ f \in missed

(***************************************************************************)
(* The last snapshot gets through: when the channel is empty and nobody    *)
(* publishes, the watcher has taken what was published last, whatever the  *)
(* two selects of publishWatchDirs dropped on the way (app.go:88).         *)
(***************************************************************************)
LastSnapshotArrives ==
    watchDirsCh = NoDirs /\ reloadPc # "publishing" => taken = published

(***************************************************************************)
(* After bgWG.Wait no reload runs or starts: workers and pools are closed  *)
(* for good (watcher.go:15).                                               *)
(***************************************************************************)
NoReloadAfterTeardown ==
    [][mainPc = "stopped" => reloadMu = "free" /\ reloadMu' = "free"]_lifecycleVars

-----------------------------------------------------------------------------
(* Progress, under FairSpec                                                *)

WatcherLives == watcherPc \in {"select", "reload"}

(***************************************************************************)
(* An edit of the root file is loaded in the end, unless the process stops *)
(* or the watcher dies first.                                              *)
(***************************************************************************)
EditsAreLoaded ==
    WatcherLives /\ mainPc = "waiting" /\ read["root"] # disk["root"]
        ~> read["root"] = disk["root"] \/ ctxDone \/ ~WatcherLives

(***************************************************************************)
(* The death of the watcher does not go unnoticed (main.go:145), also when *)
(* main is still in its first reload.                                      *)
(***************************************************************************)
DeathIsReported == watcherPc = "died" ~> watcherUp = "down" \/ ctxDone

(***************************************************************************)
(* A process that requires its watch does not outlive it.                  *)
(***************************************************************************)
RequiredOrStopped ==
    watchRequired /\ (watcherReady = "error" \/ watcherPc = "died")
        ~> mainPc = "stopped"

-----------------------------------------------------------------------------
(* What the repository says and the code does not do                       *)

(***************************************************************************)
(* "Otherwise reload would leave a window in which the ConfigMap could     *)
(* change unnoticed" (main.go:96): for an include in a directory of its    *)
(* own, the window between its first reading and watcher.Add is there.     *)
(***************************************************************************)
NoUnnoticedWindow ==
    Quiet => \A f \in File : read[f] # NotRead => read[f] = disk[f]
=============================================================================
