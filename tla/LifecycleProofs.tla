--------------------------- MODULE LifecycleProofs ---------------------------
(***************************************************************************)
(* The safety of main, the watcher and reload, for any directories, any    *)
(* number of edits and any versions of the root file: no edit under watch  *)
(* is lost, the last snapshot of directories gets through, and no reload   *)
(* survives the teardown.                                                  *)
(***************************************************************************)
EXTENDS LifecycleProperties, TLAPS

-----------------------------------------------------------------------------
(* The inductive invariant                                                 *)

(***************************************************************************)
(* reloadMu is held exactly while reload runs, by a caller that is in it;  *)
(* main stops only after the watcher.                                      *)
(***************************************************************************)
ReloadHasACaller ==
    /\ reloadMu = "free" <=> reloadPc = "idle"
    /\ reloadMu = "main" => mainPc = "reload"
    /\ reloadMu = "watcher" => watcherPc = "reload"
    /\ mainPc = "stopped" => watcherPc \in {"exited", "died"}

(***************************************************************************)
(* Only reload, under reloadMu, fills the channel: what is in it is what   *)
(* was published last, and after the first select it is empty.             *)
(***************************************************************************)
ChannelHoldsTheLast ==
    /\ reloadPc = "publishing" => watchDirsCh = NoDirs
    /\ watchDirsCh # NoDirs => watchDirsCh = published

(***************************************************************************)
(* main does not reload before it knows whether the watch is up.           *)
(***************************************************************************)
WatchBeforeReload ==
    /\ watcherReady = "unknown" <=> watcherPc = "setup"
    /\ watcherReady = "error" => watcherPc = "exited"
    /\ watcherReady = "ok" => rootDir \in watched
    /\ mainPc # "starting" => watcherReady # "unknown"

\* A reload that reads the files anew is coming, or will never come.
Coming ==
    \/ events \/ debounce
    \/ watcherPc = "reload" /\ reloadMu # "watcher"
    \/ reloadPc = "reading"
    \/ ctxDone \/ watcherPc \in {"exited", "died"}

\* The root file is watched since before it was read first.
RootIsSafe ==
    \/ read["root"] # NotRead /\ "root" \notin missed
    \/ watcherReady = "error"

(***************************************************************************)
(* A file is as it was read, or was edited out of watch, or a reload is    *)
(* coming; the root file is never edited out of watch from the first       *)
(* reload on.                                                              *)
(***************************************************************************)
NothingIsForgotten ==
    /\ \A f \in File :
           read[f] \in {NotRead, disk[f]} \/ f \in missed \/ Coming
    /\ mainPc = "waiting" => RootIsSafe
    /\ reloadPc \notin {"idle", "reading"} => RootIsSafe

LifecycleInv ==
    /\ LifecycleTypeOK
    /\ ReloadHasACaller
    /\ ChannelHoldsTheLast /\ LastSnapshotArrives
    /\ WatchBeforeReload /\ NothingIsForgotten

USE LifecycleAssumption
    DEF File, DirOf, watchVars, reloadVars, mainVars, lifecycleVars

\* What reload publishes is a set of directories, and never the empty channel.
LEMMA SnapshotIsOne ==
    ASSUME LifecycleTypeOK
    PROVE  Snapshot \in Snapshots /\ Snapshot # NoDirs
<1>1. \A f \in File : DirOf[f] \in Dir
  OBVIOUS
<1> QED
  BY <1>1 DEF Snapshot, Snapshots

-----------------------------------------------------------------------------
(* LifecycleInv holds at the start and is kept by every step               *)

LEMMA InitLifecycleInv == LifecycleInit => LifecycleInv
<1> SUFFICES ASSUME LifecycleInit PROVE LifecycleInv
  OBVIOUS
<1> USE DEF LifecycleInit
<1>1. LifecycleTypeOK
  <2>1. FilesTypeOK
    BY DEF FilesTypeOK
  <2> QED
    BY <2>1 DEF LifecycleTypeOK, Snapshots
<1>2. ReloadHasACaller /\ ChannelHoldsTheLast /\ LastSnapshotArrives
  BY DEF ReloadHasACaller, ChannelHoldsTheLast, LastSnapshotArrives
<1>3. WatchBeforeReload /\ NothingIsForgotten
  BY DEF WatchBeforeReload, NothingIsForgotten
<1> QED
  BY <1>1, <1>2, <1>3 DEF LifecycleInv

LEMMA TypeIsKept ==
    ASSUME LifecycleTypeOK, [Next]_lifecycleVars
    PROVE  LifecycleTypeOK'
<1>1. FilesTypeOK'
  <2>1. ASSUME NEW f \in File, Edit(f) PROVE FilesTypeOK'
    <3>1. /\ disk' = [disk EXCEPT ![f] = @ + 1] /\ disk[f] < MaxEdits[f]
          /\ missed' \subseteq missed \cup {f} /\ UNCHANGED read
      BY <2>1 DEF Edit
    <3> QED
      BY <3>1 DEF LifecycleTypeOK, FilesTypeOK
  <2>2. CASE ReadRoot
    BY <2>2 DEF ReadRoot, LifecycleTypeOK, FilesTypeOK
  <2>3. CASE ReadInclude
    BY <2>3 DEF ReadInclude, LifecycleTypeOK, FilesTypeOK
  <2>4. CASE UNCHANGED <<disk, read, missed>>
    BY <2>4 DEF LifecycleTypeOK, FilesTypeOK
  <2>5. \/ UNCHANGED <<disk, read, missed>> \/ ReadRoot \/ ReadInclude
        \/ \E f \in File : Edit(f)
    BY DEF Next, Signal, ListenFails, SetupFails, SetupSucceeds, WatcherStep,
           WatcherExit, TakeDirs, TakeEvent, DebounceFires, WatcherDies,
           ReloadBegin, ReloadStep, DrainWatchDirs, PublishWatchDirs,
           ReloadApply, ReloadEnd, MainStep, WatchIsUp, WatchIsDown,
           SeesSignal, SeesListenErr, SeesWatcherDied, Teardown
  <2> QED
    BY <2>1, <2>2, <2>3, <2>4, <2>5
<1> NoDirs \in Snapshots
  BY DEF Snapshots
<1> HIDE LifecycleAssumption
<1> USE <1>1 DEF LifecycleTypeOK
<1>2. CASE \E f \in File : Edit(f)
  BY <1>2 DEF Edit
<1>3. CASE Signal \/ ListenFails \/ UNCHANGED lifecycleVars
  <2>1. CASE Signal
    BY <2>1 DEF Signal
  <2>2. CASE ListenFails
    BY <2>2 DEF ListenFails
  <2>3. CASE UNCHANGED lifecycleVars
    BY <2>3
  <2> QED
    BY <1>3, <2>1, <2>2, <2>3
<1>4. CASE SetupFails \/ SetupSucceeds
  BY <1>4, LifecycleAssumption DEF SetupFails, SetupSucceeds
<1>5. CASE WatcherStep
  <2>1. CASE WatcherExit
    <3>1. debounce' \in BOOLEAN
      BY <2>1, Zenon DEF WatcherExit
    <3> QED
      BY <2>1, <3>1 DEF WatcherExit
  <2>2. CASE TakeDirs
    BY <2>2 DEF TakeDirs, Snapshots
  <2>3. CASE TakeEvent \/ DebounceFires
    <3>1. events' \in BOOLEAN /\ debounce' \in BOOLEAN
      BY <2>3, Zenon DEF TakeEvent, DebounceFires
    <3> QED
      BY <2>3, <3>1 DEF TakeEvent, DebounceFires
  <2>4. CASE WatcherDies
    BY <2>4 DEF WatcherDies
  <2> QED
    BY <1>5, <2>1, <2>2, <2>3, <2>4 DEF WatcherStep
<1>6. CASE \E who \in {"main", "watcher"} : ReloadBegin(who)
  BY <1>6 DEF ReloadBegin
<1>7. CASE ReadRoot \/ ReadInclude
  BY <1>7 DEF ReadRoot, ReadInclude
<1>8. CASE DrainWatchDirs \/ ReloadApply \/ ReloadEnd
  BY <1>8 DEF DrainWatchDirs, ReloadApply, ReloadEnd
<1>9. CASE PublishWatchDirs
  BY <1>9, SnapshotIsOne DEF PublishWatchDirs
<1>10. CASE MainStep
  <2>1. CASE WatchIsUp \/ SeesSignal \/ Teardown
    BY <2>1 DEF WatchIsUp, SeesSignal, Teardown
  <2>2. CASE WatchIsDown
    <3>1. ctxDone' \in BOOLEAN
      BY <2>2, Zenon DEF WatchIsDown, GiveUp
    <3> QED
      BY <2>2, <3>1 DEF WatchIsDown, GiveUp
  <2>3. CASE SeesListenErr
    BY <2>3 DEF SeesListenErr, GiveUp
  <2>4. CASE SeesWatcherDied
    <3>1. watcherDied' \in BOOLEAN /\ ctxDone' \in BOOLEAN
      BY <2>4, Zenon DEF SeesWatcherDied, GiveUp
    <3> QED
      BY <2>4, <3>1 DEF SeesWatcherDied, GiveUp
  <2> QED
    BY <1>10, <2>1, <2>2, <2>3, <2>4 DEF MainStep
<1> QED
  BY <1>2, <1>3, <1>4, <1>5, <1>6, <1>7, <1>8, <1>9, <1>10
     DEF Next, ReloadStep

LEMMA CallerIsKept ==
    ASSUME LifecycleInv, [Next]_lifecycleVars
    PROVE  ReloadHasACaller'
<1> USE DEF LifecycleInv, LifecycleTypeOK, ReloadHasACaller
<1>1. CASE \E f \in File : Edit(f)
  BY <1>1 DEF Edit
<1>2. CASE Signal \/ ListenFails \/ UNCHANGED lifecycleVars
  BY <1>2 DEF Signal, ListenFails
<1>3. CASE SetupFails \/ SetupSucceeds
  BY <1>3 DEF SetupFails, SetupSucceeds
<1>4. CASE WatcherStep
  BY <1>4 DEF WatcherStep, WatcherExit, TakeDirs, TakeEvent, DebounceFires,
              WatcherDies
<1>5. CASE \E who \in {"main", "watcher"} : ReloadBegin(who)
  BY <1>5 DEF ReloadBegin, Calls
<1>6. CASE ReloadStep
  BY <1>6 DEF ReloadStep, ReadRoot, ReadInclude, DrainWatchDirs,
              PublishWatchDirs, ReloadApply, ReloadEnd
<1>7. CASE MainStep
  BY <1>7 DEF MainStep, WatchIsUp, WatchIsDown, SeesSignal, SeesListenErr,
              SeesWatcherDied, Teardown, GiveUp
<1> QED
  BY <1>1, <1>2, <1>3, <1>4, <1>5, <1>6, <1>7 DEF Next

LEMMA ChannelIsKept ==
    ASSUME LifecycleInv, [Next]_lifecycleVars
    PROVE  (ChannelHoldsTheLast /\ LastSnapshotArrives)'
<1> USE DEF LifecycleInv, ChannelHoldsTheLast, LastSnapshotArrives
<1>1. CASE \E f \in File : Edit(f)
  BY <1>1 DEF Edit
<1>2. CASE Signal \/ ListenFails \/ UNCHANGED lifecycleVars
  BY <1>2 DEF Signal, ListenFails
<1>3. CASE SetupFails \/ SetupSucceeds
  BY <1>3 DEF SetupFails, SetupSucceeds
<1>4. CASE WatcherStep
  BY <1>4 DEF WatcherStep, WatcherExit, TakeDirs, TakeEvent, DebounceFires,
              WatcherDies
<1>5. CASE \E who \in {"main", "watcher"} : ReloadBegin(who)
  BY <1>5 DEF ReloadBegin, Calls, ReloadHasACaller
<1>6. CASE ReadRoot
  BY <1>6 DEF ReadRoot
<1>7. CASE ReadInclude \/ DrainWatchDirs \/ ReloadApply \/ ReloadEnd
  BY <1>7 DEF ReadInclude, DrainWatchDirs, ReloadApply, ReloadEnd
<1>8. CASE PublishWatchDirs
  BY <1>8, SnapshotIsOne DEF PublishWatchDirs
<1>9. CASE MainStep
  BY <1>9 DEF MainStep, WatchIsUp, WatchIsDown, SeesSignal, SeesListenErr,
              SeesWatcherDied, Teardown, GiveUp
<1> QED
  BY <1>1, <1>2, <1>3, <1>4, <1>5, <1>6, <1>7, <1>8, <1>9 DEF Next, ReloadStep

LEMMA WatchIsKept ==
    ASSUME LifecycleInv, [Next]_lifecycleVars
    PROVE  WatchBeforeReload'
<1> USE DEF LifecycleInv, LifecycleTypeOK, ReloadHasACaller, WatchBeforeReload
<1>1. CASE \E f \in File : Edit(f)
  BY <1>1 DEF Edit
<1>2. CASE Signal \/ ListenFails \/ UNCHANGED lifecycleVars
  BY <1>2 DEF Signal, ListenFails
<1>3. CASE SetupFails \/ SetupSucceeds
  BY <1>3 DEF SetupFails, SetupSucceeds
<1>4. CASE WatcherStep
  BY <1>4 DEF WatcherStep, WatcherExit, TakeDirs, TakeEvent, DebounceFires,
              WatcherDies
<1>5. CASE \E who \in {"main", "watcher"} : ReloadBegin(who)
  BY <1>5 DEF ReloadBegin
<1>6. CASE ReloadStep
  <2>1. reloadPc # "idle" => watcherPc # "setup"
    OBVIOUS
  <2> QED
    BY <1>6, <2>1 DEF ReloadStep, ReadRoot, ReadInclude, DrainWatchDirs,
                      PublishWatchDirs, ReloadApply, ReloadEnd
<1>7. CASE MainStep
  BY <1>7 DEF MainStep, WatchIsUp, WatchIsDown, SeesSignal, SeesListenErr,
              SeesWatcherDied, Teardown, GiveUp
<1> QED
  BY <1>1, <1>2, <1>3, <1>4, <1>5, <1>6, <1>7 DEF Next

LEMMA NothingIsForgottenByAStep ==
    ASSUME LifecycleInv, [Next]_lifecycleVars
    PROVE  NothingIsForgotten'
<1> USE DEF LifecycleInv, LifecycleTypeOK, FilesTypeOK, NothingIsForgotten,
            RootIsSafe, Coming
<1>1. ASSUME NEW f \in File, Edit(f) PROVE NothingIsForgotten'
  <2>1. /\ events' = (events \/ DirOf[f] \in watched)
        /\ missed' = IF DirOf[f] \in watched THEN missed ELSE missed \cup {f}
        /\ \A g \in File \ {f} : disk'[g] = disk[g]
        /\ UNCHANGED <<read, debounce, watcherPc, watcherReady, reloadMu,
                       reloadPc, ctxDone, mainPc>>
    BY <1>1 DEF Edit
  <2>2. Coming => Coming'
    BY <2>1
  <2>3. ASSUME NEW g \in File
        PROVE  (read[g] \in {NotRead, disk[g]} \/ g \in missed \/ Coming)'
    <3>1. CASE g = f
      <4>1. CASE DirOf[f] \in watched
        BY <2>1, <4>1
      <4>2. CASE DirOf[f] \notin watched
        BY <2>1, <3>1, <4>2
      <4> QED
        BY <4>1, <4>2
    <3>2. CASE g # f
      BY <2>1, <2>2, <3>2
    <3> QED
      BY <3>1, <3>2
  <2>4. mainPc = "waiting" \/ reloadPc \notin {"idle", "reading"}
            => watcherReady = "error" \/ rootDir \in watched
    BY DEF WatchBeforeReload, ReloadHasACaller
  <2> QED
    BY <2>1, <2>3, <2>4
<1>2. CASE Signal \/ ListenFails \/ UNCHANGED lifecycleVars
  BY <1>2 DEF Signal, ListenFails
<1>3. CASE SetupFails \/ SetupSucceeds
  BY <1>3 DEF SetupFails, SetupSucceeds, WatchBeforeReload
<1>4. CASE WatcherStep
  BY <1>4 DEF WatcherStep, WatcherExit, TakeDirs, TakeEvent, DebounceFires,
              WatcherDies, ReloadHasACaller
<1>5. CASE \E who \in {"main", "watcher"} : ReloadBegin(who)
  BY <1>5 DEF ReloadBegin, Calls
<1>6. CASE ReadRoot
  <2>1. /\ read' = [root |-> disk["root"], include |-> NotRead]
        /\ missed' = missed \ {"root"}
        /\ UNCHANGED <<disk, mainPc, watcherReady>>
    BY <1>6 DEF ReadRoot
  <2>2. \A f \in File : read'[f] \in {NotRead, disk'[f]}
    BY <2>1
  <2>3. RootIsSafe'
    BY <2>1
  <2> QED
    BY <2>2, <2>3
<1>7. CASE ReadInclude
  BY <1>7 DEF ReadInclude
<1>8. CASE DrainWatchDirs \/ PublishWatchDirs \/ ReloadApply
  BY <1>8 DEF DrainWatchDirs, PublishWatchDirs, ReloadApply
<1>9. CASE ReloadEnd
  BY <1>9 DEF ReloadEnd, ReloadHasACaller
<1>10. CASE MainStep
  BY <1>10 DEF MainStep, WatchIsUp, WatchIsDown, SeesSignal, SeesListenErr,
               SeesWatcherDied, Teardown, GiveUp
<1> QED
  BY <1>1, <1>2, <1>3, <1>4, <1>5, <1>6, <1>7, <1>8, <1>9, <1>10
     DEF Next, ReloadStep

-----------------------------------------------------------------------------
(* The theorems                                                            *)

(***************************************************************************)
(* main, the watcher and reload keep to LifecycleInv.                      *)
(***************************************************************************)
THEOREM LifecycleInvariance == Spec => []LifecycleInv
<1>1. LifecycleInv /\ [Next]_lifecycleVars => LifecycleInv'
  BY TypeIsKept, CallerIsKept, ChannelIsKept, WatchIsKept, NothingIsForgottenByAStep
     DEF LifecycleInv
<1> QED
  BY <1>1, InitLifecycleInv, PTL DEF Spec

(***************************************************************************)
(* No edit under watch is lost (main.go:94): the watch of the root file is *)
(* up before the first reload, and an edit in a watched directory leaves   *)
(* an event, a timer or a call of reload behind until it is read. What an  *)
(* include had before its directory was watched is not promised.           *)
(***************************************************************************)
THEOREM NoWatchedEditIsLost == Spec => []QuietMeansCurrent
<1>1. LifecycleInv => QuietMeansCurrent
  BY DEF LifecycleInv, LifecycleTypeOK, FilesTypeOK, NothingIsForgotten,
         RootIsSafe, Coming, ReloadHasACaller, WatchBeforeReload, QuietMeansCurrent, Quiet
<1> QED
  BY <1>1, LifecycleInvariance, PTL

(***************************************************************************)
(* The watcher gets the last snapshot whatever the two selects of          *)
(* publishWatchDirs drop (app.go:88).                                      *)
(***************************************************************************)
THEOREM TheLastSnapshotArrives == Spec => []LastSnapshotArrives
BY LifecycleInvariance, PTL DEF LifecycleInv

(***************************************************************************)
(* Once bgWG.Wait has returned, no reload runs or starts (watcher.go:15).  *)
(***************************************************************************)
THEOREM TeardownIsFinal == Spec => NoReloadAfterTeardown
<1>1. LifecycleInv /\ [Next]_lifecycleVars
      => [mainPc = "stopped" => reloadMu = "free" /\ reloadMu' = "free"]_lifecycleVars
  <2> SUFFICES ASSUME LifecycleInv, Next, mainPc = "stopped"
               PROVE  reloadMu = "free" /\ reloadMu' = "free"
    OBVIOUS
  <2>1. reloadMu = "free" /\ reloadPc = "idle"
    BY DEF LifecycleInv, LifecycleTypeOK, ReloadHasACaller
  <2>2. \A who \in {"main", "watcher"} : ~Calls(who)
    BY DEF LifecycleInv, ReloadHasACaller, Calls
  <2>3. UNCHANGED reloadMu
    BY <2>1, <2>2
       DEF Next, Edit, Signal, ListenFails, SetupFails, SetupSucceeds,
           WatcherStep, WatcherExit, TakeDirs, TakeEvent, DebounceFires,
           WatcherDies, ReloadBegin, ReloadStep, ReadRoot, ReadInclude,
           DrainWatchDirs, PublishWatchDirs, ReloadApply, ReloadEnd, MainStep,
           WatchIsUp, WatchIsDown, SeesSignal, SeesListenErr, SeesWatcherDied,
           Teardown
  <2> QED
    BY <2>1, <2>3
<1> QED
  BY <1>1, LifecycleInvariance, PTL DEF Spec, NoReloadAfterTeardown
=============================================================================
