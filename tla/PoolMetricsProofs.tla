-------------------------- MODULE PoolMetricsProofs --------------------------
(***************************************************************************)
(* app_db_config_applied tells the truth about every database whenever     *)
(* stateMu is free, for any number of databases, configurations, reloads   *)
(* and reconnects and whatever the two loops publish in between.           *)
(***************************************************************************)
EXTENDS PoolMetricsProperties, TLAPS

-----------------------------------------------------------------------------
(* The inductive invariant                                                 *)

(***************************************************************************)
(* One transition publishes at a time, and only while it holds stateMu.    *)
(***************************************************************************)
OnePublisher ==
    /\ publishPc = "done" <=> StateMuFree
    /\ ~(reloadPc = "publishing" /\ checkerPc = "publishing")

(***************************************************************************)
(* What reload is about to delete has neither a pool nor a pending         *)
(* attempt, and no reconnect gives it one in the meantime.                 *)
(***************************************************************************)
RemovedAreGone ==
    /\ removedDBs \cap KnownDBs = {}
    /\ reloadPc = "idle" => removedDBs = {}

(***************************************************************************)
(* How far the publication has come: the ones are set before the zeros,    *)
(* and a database that is not known, nor to be deleted, has no series at   *)
(* any moment.                                                             *)
(***************************************************************************)
AppliedSoFar ==
    \A d \in DB :
        /\ d \notin KnownDBs \cup removedDBs => dbConfigApplied[d] = NoSeries
        /\ publishPc \in {"pending", "done"} /\ d \in Pooled \ PendingDBs
               => dbConfigApplied[d] = 1
        /\ publishPc = "done" /\ d \in PendingDBs => dbConfigApplied[d] = 0

(***************************************************************************)
(* A loop publishes what it has seen of a pool of its snapshot.            *)
(***************************************************************************)
LooksAtAPool ==
    \A o \in Observers : obs[o].pc \in {"observed", "checked"} =>
        obs[o].db \in DB /\ obs[o].todo[obs[o].db] \in Pool

PoolMetricsInv ==
    TypeOK /\ LooksAtAPool /\ OnePublisher /\ RemovedAreGone /\ AppliedSoFar

USE DEF DBConfig, Handle, Pool, Observers, gaugeVars, transitionVars, pingVars,
        pmVars, vars

-----------------------------------------------------------------------------
(* The operators that the steps are built from                             *)

\* A reload decides every database: what is configured has a pool or is
\* pending afterwards, what is not has neither.
LEMMA ReloadDecides ==
    ASSUME TypeOK, NEW dbs \in Wanted, NEW ok \in SUBSET DB, Reload(dbs, ok)
    PROVE  /\ KnownDBs' = {d \in DB : dbs[d] # NoConfig}
           /\ removedDBs' = {d \in KnownDBs : dbs[d] = NoConfig}
<1> DEFINE dialed == [d \in DB |-> IF d \in ok THEN NextHandle(d) ELSE NoHandle]
<1> USE SentinelsAreNotValues
<1>1. /\ pools' = NewPools(pmRevision + 1, dbs, dialed)
      /\ failedPools' = NewFailed(dbs, dialed)
      /\ removedDBs' = Removed(dbs)
      /\ ok \subseteq ToDial(dbs)
  BY DEF Reload
<1>2. dbs \in [DB -> DBConfig \cup {NoConfig}]
  BY WantedAreDatabases
<1>3. \A d \in DB : NextHandle(d) \in Handle
  BY DEF NextHandle, TypeOK, PMTypeOK
<1>4. ASSUME NEW d \in DB
      PROVE  d \in KnownDBs' <=> dbs[d] # NoConfig
  <2>1. d \in KnownDBs' <=> pools'[d] # NoPool \/ failedPools'[d] # NoConfig
    BY DEF KnownDBs, Pooled, PendingDBs
  <2>2. CASE dbs[d] = NoConfig
    <3>1. pools'[d] = NoPool
      BY <1>1, <2>2 DEF NewPools
    <3>2. failedPools'[d] = NoConfig
      BY <1>1, <2>2 DEF NewFailed, ToDial
    <3> QED
      BY <2>1, <2>2, <3>1, <3>2
  <2>3. CASE dbs[d] # NoConfig /\ d \in ok
    <3>1. dialed[d] = NextHandle(d) /\ dialed[d] # NoHandle
      BY <1>3, <2>3
    <3>2. pools'[d] = [cfg |-> dbs[d], db |-> NextHandle(d),
                       made |-> pmRevision + 1]
      BY <1>1, <2>3, <3>1 DEF NewPools
    <3>3. pools'[d] \in Pool
      BY <1>2, <1>3, <2>3, <3>2 DEF TypeOK, PMTypeOK
    <3> QED
      BY <2>1, <2>3, <3>3
  <2>4. CASE dbs[d] # NoConfig /\ d \notin ok /\ NeedUpdate(d, dbs)
    <3>1. failedPools'[d] = dbs[d]
      BY <1>1, <2>4 DEF NewFailed, ToDial
    <3> QED
      BY <2>1, <2>4, <3>1
  <2>5. CASE dbs[d] # NoConfig /\ d \notin ok /\ ~NeedUpdate(d, dbs)
    <3>1. pools[d] \in Pool
      BY <2>5 DEF NeedUpdate, TypeOK, PMTypeOK
    <3>2. pools'[d] \in {pools[d], [cfg |-> dbs[d], db |-> pools[d].db,
                                    made |-> pmRevision + 1]}
      BY <1>1, <2>5 DEF NewPools
    <3>3. pools'[d] \in Pool
      BY <1>2, <2>5, <3>1, <3>2 DEF TypeOK, PMTypeOK
    <3> QED
      BY <2>1, <2>5, <3>3
  <2> QED
    BY <2>2, <2>3, <2>4, <2>5
<1>5. KnownDBs' \subseteq DB
  BY DEF KnownDBs, Pooled, PendingDBs
<1> QED
  BY <1>1, <1>4, <1>5 DEF Removed

\* A reconnect turns a pending database into one with a pool.
LEMMA ReconnectDecides ==
    ASSUME TypeOK, NEW d \in DB, Reconnect(d)
    PROVE  KnownDBs' = KnownDBs
<1> DEFINE new == [cfg |-> failedPools[d], db |-> NextHandle(d),
                   made |-> pmRevision]
<1>1. d \in PendingDBs /\ pools' = [pools EXCEPT ![d] = new]
      /\ failedPools' = [failedPools EXCEPT ![d] = NoConfig]
  BY DEF Reconnect
<1>2. new \in Pool /\ new # NoPool
  BY <1>1, SentinelsAreNotValues DEF PendingDBs, NextHandle, TypeOK, PMTypeOK
<1>3. \A e \in DB : /\ pools'[e] = IF e = d THEN new ELSE pools[e]
                    /\ failedPools'[e] = IF e = d THEN NoConfig ELSE failedPools[e]
  BY <1>1 DEF TypeOK, PMTypeOK
<1> HIDE DEF new
<1> QED
  BY <1>1, <1>2, <1>3 DEF KnownDBs, Pooled, PendingDBs

\* The sets of databases depend on the two maps only.
LEMMA SetsStay ==
    ASSUME UNCHANGED <<pools, failedPools>>
    PROVE  UNCHANGED <<Pooled, PendingDBs, KnownDBs>>
BY DEF Pooled, PendingDBs, KnownDBs

-----------------------------------------------------------------------------
(* Type correctness                                                        *)

LEMMA InitTypeOK == Init => TypeOK
<1> SUFFICES ASSUME Init PROVE TypeOK
  OBVIOUS
<1> USE DEF Init
<1>1. PMTypeOK
  BY DEF PMInit, PMTypeOK
<1>2. obs \in [Observers -> Observer]
  BY DEF Selecting, Observer
<1> QED
  BY <1>1, <1>2 DEF TypeOK

LEMMA ReloadTypeOK ==
    ASSUME TypeOK, NEW dbs \in Wanted, NEW ok \in SUBSET DB, Reload(dbs, ok)
    PROVE  TypeOK'
<1> DEFINE dialed == [d \in DB |-> IF d \in ok THEN NextHandle(d) ELSE NoHandle]
<1>1. /\ dbs \in [DB -> DBConfig \cup {NoConfig}]
      /\ \A d \in DB : NextHandle(d) \in Handle
      /\ dialed \in [DB -> Handle \cup {NoHandle}]
  BY WantedAreDatabases DEF NextHandle, TypeOK, PMTypeOK
<1>2. Dial(ok) /\ pools' = NewPools(pmRevision + 1, dbs, dialed)
      /\ failedPools' = NewFailed(dbs, dialed) /\ pmRevision' = pmRevision + 1
      /\ toClose' = Replaced(dbs, dialed)
  BY DEF Reload
<1> HIDE DEF dialed
<1>3. pools' \in [DB -> Pool \cup {NoPool}]
  <2> SUFFICES ASSUME NEW d \in DB
               PROVE  NewPools(pmRevision + 1, dbs, dialed)[d] \in Pool \cup {NoPool}
    BY <1>2 DEF NewPools
  <2>1. pools[d] \in Pool \cup {NoPool} /\ pmRevision \in Nat
    BY DEF TypeOK, PMTypeOK
  <2> QED
    BY <1>1, <2>1 DEF NewPools, NeedUpdate
<1>4. failedPools' \in [DB -> DBConfig \cup {NoConfig}]
  BY <1>1, <1>2 DEF NewFailed
<1>5. toClose' \subseteq Handle
  BY <1>2 DEF Replaced, TypeOK, PMTypeOK
<1>6. open' \subseteq Handle /\ serial' \in [DB -> Nat]
  BY <1>1, <1>2 DEF Dial, TypeOK, PMTypeOK
<1>7. pmRevision' \in Nat
  BY <1>2 DEF TypeOK, PMTypeOK
<1>8. removedDBs' \subseteq DB
  BY DEF Reload, Removed, KnownDBs, Pooled, PendingDBs
<1> QED
  BY <1>3, <1>4, <1>5, <1>6, <1>7, <1>8 DEF Reload, TypeOK, PMTypeOK

LEMMA ReconnectTypeOK ==
    ASSUME TypeOK, NEW d \in DB, Reconnect(d)
    PROVE  TypeOK'
<1>1. NextHandle(d) \in Handle
  BY DEF NextHandle, TypeOK, PMTypeOK
<1>2. failedPools[d] \in DBConfig
  BY DEF Reconnect, PendingDBs, TypeOK, PMTypeOK
<1>3. pools' \in [DB -> Pool \cup {NoPool}]
      /\ failedPools' \in [DB -> DBConfig \cup {NoConfig}]
  BY <1>1, <1>2 DEF Reconnect, TypeOK, PMTypeOK
<1>4. open' \subseteq Handle /\ serial' \in [DB -> Nat]
  BY <1>1 DEF Reconnect, Dial, TypeOK, PMTypeOK
<1>5. oldPool' \in Handle \cup {NoHandle}
  BY DEF Reconnect, Pooled, TypeOK, PMTypeOK
<1> QED
  BY <1>3, <1>4, <1>5 DEF Reconnect, TypeOK, PMTypeOK

\* A loop that goes on with its next database is still one of the loops.
LEMMA PassedIsAFunction ==
    ASSUME TypeOK, NEW o \in Observers
    PROVE  Passed(o) = [q \in Observers |-> Passed(o)[q]]
<1>1. obs = [q \in Observers |-> obs[q]]
  BY DEF TypeOK
<1> QED
  BY <1>1, Zenon DEF Passed

LEMMA ObserverTypeOK ==
    ASSUME TypeOK, LooksAtAPool, NEW o \in Observers, ObserverStep(o)
    PROVE  TypeOK' /\ LooksAtAPool'
<1> USE SentinelsAreNotValues DEF TypeOK
<1> DEFINE p == obs[o].todo[obs[o].db]
<1>1. obs[o] \in Observer
  OBVIOUS
<1>2. UNCHANGED <<pmVars, ctxDone, transitionVars, dbConfigApplied, answers>>
  BY DEF ObserverStep, Observe, Look, Check, Publish, LoopDone, ExitLoop
<1>3. ASSUME NEW new \in Observer, obs' = [obs EXCEPT ![o] = new],
             new.pc \in {"observed", "checked"} =>
                 new.db \in DB /\ new.todo[new.db] \in Pool
      PROVE  obs' \in [Observers -> Observer] /\ LooksAtAPool'
  BY <1>3 DEF LooksAtAPool
<1>4. obs[o].pc \in {"observed", "checked"} /\ obs' = Passed(o)
          => obs' \in [Observers -> Observer] /\ LooksAtAPool'
  <2> SUFFICES ASSUME obs[o].pc \in {"observed", "checked"}, obs' = Passed(o)
               PROVE  obs' \in [Observers -> Observer] /\ LooksAtAPool'
    OBVIOUS
  <2> DEFINE new == [obs[o] EXCEPT !.pc = "looping",
                                   !.todo[obs[o].db] = NoPool,
                                   !.db = NoDB, !.up = FALSE]
  <2>1. new \in Observer /\ new.pc = "looping"
    BY <1>1 DEF Observer
  <2>2. obs[o].db \in DB
    BY DEF LooksAtAPool
  <2>3. Passed(o)[o] = new
    BY <2>2 DEF Passed, Observer
  <2>4. \A q \in Observers \ {o} : Passed(o)[q] = obs[q]
    BY <2>2 DEF Passed
  <2>5. Passed(o) = [q \in Observers |-> Passed(o)[q]]
    BY PassedIsAFunction
  <2> HIDE DEF new
  <2>6. obs' \in [Observers -> Observer]
    BY <2>1, <2>3, <2>4, <2>5
  <2> QED
    BY <2>1, <2>3, <2>4, <2>6 DEF LooksAtAPool
<1>5. CASE Observe(o)
  <2> DEFINE new == [obs[o] EXCEPT !.pc = "looping", !.todo = pools]
  <2>1. obs' = [obs EXCEPT ![o] = new] /\ UNCHANGED <<gaugeVars, pingVars>>
    BY <1>5 DEF Observe
  <2>2. new \in Observer /\ new.pc = "looping"
    BY <1>1 DEF Observer, PMTypeOK
  <2>3. obs' \in [Observers -> Observer] /\ LooksAtAPool'
    BY <1>3, <2>1, <2>2
  <2> QED
    BY <1>2, <2>1, <2>3 DEF PMTypeOK
<1>6. ASSUME NEW d \in DB, Look(o, d) PROVE TypeOK' /\ LooksAtAPool'
  <2> DEFINE up == /\ o = "activeHealthCheck" /\ d \in answers /\ ~ctxDone
                   /\ obs[o].todo[d].db \in open
             new == [obs[o] EXCEPT !.pc = "observed", !.db = d, !.up = up]
  <2>1. obs' = [obs EXCEPT ![o] = new] /\ UNCHANGED <<gaugeVars, pingVars>>
        /\ obs[o].todo[d] # NoPool
    BY <1>6 DEF Look
  <2>2. up \in BOOLEAN
    OBVIOUS
  <2>3. new \in Observer /\ new.db = d /\ new.todo = obs[o].todo
    BY <1>1, <2>2 DEF Observer
  <2>4. new.todo[new.db] \in Pool
    BY <1>1, <2>1, <2>3 DEF Observer
  <2> HIDE DEF new
  <2>5. obs' \in [Observers -> Observer] /\ LooksAtAPool'
    BY <1>3, <2>1, <2>3, <2>4
  <2> QED
    BY <1>2, <2>1, <2>5 DEF PMTypeOK
<1>7. CASE Check(o)
  <2>1. p \in Pool /\ obs[o].db \in DB
    BY <1>7 DEF Check, LooksAtAPool
  <2>2. pingFailed' \subseteq Handle /\ UNCHANGED gaugeVars
    BY <1>7, <2>1 DEF Check
  <2>3. obs' \in [Observers -> Observer] /\ LooksAtAPool'
    <3>1. CASE obs' = Passed(o)
      BY <1>4, <1>7, <3>1 DEF Check
    <3>2. CASE obs' = [obs EXCEPT ![o].pc = "checked"]
      <4> DEFINE new == [obs[o] EXCEPT !.pc = "checked"]
      <4>1. new \in Observer /\ new.db = obs[o].db /\ new.todo = obs[o].todo
        BY <1>1 DEF Observer
      <4>2. obs' = [obs EXCEPT ![o] = new]
        BY <3>2
      <4> HIDE DEF new
      <4> QED
        BY <1>3, <2>1, <4>1, <4>2
    <3> QED
      BY <1>7, <3>1, <3>2 DEF Check
  <2> QED
    BY <1>2, <2>2, <2>3 DEF PMTypeOK
<1>8. CASE Publish(o)
  <2>1. p \in Pool /\ obs[o].db \in DB
    BY <1>8 DEF Publish, LooksAtAPool
  <2>2. /\ dbUp' \in [DB -> {0, 1, NoSeries}]
        /\ dbPoolStats' \in [DB -> Handle \cup {NoSeries}]
        /\ UNCHANGED pingVars
    BY <1>8, <2>1 DEF Publish
  <2>3. obs' \in [Observers -> Observer] /\ LooksAtAPool'
    BY <1>4, <1>8 DEF Publish
  <2> QED
    BY <1>2, <2>2, <2>3 DEF PMTypeOK
<1>9. CASE LoopDone(o) \/ ExitLoop(o)
  <2>1. PICK pc \in {"select", "exited"} : obs' = [obs EXCEPT ![o].pc = pc]
    BY <1>9 DEF LoopDone, ExitLoop
  <2> DEFINE new == [obs[o] EXCEPT !.pc = pc]
  <2>2. new \in Observer /\ new.pc = pc
    BY <1>1 DEF Observer
  <2>3. obs' \in [Observers -> Observer] /\ LooksAtAPool'
    BY <1>3, <2>1, <2>2
  <2>4. UNCHANGED <<gaugeVars, pingVars>>
    BY <1>9 DEF LoopDone, ExitLoop
  <2> QED
    BY <1>2, <2>3, <2>4 DEF PMTypeOK
<1> QED
  BY <1>5, <1>6, <1>7, <1>8, <1>9 DEF ObserverStep

LEMMA OthersTypeOK ==
    ASSUME TypeOK,
           \/ PublishUp \/ PublishApplied \/ PublishPending
           \/ ReloadClose \/ ReconnectClose
           \/ \E d \in DB : ServerChanges(d)
           \/ Shutdown \/ UNCHANGED vars
    PROVE  TypeOK'
<1> USE DEF TypeOK, PMTypeOK
<1>1. CASE PublishUp
  BY <1>1 DEF PublishUp
<1>2. CASE PublishApplied
  BY <1>2 DEF PublishApplied
<1>3. CASE PublishPending
  BY <1>3 DEF PublishPending, SetPending
<1>4. CASE ReloadClose
  BY <1>4 DEF ReloadClose, ClosePools, Without
<1>5. CASE ReconnectClose
  BY <1>5 DEF ReconnectClose, ClosePools
<1>6. CASE \E d \in DB : ServerChanges(d)
  BY <1>6 DEF ServerChanges
<1>7. CASE Shutdown \/ UNCHANGED vars
  BY <1>7 DEF Shutdown
<1> QED
  BY <1>1, <1>2, <1>3, <1>4, <1>5, <1>6, <1>7

-----------------------------------------------------------------------------
(* PoolMetricsInv holds at the start and is kept by every step             *)

LEMMA InitPoolMetricsInv == Init => PoolMetricsInv
<1> SUFFICES ASSUME Init PROVE PoolMetricsInv
  OBVIOUS
<1> USE DEF Init, PMInit
<1>1. TypeOK /\ LooksAtAPool
  BY InitTypeOK DEF LooksAtAPool, Selecting
<1>2. OnePublisher
  BY DEF OnePublisher, StateMuFree
<1>3. Pooled = {} /\ PendingDBs = {} /\ KnownDBs = {}
  BY DEF Pooled, PendingDBs, KnownDBs
<1>4. RemovedAreGone /\ AppliedSoFar
  BY <1>3 DEF RemovedAreGone, AppliedSoFar
<1> QED
  BY <1>1, <1>2, <1>4 DEF PoolMetricsInv

\* Between the two publications of a database nothing but the stage changes.
LEMMA TransitionKeeps ==
    ASSUME PoolMetricsInv,
           \/ \E dbs \in Wanted : \E ok \in SUBSET DB : Reload(dbs, ok)
           \/ \E d \in DB : Reconnect(d)
    PROVE  (OnePublisher /\ RemovedAreGone /\ AppliedSoFar)'
<1> USE DEF PoolMetricsInv
<1>1. ASSUME NEW dbs \in Wanted, NEW ok \in SUBSET DB, Reload(dbs, ok)
      PROVE  (OnePublisher /\ RemovedAreGone /\ AppliedSoFar)'
  <2>1. OnePublisher'
    BY <1>1 DEF Reload, OnePublisher, StateMuFree
  <2>2. KnownDBs' = {d \in DB : dbs[d] # NoConfig}
        /\ removedDBs' = {d \in KnownDBs : dbs[d] = NoConfig}
    BY <1>1, ReloadDecides
  <2>3. RemovedAreGone'
    BY <1>1, <2>2 DEF Reload, RemovedAreGone
  <2>4. publishPc' = "up" /\ UNCHANGED dbConfigApplied /\ removedDBs = {}
    BY <1>1 DEF Reload, RemovedAreGone
  <2>5. AppliedSoFar'
    BY <2>2, <2>4 DEF AppliedSoFar
  <2> QED
    BY <2>1, <2>3, <2>5
<1>2. ASSUME NEW d \in DB, Reconnect(d)
      PROVE  (OnePublisher /\ RemovedAreGone /\ AppliedSoFar)'
  <2>1. OnePublisher'
    BY <1>2 DEF Reconnect, OnePublisher, StateMuFree
  <2>2. UNCHANGED <<KnownDBs, removedDBs, reloadPc, dbConfigApplied>>
        /\ publishPc' = "up"
    BY <1>2, ReconnectDecides DEF Reconnect
  <2>3. RemovedAreGone' /\ AppliedSoFar'
    BY <2>2 DEF RemovedAreGone, AppliedSoFar
  <2> QED
    BY <2>1, <2>3
<1> QED
  BY <1>1, <1>2

LEMMA PublicationKeeps ==
    ASSUME PoolMetricsInv, PublishUp \/ PublishApplied \/ PublishPending
    PROVE  (OnePublisher /\ RemovedAreGone /\ AppliedSoFar)'
<1> USE DEF PoolMetricsInv
<1>1. UNCHANGED <<pools, failedPools, removedDBs>>
  BY DEF PublishUp, PublishApplied, PublishPending
<1>2. UNCHANGED <<Pooled, PendingDBs, KnownDBs>>
  BY <1>1, SetsStay
<1>3. PendingDBs \subseteq KnownDBs /\ Pooled \subseteq KnownDBs
  BY DEF KnownDBs
<1>4. CASE PublishUp
  <2>1. OnePublisher'
    BY <1>4 DEF PublishUp, OnePublisher, StateMuFree
  <2>2. RemovedAreGone' /\ AppliedSoFar'
    BY <1>1, <1>2, <1>4 DEF PublishUp, RemovedAreGone, AppliedSoFar
  <2> QED
    BY <2>1, <2>2
<1>5. CASE PublishApplied
  <2>1. OnePublisher'
    BY <1>5 DEF PublishApplied, OnePublisher, StateMuFree
  <2>2. RemovedAreGone'
    BY <1>1, <1>2, <1>5 DEF PublishApplied, RemovedAreGone
  <2>3. AppliedSoFar'
    BY <1>1, <1>2, <1>3, <1>5 DEF PublishApplied, AppliedSoFar
  <2> QED
    BY <2>1, <2>2, <2>3
<1>6. CASE PublishPending
  <2>1. OnePublisher'
    BY <1>6 DEF PublishPending, OnePublisher, StateMuFree, TypeOK
  <2>2. RemovedAreGone'
    BY <1>1, <1>2, <1>6 DEF PublishPending, RemovedAreGone
  <2>3. AppliedSoFar'
    BY <1>1, <1>2, <1>3, <1>6 DEF PublishPending, SetPending, AppliedSoFar
  <2> QED
    BY <2>1, <2>2, <2>3
<1> QED
  BY <1>4, <1>5, <1>6

LEMMA ReloadCloseKeeps ==
    ASSUME PoolMetricsInv, ReloadClose
    PROVE  (OnePublisher /\ RemovedAreGone /\ AppliedSoFar)'
<1> USE DEF PoolMetricsInv
<1>1. UNCHANGED <<Pooled, PendingDBs, KnownDBs, publishPc, checkerPc>>
  BY SetsStay DEF ReloadClose, ClosePools
<1>2. OnePublisher'
  BY <1>1 DEF ReloadClose, OnePublisher, StateMuFree
<1>3. removedDBs' = {} /\ RemovedAreGone'
  BY <1>1 DEF ReloadClose, RemovedAreGone
<1>4. \A d \in DB : dbConfigApplied'[d] =
          IF d \in removedDBs THEN NoSeries ELSE dbConfigApplied[d]
  BY DEF ReloadClose, Without
<1>5. Pooled \subseteq KnownDBs /\ PendingDBs \subseteq KnownDBs
      /\ removedDBs \cap KnownDBs = {}
  BY DEF KnownDBs, RemovedAreGone
<1>6. AppliedSoFar'
  BY <1>1, <1>3, <1>4, <1>5 DEF AppliedSoFar
<1> QED
  BY <1>2, <1>3, <1>6

\* The loops, the servers and poolHealthChecker's Close leave
\* app_db_config_applied and all that it depends on alone.
LEMMA OthersKeep ==
    ASSUME PoolMetricsInv,
           \/ ReconnectClose
           \/ \E o \in Observers : ObserverStep(o)
           \/ \E d \in DB : ServerChanges(d)
           \/ Shutdown \/ UNCHANGED vars
    PROVE  (OnePublisher /\ RemovedAreGone /\ AppliedSoFar)'
<1> USE DEF PoolMetricsInv
<1>1. UNCHANGED <<pools, failedPools, removedDBs, reloadPc, publishPc,
                  dbConfigApplied>>
  BY DEF ReconnectClose, ClosePools, ObserverStep, Observe, Look, Check,
         Publish, LoopDone, ExitLoop, ServerChanges, Shutdown
<1>2. \/ checkerPc' = checkerPc
      \/ checkerPc = "closing" /\ checkerPc' = "idle"
  BY DEF ReconnectClose, ObserverStep, Observe, Look, Check, Publish,
         LoopDone, ExitLoop, ServerChanges, Shutdown
<1>3. UNCHANGED <<Pooled, PendingDBs, KnownDBs>>
  BY <1>1, SetsStay
<1>4. OnePublisher'
  BY <1>1, <1>2 DEF OnePublisher, StateMuFree
<1> QED
  BY <1>1, <1>3, <1>4 DEF RemovedAreGone, AppliedSoFar

LEMMA LooksAtAPoolIsKept ==
    ASSUME PoolMetricsInv, UNCHANGED obs
    PROVE  LooksAtAPool'
BY DEF PoolMetricsInv, LooksAtAPool

-----------------------------------------------------------------------------
(* The theorems                                                            *)

(***************************************************************************)
(* reload, poolHealthChecker and the two loops keep to PoolMetricsInv.     *)
(***************************************************************************)
THEOREM PoolMetricsInvariance == Spec => []PoolMetricsInv
<1>1. PoolMetricsInv /\ [Next]_vars => PoolMetricsInv'
  <2> SUFFICES ASSUME PoolMetricsInv, [Next]_vars PROVE PoolMetricsInv'
    OBVIOUS
  <2>1. (TypeOK /\ LooksAtAPool)'
    <3>1. CASE \E o \in Observers : ObserverStep(o)
      BY <3>1, ObserverTypeOK DEF PoolMetricsInv
    <3>2. CASE \E dbs \in Wanted : \E ok \in SUBSET DB : Reload(dbs, ok)
      BY <3>2, ReloadTypeOK, LooksAtAPoolIsKept DEF PoolMetricsInv, Reload
    <3>3. CASE \E d \in DB : Reconnect(d)
      BY <3>3, ReconnectTypeOK, LooksAtAPoolIsKept DEF PoolMetricsInv, Reconnect
    <3>4. CASE \/ PublishUp \/ PublishApplied \/ PublishPending
               \/ ReloadClose \/ ReconnectClose
               \/ \E d \in DB : ServerChanges(d)
               \/ Shutdown \/ UNCHANGED vars
      <4>1. UNCHANGED obs
        BY <3>4 DEF PublishUp, PublishApplied, PublishPending, ReloadClose,
                    ReconnectClose, ServerChanges, Shutdown
      <4> QED
        BY <3>4, <4>1, OthersTypeOK, LooksAtAPoolIsKept DEF PoolMetricsInv
    <3> QED
      BY <3>1, <3>2, <3>3, <3>4 DEF Next
  <2>2. (OnePublisher /\ RemovedAreGone /\ AppliedSoFar)'
    BY TransitionKeeps, PublicationKeeps, ReloadCloseKeeps, OthersKeep DEF Next
  <2> QED
    BY <2>1, <2>2 DEF PoolMetricsInv
<1> QED
  BY <1>1, InitPoolMetricsInv, PTL DEF Spec

(***************************************************************************)
(* app_db_config_applied is 0 for what is pending, 1 for the other pools   *)
(* and has no series for the rest whenever stateMu is free                 *)
(* (pool_manager.go:173-178, 230-233).                                     *)
(***************************************************************************)
THEOREM ConfigAppliedHolds == Spec => []ConfigAppliedIsExact
<1>1. PoolMetricsInv => ConfigAppliedIsExact
  BY DEF PoolMetricsInv, OnePublisher, RemovedAreGone, AppliedSoFar,
         ConfigAppliedIsExact, KnownDBs
<1> QED
  BY <1>1, PoolMetricsInvariance, PTL
=============================================================================
