---------------------------- MODULE WatcherProofs ----------------------------
(***************************************************************************)
(* The life cycle of a watcher keeps LifecycleInv, for every number of     *)
(* callers.  The proofs about the two kinds of watcher rest on these two   *)
(* facts: every step of theirs is a step of LifecycleNext or changes       *)
(* nothing of the life cycle.                                              *)
(***************************************************************************)
EXTENDS KubeconfigWatcher, PollingWatcher, TLAPS

\* A new watcher is stopped, with both channels open.
LEMMA LifecycleInitially == LifecycleInit => LifecycleInv
<1> SUFFICES ASSUME LifecycleInit
             PROVE  LifecycleInv
  OBVIOUS
<1>1. LifecycleTypeOK
  BY DEF LifecycleInit, LifecycleTypeOK
<1>2. ChannelProtocol
  BY DEF LifecycleInit, ChannelProtocol, Loops
<1>3. \A t \in Threads : pc[t] = "idle"
  BY DEF LifecycleInit
<1> QED
  BY <1>1, <1>2, <1>3 DEF LifecycleInit, LifecycleInv

\* No step of Watch, Close, the goroutine or the timer breaks the agreement
\* between the started flag, the channels and the goroutine.
LEMMA LifecycleStep ==
  LifecycleInv /\ [LifecycleNext]_lifecycleVars => LifecycleInv'
<1> SUFFICES ASSUME LifecycleInv, [LifecycleNext]_lifecycleVars
             PROVE  LifecycleInv'
  OBVIOUS
<1> USE DEF LifecycleInv, LifecycleTypeOK, ChannelProtocol, Loops
<1>1. ASSUME NEW t \in Threads, WatchStarts(t)
      PROVE  LifecycleInv'
  BY <1>1 DEF WatchStarts, Goto
<1>2. ASSUME NEW t \in Threads, WatchSpawns(t)
      PROVE  LifecycleInv'
  BY <1>2 DEF WatchSpawns, Goto
<1>3. ASSUME NEW t \in Threads, WatchAborts(t)
      PROVE  LifecycleInv'
  BY <1>3 DEF WatchAborts, Goto
<1>4. ASSUME NEW t \in Threads, CloseIdle(t)
      PROVE  LifecycleInv'
  BY <1>4 DEF CloseIdle, StopTimer
<1>5. ASSUME NEW t \in Threads, CloseSignals(t)
      PROVE  LifecycleInv'
  BY <1>5 DEF CloseSignals, StopTimer, Goto
<1>6. ASSUME NEW t \in Threads, CloseFinishes(t)
      PROVE  LifecycleInv'
  BY <1>6 DEF CloseFinishes, Goto
<1>7. CASE LoopStops
  BY <1>7 DEF LoopStops
<1>8. CASE LoopTakes
  BY <1>8 DEF LoopTakes
<1>9. ASSUME NEW arm \in BOOLEAN, LoopHandles(arm)
      PROVE  LifecycleInv'
  BY <1>9 DEF LoopHandles
<1>10. CASE TimerFires
  BY <1>10 DEF TimerFires
<1>11. CASE CallbackEnds
  BY <1>11 DEF CallbackEnds
<1>12. CASE UNCHANGED lifecycleVars
  BY <1>12 DEF lifecycleVars
<1> QED
  BY <1>1, <1>2, <1>3, <1>4, <1>5, <1>6, <1>7, <1>8, <1>9, <1>10, <1>11, <1>12
     DEF LifecycleNext

-----------------------------------------------------------------------------
(* The kubeconfig watcher, for any number of callers and changes.         *)

\* Every step of the kubeconfig watcher is one of the life cycle's.
LEMMA KubeconfigRefinesLifecycle ==
  [KubeconfigNext]_kubeconfigVars => [LifecycleNext]_lifecycleVars
BY DEF KubeconfigNext, kubeconfigVars, lifecycleVars, LifecycleNext, WatchFiles, CloseFiles,
       FileChanges, StopListening, TakeEvent, ScheduleReload, Reload, CallbackReturns

\* Two Closes, a Close inside a Watch, a restart: whatever calls are made,
\* there is at most one goroutine, none is left behind a stopped watcher, and
\* no channel is closed twice.
THEOREM KubeconfigChannelProtocol == KubeconfigSpec => []ChannelProtocol
<1>1. KubeconfigInit => LifecycleInv
  BY LifecycleInitially DEF KubeconfigInit
<1>2. LifecycleInv /\ [KubeconfigNext]_kubeconfigVars => LifecycleInv'
  BY LifecycleStep, KubeconfigRefinesLifecycle
<1>3. LifecycleInv => ChannelProtocol
  BY DEF LifecycleInv
<1> QED
  BY <1>1, <1>2, <1>3, PTL DEF KubeconfigSpec

\* Every variable keeps its type.
THEOREM KubeconfigTypes == KubeconfigSpec => []KubeconfigTypeOK
<1> DEFINE TInv == LifecycleInv /\ KubeconfigTypeOK
<1>1. KubeconfigInit => TInv
  <2> SUFFICES ASSUME KubeconfigInit
               PROVE  TInv
    OBVIOUS
  <2>1. LifecycleInv
    BY LifecycleInitially DEF KubeconfigInit
  <2> QED
    BY <2>1 DEF KubeconfigInit, KubeconfigTypeOK, LifecycleInv
<1>2. TInv /\ [KubeconfigNext]_kubeconfigVars => TInv'
  <2> SUFFICES ASSUME TInv, [KubeconfigNext]_kubeconfigVars
               PROVE  TInv'
    OBVIOUS
  <2>1. LifecycleInv'
    BY LifecycleStep, KubeconfigRefinesLifecycle
  <2>2. fileChanges' \in Nat /\ events' \in Nat /\ reloads' \in Nat /\ reloadedAt' \in Nat
    <3>1. CASE FileChanges \/ StopListening \/ TakeEvent \/ Reload
      BY <3>1 DEF KubeconfigTypeOK, FileChanges, StopListening, TakeEvent, Reload
    <3>2. CASE \/ \E t \in Threads : WatchFiles(t) \/ CloseFiles(t)
               \/ ScheduleReload \/ CallbackReturns \/ UNCHANGED kubeconfigVars
      BY <3>2 DEF KubeconfigTypeOK, WatchFiles, CloseFiles, ScheduleReload, CallbackReturns,
                  kubeconfigVars, files
    <3> QED
      BY <3>1, <3>2 DEF KubeconfigNext
  <2> QED
    BY <2>1, <2>2 DEF LifecycleInv, KubeconfigTypeOK
<1> QED
  BY <1>1, <1>2, PTL DEF KubeconfigSpec

\* No step makes two reloads out of one change.
LEMMA ReloadInvStep ==
  KubeconfigTypeOK /\ ReloadInv /\ [KubeconfigNext]_kubeconfigVars => ReloadInv'
<1> SUFFICES ASSUME KubeconfigTypeOK, ReloadInv, [KubeconfigNext]_kubeconfigVars
             PROVE  ReloadInv'
  OBVIOUS
<1> USE DEF KubeconfigTypeOK, LifecycleTypeOK, ReloadInv
<1>1. ASSUME NEW t \in Threads, WatchFiles(t)
      PROVE  ReloadInv'
  BY <1>1 DEF WatchFiles, files, WatchStarts, WatchSpawns, WatchAborts
<1>2. ASSUME NEW t \in Threads, CloseFiles(t)
      PROVE  ReloadInv'
  BY <1>2 DEF CloseFiles, files, CloseIdle, CloseSignals, CloseFinishes, StopTimer
<1>3. CASE FileChanges
  BY <1>3 DEF FileChanges, lifecycleVars
<1>4. CASE StopListening
  BY <1>4 DEF StopListening, LoopStops
<1>5. CASE TakeEvent
  BY <1>5 DEF TakeEvent, LoopTakes
<1>6. CASE ScheduleReload
  BY <1>6 DEF ScheduleReload, LoopHandles, files
<1>7. CASE Reload
  BY <1>7 DEF Reload, TimerFires
<1>8. CASE CallbackReturns
  BY <1>8 DEF CallbackReturns, CallbackEnds, files
<1>9. CASE UNCHANGED kubeconfigVars
  BY <1>9 DEF kubeconfigVars, lifecycleVars, files
<1> QED
  BY <1>1, <1>2, <1>3, <1>4, <1>5, <1>6, <1>7, <1>8, <1>9 DEF KubeconfigNext

\* The debounced reloads never outnumber the changes that asked for them.
THEOREM KubeconfigNoSpuriousReload == KubeconfigSpec => []NoSpuriousReload
<1>1. KubeconfigInit => ReloadInv
  BY DEF KubeconfigInit, LifecycleInit, ReloadInv
<1>2. KubeconfigTypeOK /\ ReloadInv => NoSpuriousReload
  BY DEF KubeconfigTypeOK, LifecycleTypeOK, ReloadInv, NoSpuriousReload
<1> QED
  BY <1>1, <1>2, ReloadInvStep, KubeconfigTypes, PTL DEF KubeconfigSpec

-----------------------------------------------------------------------------
(* The polling watchers, for any number of callers, states of the world,   *)
(* changes and failures.                                                   *)

\* Every step of a polling watcher is one of the life cycle's.
LEMMA PollingRefinesLifecycle == [Next]_vars => [LifecycleNext]_lifecycleVars
<1> SUFFICES ASSUME [Next]_vars
             PROVE  [LifecycleNext]_lifecycleVars
  OBVIOUS
<1>1. CASE Compare
  <2>1. PICK arm \in BOOLEAN : LoopHandles(arm)
    BY <1>1 DEF Compare
  <2> QED
    BY <2>1 DEF LifecycleNext
<1>2. CASE Next /\ ~Compare
  BY <1>2 DEF Next, LifecycleNext, Watch, Spawn, Close, CloseEnds, Stop, Tick,
              Fire, ReloadSucceeds, ReloadFails, Capture, WorldChanges
<1>3. CASE UNCHANGED vars
  BY <1>3 DEF vars
<1> QED
  BY <1>1, <1>2, <1>3

\* The life cycle of a polling watcher is as sound as that of the other kind.
LEMMA PollingLifecycle == Spec => []LifecycleInv
<1>1. Init => LifecycleInv
  BY LifecycleInitially DEF Init
<1>2. LifecycleInv /\ [Next]_vars => LifecycleInv'
  BY LifecycleStep, PollingRefinesLifecycle
<1> QED
  BY <1>1, <1>2, PTL DEF Spec

\* At most one goroutine polls, none after Close, and no channel is closed
\* twice.
THEOREM PollingChannelProtocol == Spec => []ChannelProtocol
<1>1. LifecycleInv => ChannelProtocol
  BY DEF LifecycleInv
<1> QED
  BY <1>1, PollingLifecycle, PTL

\* Every variable keeps its type.
THEOREM PollingTypeOK == Spec => []TypeOK
<1> USE PollingAssumption DEF TypeOK
<1>1. Init /\ LifecycleInv => TypeOK
  BY DEF Init, LifecycleInv
<1>2. TypeOK /\ LifecycleInv' /\ [Next]_vars => TypeOK'
  <2> SUFFICES ASSUME TypeOK, LifecycleInv', [Next]_vars
               PROVE  TypeOK'
    OBVIOUS
  <2>1. Read \in States \cup {Unreachable}
    BY DEF Read
  <2> USE <2>1 DEF LifecycleInv
  <2>2. CASE \E t \in Threads : Spawn(t) \/ Close(t) \/ CloseEnds(t)
    BY <2>2 DEF Spawn, Close, CloseEnds, observed
  <2>3. CASE Stop \/ Fire \/ UNCHANGED vars
    BY <2>3 DEF Stop, Fire, vars, observed
  <2>4. CASE \E t \in Threads : Watch(t)
    BY <2>4 DEF Watch, Fill
  <2>5. CASE Tick \/ Compare
    BY <2>5 DEF Tick, Compare, Fill
  <2>6. CASE ReloadSucceeds \/ ReloadFails
    BY <2>6 DEF ReloadSucceeds, ReloadFails, Fill
  <2>7. CASE Capture \/ WorldChanges
    BY <2>7 DEF Capture, WorldChanges, Fill
  <2> QED
    BY <2>2, <2>3, <2>4, <2>5, <2>6, <2>7 DEF Next
<1> QED
  BY <1>1, <1>2, PollingLifecycle, PTL DEF Spec

\* When a reload ends before the next poll, and what no cache holds does not
\* change between the two looks of one callback, no step separates the state
\* known from the state applied.  API groups may change at any time: the
\* discovery cache shows captureState what it showed onChange.
LEMMA BaselineStep ==
  ASSUME ~Overlap, Steady
  PROVE  TypeOK /\ LifecycleInv /\ BaselineInv /\ [Next]_vars => BaselineInv'
<1> SUFFICES ASSUME TypeOK, LifecycleInv, BaselineInv, [Next]_vars
             PROVE  BaselineInv'
  OBVIOUS
<1> USE PollingAssumption
    DEF TypeOK, LifecycleTypeOK, BaselineInv, BaselineApplied, Read
<1>1. CASE \E t \in Threads : Watch(t)
  BY <1>1 DEF Watch, WatchStarts, Fill
<1>2. CASE \E t \in Threads : Spawn(t)
  BY <1>2 DEF Spawn, WatchSpawns, observed
<1>3. CASE \E t \in Threads : Close(t)
  BY <1>3 DEF Close, CloseIdle, CloseSignals, StopTimer, observed
<1>4. CASE \E t \in Threads : CloseEnds(t)
  BY <1>4 DEF CloseEnds, CloseFinishes, observed
<1>5. CASE Stop
  BY <1>5 DEF Stop, LoopStops, observed
<1>6. CASE Tick
  BY <1>6 DEF Tick, LoopTakes
<1>7. CASE Compare
  BY <1>7 DEF Compare, LoopHandles, Fill, LifecycleInv, ChannelProtocol, Loops
<1>8. CASE Fire
  BY <1>8 DEF Fire, TimerFires, observed
<1>9. CASE ReloadSucceeds
  BY <1>9 DEF ReloadSucceeds, CallbackEnds, Fill
<1>10. CASE ReloadFails
  BY <1>10 DEF ReloadFails, CallbackEnds
<1>11. CASE Capture
  BY <1>11 DEF Capture, Fill, lifecycleVars
<1>12. CASE WorldChanges
  BY <1>12 DEF WorldChanges, lifecycleVars
<1>13. CASE UNCHANGED vars
  BY <1>13 DEF vars, lifecycleVars, observed
<1> QED
  BY <1>1, <1>2, <1>3, <1>4, <1>5, <1>6, <1>7, <1>8, <1>9, <1>10, <1>11, <1>12,
     <1>13 DEF Next

\* Under those conditions a poll always compares with what the tools show.
THEOREM PollingBaselineApplied ==
  ASSUME ~Overlap, Steady
  PROVE  Spec => []BaselineApplied
<1>1. Init => BaselineInv
  BY DEF Init, LifecycleInit, BaselineInv, BaselineApplied
<1>2. TypeOK /\ LifecycleInv /\ BaselineInv /\ [Next]_vars => BaselineInv'
  BY BaselineStep
<1>3. BaselineInv => BaselineApplied
  BY DEF BaselineInv
<1> QED
  BY <1>1, <1>2, <1>3, PollingLifecycle, PollingTypeOK, PTL DEF Spec
=============================================================================
