-------------------------- MODULE KubeconfigWatcher --------------------------
(***************************************************************************)
(* watcher.Kubeconfig: fsnotify events on the kubeconfig files, debounced  *)
(* into calls of onChange.  The bodies of the callbacks belong to the      *)
(* providers; here a callback starts and, some time later, returns.        *)
(***************************************************************************)
EXTENDS Watcher

CONSTANTS
  MaxFileChanges  \* bound: changes of the files, over a behaviour

ASSUME MaxFileChangesAssumption == MaxFileChanges \in Nat

VARIABLES
  fileChanges,   \* changes of the watched files so far
  events,        \* events of this fsnotify watcher not yet taken
  reloads,       \* onChange callbacks started so far
  reloadedAt     \* value of fileChanges when the last callback started

files == <<fileChanges, events, reloads, reloadedAt>>
kubeconfigVars == <<lifecycleVars, files>>

KubeconfigInit ==
  /\ LifecycleInit
  /\ fileChanges = 0
  /\ events = 0
  /\ reloads = 0
  /\ reloadedAt = 0

\* Watch gives up after the started flag was set when there is no kubeconfig
\* file in the loading precedence, or fsnotify.NewWatcher fails.
WatchFiles(t) ==
  /\ WatchStarts(t) \/ WatchSpawns(t) \/ WatchAborts(t)
  /\ UNCHANGED files

CloseFiles(t) ==
  /\ CloseIdle(t) \/ CloseSignals(t) \/ CloseFinishes(t)
  /\ UNCHANGED files

\* A file changes while the goroutine has the files registered.  A change at
\* any other time makes no event.
FileChanges ==
  /\ Loops > 0
  /\ fileChanges < MaxFileChanges
  /\ fileChanges' = fileChanges + 1
  /\ events' = events + 1
  /\ UNCHANGED <<lifecycleVars, reloads, reloadedAt>>

\* The goroutine ends and closes its fsnotify watcher, with the events in it.
StopListening ==
  /\ LoopStops
  /\ events' = 0
  /\ UNCHANGED <<fileChanges, reloads, reloadedAt>>

TakeEvent ==
  /\ events > 0
  /\ LoopTakes
  /\ events' = events - 1
  /\ UNCHANGED <<fileChanges, reloads, reloadedAt>>

ScheduleReload == LoopHandles(TRUE) /\ UNCHANGED files

Reload ==
  /\ TimerFires
  /\ reloads' = reloads + 1
  /\ reloadedAt' = fileChanges
  /\ UNCHANGED <<fileChanges, events>>

\* onChange returns; an error it returns is logged and nothing else.
CallbackReturns == CallbackEnds /\ UNCHANGED files

KubeconfigNext ==
  \/ \E t \in Threads : WatchFiles(t) \/ CloseFiles(t)
  \/ FileChanges
  \/ StopListening
  \/ TakeEvent
  \/ ScheduleReload
  \/ Reload
  \/ CallbackReturns

\* The Go scheduler runs every goroutine that can run, the runtime fires
\* timers, and a select with a closed stopCh takes that case in the end: a
\* file does not change for ever.
KubeconfigFairness ==
  /\ \A t \in Threads :
       /\ WF_kubeconfigVars(WatchSpawns(t) /\ UNCHANGED files)
       /\ WF_kubeconfigVars(CloseFinishes(t) /\ UNCHANGED files)
  /\ WF_kubeconfigVars(StopListening)
  /\ WF_kubeconfigVars(TakeEvent)
  /\ WF_kubeconfigVars(ScheduleReload)
  /\ WF_kubeconfigVars(Reload)
  /\ WF_kubeconfigVars(CallbackReturns)

KubeconfigSpec == KubeconfigInit /\ [][KubeconfigNext]_kubeconfigVars

KubeconfigFairSpec == KubeconfigSpec /\ KubeconfigFairness

-----------------------------------------------------------------------------
\* Every variable has its type.
KubeconfigTypeOK ==
  /\ LifecycleTypeOK
  /\ fileChanges \in Nat
  /\ events \in Nat
  /\ reloads \in Nat
  /\ reloadedAt \in Nat

\* Debouncing only ever merges changes: however Watch, Close and the timer
\* interleave, no reload runs that no change of a file asked for.
NoSpuriousReload == reloads <= fileChanges

\* NoSpuriousReload, made inductive: a change is in one place at a time, as an
\* event, in the hands of the goroutine, as the armed timer or as a reload.
ReloadInv ==
  reloads + events + handling + (IF timer = "armed" THEN 1 ELSE 0) <= fileChanges

\* A Close that found a goroutine to stop returns: the goroutine sees stopCh
\* whatever events are queued and whatever the timer does.
CloseStopsGoroutine ==
  \A t \in Threads : (pc[t] = "draining" /\ Loops > 0) ~> pc[t] = "idle"

\* A change of a watched file is followed by a reload that starts after it,
\* unless the watcher is closed in between.
ChangeReloads ==
  \A n \in 1..MaxFileChanges :
    (events > 0 /\ fileChanges = n) ~> (reloadedAt >= n \/ ~Watching)
=============================================================================
