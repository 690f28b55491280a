------------------------------- MODULE Watcher -------------------------------
(***************************************************************************)
(* The life cycle shared by the three background watchers of the server:   *)
(* Kubeconfig and ClusterState (pkg/kubernetes/watcher) and                *)
(* WorkspaceWatcher (pkg/kcp).  Each is an object with a mutex, a started  *)
(* flag, a pair of channels (stopCh asks the background goroutine to end,  *)
(* stoppedCh says that it has) and one debounce timer.  Watch and Close    *)
(* may be called by any goroutine, several at once.                        *)
(*                                                                         *)
(* A section of code that holds w.mu is one step: nothing that such a      *)
(* section changes is read without the mutex, except stopCh and stoppedCh, *)
(* which a section changes at most once.  The mutex is free between steps, *)
(* and Close is two steps because it releases the mutex while it waits for *)
(* stoppedCh.                                                              *)
(*                                                                         *)
(* What makes a goroutine arm the timer is left to the modules that extend *)
(* this one: file events in KubeconfigWatcher, polls in PollingWatcher.    *)
(***************************************************************************)
EXTENDS Naturals

CONSTANTS
  Threads,       \* the goroutines that call Watch and Close
  MaxCallbacks   \* bound: onChange callbacks running at one time

ASSUME MaxCallbacksAssumption == MaxCallbacks \in Nat \ {0}

VARIABLES
  started,       \* w.started
  stopCh,        \* w.stopCh: "open" or "closed"
  stoppedCh,     \* w.stoppedCh: "open" or "closed"
  timer,         \* w.debounceTimer: "none", "armed", "stopped" or "fired"
  pc,            \* where each caller stands: "idle", "starting" (inside
                 \* Watch, after the started flag), "draining" (inside
                 \* Close, at the receive from stoppedCh)
  selecting,     \* background goroutines at their select statement
  handling,      \* background goroutines in the body of an event or a tick
  callbacks,     \* debounce callbacks that have started and not returned
  panicked       \* a closed channel was closed again

lifecycleVars == <<started, stopCh, stoppedCh, timer, pc, selecting, handling,
                   callbacks, panicked>>

Loops == selecting + handling

Goto(t, from, to) == pc[t] = from /\ pc' = [pc EXCEPT ![t] = to]

\* time.Timer.Stop: a timer that has fired already is not recalled.
StopTimer(state) == IF state = "armed" THEN "stopped" ELSE state

LifecycleInit ==
  /\ started = FALSE
  /\ stopCh = "open"
  /\ stoppedCh = "open"
  /\ timer = "none"
  /\ pc = [t \in Threads |-> "idle"]
  /\ selecting = 0
  /\ handling = 0
  /\ callbacks = 0
  /\ panicked = FALSE

-----------------------------------------------------------------------------
(* Watch *)

\* The guarded section at the head of Watch; a call that finds started set
\* returns at once and changes nothing.
WatchStarts(t) ==
  /\ ~started
  /\ started' = TRUE
  /\ Goto(t, "idle", "starting")
  /\ UNCHANGED <<stopCh, stoppedCh, timer, selecting, handling, callbacks, panicked>>

\* The go statement at the end of Watch.
WatchSpawns(t) ==
  /\ Goto(t, "starting", "idle")
  /\ selecting' = selecting + 1
  /\ UNCHANGED <<started, stopCh, stoppedCh, timer, handling, callbacks, panicked>>

\* A return of Watch after the started flag was set and before the go statement.
WatchAborts(t) ==
  /\ Goto(t, "starting", "idle")
  /\ UNCHANGED <<started, stopCh, stoppedCh, timer, selecting, handling, callbacks, panicked>>

-----------------------------------------------------------------------------
(* Close *)

\* Close of a watcher that is not started, or that another Close is stopping:
\* it stops the timer and returns.
CloseIdle(t) ==
  /\ pc[t] = "idle"
  /\ ~started \/ stopCh = "closed"
  /\ timer' = StopTimer(timer)
  /\ UNCHANGED <<started, stopCh, stoppedCh, pc, selecting, handling, callbacks, panicked>>

\* Close of a running watcher, up to the wait for the goroutine.
CloseSignals(t) ==
  /\ started
  /\ stopCh = "open"
  /\ Goto(t, "idle", "draining")
  /\ timer' = StopTimer(timer)
  /\ stopCh' = "closed"
  /\ panicked' = (panicked \/ stopCh = "closed")
  /\ UNCHANGED <<started, stoppedCh, selecting, handling, callbacks>>

\* A defect: Close does not wait for the goroutine.
CloseHurries(t) ==
  /\ Goto(t, "draining", "idle")
  /\ started' = FALSE
  /\ stopCh' = "open"
  /\ stoppedCh' = "open"
  /\ UNCHANGED <<timer, selecting, handling, callbacks, panicked>>

\* The rest of Close: it has received from stoppedCh, so the watcher may be
\* started again, on fresh channels.
CloseFinishes(t) ==
  /\ stoppedCh = "closed"
  /\ Goto(t, "draining", "idle")
  /\ started' = FALSE
  /\ stopCh' = "open"
  /\ stoppedCh' = "open"
  /\ UNCHANGED <<timer, selecting, handling, callbacks, panicked>>

-----------------------------------------------------------------------------
(* The background goroutine and the debounce timer *)

\* A defect: the goroutine returns without closing stoppedCh.
LoopStopsSilently ==
  /\ selecting > 0
  /\ stopCh = "closed"
  /\ selecting' = selecting - 1
  /\ UNCHANGED <<started, stopCh, stoppedCh, timer, pc, handling, callbacks, panicked>>

\* case <-w.stopCh: the goroutine returns and its deferred calls run.
LoopStops ==
  /\ selecting > 0
  /\ stopCh = "closed"
  /\ selecting' = selecting - 1
  /\ stoppedCh' = "closed"
  /\ panicked' = (panicked \/ stoppedCh = "closed")
  /\ UNCHANGED <<started, stopCh, timer, pc, handling, callbacks>>

\* The select statement takes an event or a tick.
LoopTakes ==
  /\ selecting > 0
  /\ selecting' = selecting - 1
  /\ handling' = handling + 1
  /\ UNCHANGED <<started, stopCh, stoppedCh, timer, pc, callbacks, panicked>>

\* A defect: a timer that has fired is not replaced.
LoopHandlesOnce(arm) ==
  /\ handling > 0
  /\ handling' = handling - 1
  /\ selecting' = selecting + 1
  /\ timer' = IF arm /\ timer = "none" THEN "armed" ELSE timer
  /\ UNCHANGED <<started, stopCh, stoppedCh, pc, callbacks, panicked>>

\* The guarded section of an event or a tick; arm says whether it schedules
\* the debounced reload.  The timer it replaces is stopped first.
LoopHandles(arm) ==
  /\ handling > 0
  /\ handling' = handling - 1
  /\ selecting' = selecting + 1
  /\ timer' = IF arm THEN "armed" ELSE timer
  /\ UNCHANGED <<started, stopCh, stoppedCh, pc, callbacks, panicked>>

\* A defect: a ticker, which goes on, in the place of the timer.
TickerFires ==
  /\ timer = "armed"
  /\ callbacks < MaxCallbacks
  /\ callbacks' = callbacks + 1
  /\ UNCHANGED <<started, stopCh, stoppedCh, timer, pc, selecting, handling, panicked>>

\* The debounce window ends: time.AfterFunc runs the callback in a goroutine
\* of its own.
TimerFires ==
  /\ timer = "armed"
  /\ callbacks < MaxCallbacks
  /\ timer' = "fired"
  /\ callbacks' = callbacks + 1
  /\ UNCHANGED <<started, stopCh, stoppedCh, pc, selecting, handling, panicked>>

\* onChange returns.
CallbackEnds ==
  /\ callbacks > 0
  /\ callbacks' = callbacks - 1
  /\ UNCHANGED <<started, stopCh, stoppedCh, timer, pc, selecting, handling, panicked>>

LifecycleNext ==
  \/ \E t \in Threads :
       \/ WatchStarts(t) \/ WatchSpawns(t) \/ WatchAborts(t)
       \/ CloseIdle(t) \/ CloseSignals(t) \/ CloseFinishes(t)
  \/ LoopStops
  \/ LoopTakes
  \/ \E arm \in BOOLEAN : LoopHandles(arm)
  \/ TimerFires
  \/ CallbackEnds

-----------------------------------------------------------------------------
(* Type and safety of the life cycle *)

\* Every variable of the life cycle has its type.
LifecycleTypeOK ==
  /\ started \in BOOLEAN
  /\ stopCh \in {"open", "closed"}
  /\ stoppedCh \in {"open", "closed"}
  /\ timer \in {"none", "armed", "stopped", "fired"}
  /\ pc \in [Threads -> {"idle", "starting", "draining"}]
  /\ selecting \in Nat
  /\ handling \in Nat
  /\ callbacks \in Nat
  /\ panicked \in BOOLEAN

\* Close and Watch agree on who owns the background goroutine: there is never
\* more than one, there is none once started has been reset (a restart finds
\* the old goroutine gone, with its file descriptors released), and no channel
\* is closed twice, which would end the process.
ChannelProtocol ==
  /\ Loops <= 1
  /\ ~started => Loops = 0
  /\ ~panicked

\* ChannelProtocol, made inductive: who may be inside Watch or Close, and what
\* each channel says about the goroutine.
LifecycleInv ==
  /\ LifecycleTypeOK
  /\ ChannelProtocol
  /\ \A t \in Threads : pc[t] # "idle" => started
  /\ \A t, u \in Threads : pc[t] # "idle" /\ pc[t] = pc[u] => t = u
  /\ \A t \in Threads : pc[t] = "starting" => Loops = 0 /\ stoppedCh = "open"
  /\ stopCh = "closed" <=> \E t \in Threads : pc[t] = "draining"
  /\ stoppedCh = "closed" => Loops = 0 /\ stopCh = "closed"

\* The watcher has a goroutine and nobody has asked it to stop.
Watching == started /\ stopCh = "open" /\ Loops > 0

\* Every call of Close returns ("Close stops the kubeconfig watcher").
CloseReturns == \A t \in Threads : pc[t] = "draining" ~> pc[t] = "idle"
=============================================================================
