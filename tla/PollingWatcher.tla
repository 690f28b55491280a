--------------------------- MODULE PollingWatcher ---------------------------
(***************************************************************************)
(* watcher.ClusterState and kcp.WorkspaceWatcher: a goroutine polls the    *)
(* state of the world outside the server (API groups and OpenShift, or the *)
(* workspaces), compares it with the state it knows, and schedules a       *)
(* debounced reload when they differ.                                      *)
(*                                                                         *)
(* ClusterState reads through the in-memory discovery cache of its         *)
(* client, which the reload reads as well and only a poll invalidates;     *)
(* a failed request fills nothing.  WorkspaceWatcher asks the API server   *)
(* every time.                                                             *)
(***************************************************************************)
EXTENDS Watcher

CONSTANTS
  Kinds,         \* the kinds of watcher: "ClusterState", "WorkspaceWatcher"
  States,        \* the states a request can find
  Unreachable,   \* what captureState reports when requests fail
  Unfetched,     \* content of a cache that was invalidated
  Overlap,       \* a reload may last into the next poll
  Steady,        \* what no cache holds keeps still between onChange and captureState
  MaxChanges,    \* bound: changes of the world, over a behaviour
  MaxFailures    \* bound: onChange calls that fail, over a behaviour

ASSUME PollingAssumption ==
  /\ Kinds \subseteq {"ClusterState", "WorkspaceWatcher"}
  /\ Unfetched \notin States \cup {Unreachable}
  /\ Overlap \in BOOLEAN
  /\ Steady \in BOOLEAN
  /\ MaxChanges \in Nat
  /\ MaxFailures \in Nat

VARIABLES
  kind,          \* which of the two this watcher is
  world,         \* what a request would find now
  cache,         \* the discovery cache
  lastKnown,     \* w.lastKnownState
  applied,       \* what the last successful reload read
  capturing,     \* callbacks between the return of onChange and the end
  changes,       \* changes of the world so far
  failures       \* failed reloads so far

observed == <<kind, world, cache, lastKnown, applied, capturing, changes, failures>>
vars == <<lifecycleVars, observed>>

\* captureState, and every other request for the state: what it returns ...
Read == IF cache = Unfetched THEN world ELSE cache

\* ... and what it leaves in the cache.
Fill ==
  cache' = IF kind = "ClusterState" /\ Read # Unreachable THEN Read ELSE Unfetched

Init ==
  /\ LifecycleInit
  /\ kind \in Kinds
  /\ world \in States
  /\ cache = Unfetched
  /\ lastKnown = Unreachable
  /\ applied = Unreachable
  /\ capturing = 0
  /\ changes = 0
  /\ failures = 0

\* Watch takes the state it starts from under the mutex.  The server builds
\* its tools around the call, from the same client.
Watch(t) ==
  /\ WatchStarts(t)
  /\ lastKnown' = Read
  /\ applied' = Read
  /\ Fill
  /\ UNCHANGED <<kind, world, capturing, changes, failures>>

Spawn(t) == WatchSpawns(t) /\ UNCHANGED observed

Close(t) == (CloseIdle(t) \/ CloseSignals(t)) /\ UNCHANGED observed

CloseEnds(t) == CloseFinishes(t) /\ UNCHANGED observed

Stop == LoopStops /\ UNCHANGED observed

\* A defect: the poll reads through the cache it filled last time.
TickCached ==
  /\ timer # "armed"
  /\ Overlap \/ callbacks + capturing = 0
  /\ LoopTakes
  /\ UNCHANGED observed

\* A tick.  The poll interval (30s, kcp 60s) is longer than the debounce window
\* (5s): a timer that is armed fires before the next tick.  ClusterState
\* invalidates the cache before it takes the mutex.
Tick ==
  /\ timer # "armed"
  /\ Overlap \/ callbacks + capturing = 0
  /\ LoopTakes
  /\ cache' = Unfetched
  /\ UNCHANGED <<kind, world, lastKnown, applied, capturing, changes, failures>>

\* The rest of the tick, under the mutex.
Compare ==
  /\ LoopHandles(Read # lastKnown)
  /\ Fill
  /\ UNCHANGED <<kind, world, lastKnown, applied, capturing, changes, failures>>

Fire == TimerFires /\ UNCHANGED observed

\* onChange rebuilds the tools from the state it reads, and succeeds.
ReloadSucceeds ==
  /\ CallbackEnds
  /\ capturing' = capturing + 1
  /\ applied' = Read
  /\ Fill
  /\ UNCHANGED <<kind, world, lastKnown, changes, failures>>

\* A defect: the state is taken anew whether or not the reload succeeded.
ReloadFailsCaptures ==
  /\ failures < MaxFailures
  /\ CallbackEnds
  /\ failures' = failures + 1
  /\ capturing' = capturing + 1
  /\ UNCHANGED <<kind, world, cache, lastKnown, applied, changes>>

\* onChange fails: the state known stays as it was, for the next poll to differ.
ReloadFails ==
  /\ failures < MaxFailures
  /\ CallbackEnds
  /\ failures' = failures + 1
  /\ UNCHANGED <<kind, world, cache, lastKnown, applied, capturing, changes>>

\* After a successful onChange the callback takes the mutex and the state anew.
Capture ==
  /\ capturing > 0
  /\ capturing' = capturing - 1
  /\ lastKnown' = Read
  /\ Fill
  /\ UNCHANGED <<lifecycleVars, kind, world, applied, changes, failures>>

\* The world changes, in any way and at any time.  Steady leaves out one time:
\* between onChange and captureState, when no cache makes both see the same.
WorldChanges ==
  /\ changes < MaxChanges
  /\ Steady => capturing = 0 \/ cache # Unfetched
  /\ world' \in States \ {world}
  /\ changes' = changes + 1
  /\ UNCHANGED <<lifecycleVars, kind, cache, lastKnown, applied, capturing, failures>>

Next ==
  \/ \E t \in Threads : Watch(t) \/ Spawn(t) \/ Close(t) \/ CloseEnds(t)
  \/ Stop
  \/ Tick
  \/ Compare
  \/ Fire
  \/ ReloadSucceeds
  \/ ReloadFails
  \/ Capture
  \/ WorldChanges

\* Goroutines that can run do, and timers and tickers fire.  With stopCh
\* closed a select that finds a tick as well does not take the tick for ever.
Fairness ==
  /\ \A t \in Threads : WF_vars(Spawn(t)) /\ WF_vars(CloseEnds(t))
  /\ SF_vars(Stop)
  /\ SF_vars(Tick)
  /\ WF_vars(Compare)
  /\ WF_vars(Fire)
  /\ WF_vars(ReloadSucceeds)
  /\ WF_vars(Capture)

Spec == Init /\ [][Next]_vars

FairSpec == Spec /\ Fairness

-----------------------------------------------------------------------------
\* Every variable has its type, and no cache holds a failure.
TypeOK ==
  /\ LifecycleTypeOK
  /\ kind \in Kinds
  /\ world \in States
  /\ cache \in (States \ {Unreachable}) \cup {Unfetched}
  /\ lastKnown \in States \cup {Unreachable}
  /\ applied \in States \cup {Unreachable}
  /\ capturing \in Nat
  /\ changes \in Nat
  /\ failures \in Nat

\* The state a poll compares with is the state the tools were built from: the
\* second look a callback takes at the world, after onChange, has seen what
\* onChange saw.
BaselineApplied == capturing = 0 => lastKnown = applied

\* BaselineApplied, made inductive.  Polls and reloads take turns, and a
\* callback about to take its second look will find what onChange found.
BaselineInv ==
  /\ handling > 0 => timer # "armed"
  /\ handling > 0 \/ timer = "armed" => callbacks + capturing = 0
  /\ callbacks + capturing <= 1
  /\ capturing > 0 => Read = applied
  /\ kind = "WorkspaceWatcher" => cache = Unfetched
  /\ BaselineApplied

\* Every change the watcher can see is followed by a reload, a failed reload
\* is tried again, and nothing is lost between the two: while the watcher
\* keeps running, the tools end up built from the state the world is left in.
ReloadsConverge == <>[]Watching => <>[](applied = world)
=============================================================================
