----------------------------- MODULE KubeProvider -----------------------------
(***************************************************************************)
(* The cluster providers that read a kubeconfig: kubeConfigClusterProvider *)
(* keeps one manager (a set of clients) per context, made when it is first *)
(* asked for; singleClusterProvider keeps one.  A change of the kubeconfig *)
(* starts, through the watcher and its debounce timer, a callback that     *)
(* resets the provider, watches the file anew and reloads the tools, while *)
(* tool and prompt calls go on asking for clients.                         *)
(*                                                                         *)
(* The first provider holds p.mu for writing while it resets or makes a    *)
(* manager, and for reading while it looks one up.  The second has no      *)
(* mutex.  A kubeconfig is loaded twice by a reset: once to resolve the    *)
(* context, once to make the clients.                                      *)
(*                                                                         *)
(* The kubeconfig watcher is here what KubeconfigWatcher shows it to be: a *)
(* change while it watches queues an event, an event arms the timer, and   *)
(* Close drops what is queued, though not an event already taken.          *)
(***************************************************************************)
EXTENDS Naturals, FiniteSets

CONSTANTS
  Strategies,    \* "kubeconfig", and "single" for singleClusterProvider
  Contexts,      \* the names of contexts
  None,          \* the empty string: no context named
  Files,         \* what the kubeconfig can hold
  Callers,       \* goroutines of tool and prompt calls
  Callbacks,     \* goroutines of the debounce timers
  Prompts,       \* whether prompts that name no context are asked for
  Steady,        \* the file holds still from its last read in a reset to Watch
  Whole,         \* the file holds still between the two reads of a reset
  MaxWrites      \* bound: changes of the kubeconfig, over a behaviour

\* A kubeconfig.  One that cannot be loaded is like one without contexts.
Kubeconfig == [contexts: SUBSET Contexts, current: Contexts \cup {None}]

ASSUME ProviderAssumption ==
  /\ Strategies \subseteq {"kubeconfig", "single"}
  /\ None \notin Contexts
  /\ Files \subseteq Kubeconfig
  /\ Prompts \in BOOLEAN
  /\ Steady \in BOOLEAN
  /\ Whole \in BOOLEAN
  /\ MaxWrites \in Nat

VARIABLES
  strategy,      \* which provider this is
  file,          \* the kubeconfig on disk
  version,       \* changes of it so far
  managers,      \* p.managers; for "single" p.manager, under None
  default,       \* p.defaultContext
  offered,       \* the targets the tools were last built for
  watching,      \* the current watcher watches the file
  queued,        \* it has an event to take
  armed,         \* a debounce timer will fire
  step,          \* where each callback stands
  resolved,      \* the context a callback has resolved
  call,          \* where each call stands
  asked,         \* the target a call asks for
  got            \* what it got: a manager, or Absent

provider == <<managers, default>>
watch == <<watching, queued, armed>>
calls == <<call, asked, got>>
vars == <<strategy, file, version, provider, offered, watch, step, resolved, calls>>

\* A manager: the context it talks to and the change of the file it was made
\* from.  Absent stands for nil.
Manager == [context: Contexts, version: 0..MaxWrites]

Absent == [context |-> None, version |-> 0]

\* resolveKubeconfigContext: the context named, the current one, or the only
\* one; None where that is an error.
Resolve(f, c) ==
  CASE c # None -> c
    [] c = None /\ f.current # None -> f.current
    [] c = None /\ f.current = None /\ Cardinality(f.contexts) = 1 ->
         CHOOSE only \in f.contexts : TRUE
    [] OTHER -> None

\* NewKubeconfigManager makes a manager.
Connects(f, c) == Resolve(f, c) \in f.contexts

\* A defect: the context asked for is not passed on.
ConnectDefault(c) == [context |-> Resolve(file, None), version |-> version]

Connect(c) == [context |-> Resolve(file, c), version |-> version]

Targets == DOMAIN managers

\* There is a manager for a target.
Has(t) == t \in Targets /\ managers[t] # Absent

\* p.mu is held for writing by a reset.
Locked == strategy = "kubeconfig" /\ \E r \in Callbacks : step[r] \in {"load", "close"}

\* A defect: the loop over the contexts does not skip the default one.
InstalledLazily(f, d, m) == [c \in f.contexts \cup {d} |-> IF c \in f.contexts THEN Absent ELSE m]

\* What a reset leaves in p.managers: a manager for the default context, nil
\* for the others.
Installed(f, d, m) == [c \in f.contexts \cup {d} |-> IF c = d THEN m ELSE Absent]

Init ==
  /\ strategy \in Strategies
  /\ file \in Files
  /\ Connects(file, None)
  /\ version = 0
  /\ IF strategy = "kubeconfig"
     THEN /\ default = Resolve(file, None)
          /\ managers = Installed(file, Resolve(file, None), Connect(None))
     ELSE /\ default = None
          /\ managers = [c \in {None} |-> Connect(None)]
  /\ offered = Targets
  /\ watching = TRUE
  /\ queued = FALSE
  /\ armed = FALSE
  /\ step = [r \in Callbacks |-> "idle"]
  /\ resolved = [r \in Callbacks |-> None]
  /\ call = [c \in Callers |-> "idle"]
  /\ asked = [c \in Callers |-> None]
  /\ got = [c \in Callers |-> Absent]

Goto(r, from, to) == step[r] = from /\ step' = [step EXCEPT ![r] = to]

-----------------------------------------------------------------------------
(* The kubeconfig and its watcher *)

\* The file is written: other contexts, another current one, or the same with
\* other servers and credentials.  Steady and Whole say when it is not.
WriteFile ==
  /\ version < MaxWrites
  /\ Steady => \A r \in Callbacks : step[r] \notin {"close", "watch"}
  /\ Whole => \A r \in Callbacks : step[r] # "load"
  /\ file' \in Files
  /\ version' = version + 1
  /\ queued' = (queued \/ watching)
  /\ UNCHANGED <<strategy, provider, offered, watching, armed, step, resolved, calls>>

\* The watcher takes the event and arms the debounce timer.
TakeEvent ==
  /\ queued
  /\ queued' = FALSE
  /\ armed' = TRUE
  /\ UNCHANGED <<strategy, file, version, provider, offered, watching, step, resolved, calls>>

\* The timer fires: reloadWithReset starts.
Fire(r) ==
  /\ armed
  /\ Goto(r, "idle", "resolve")
  /\ armed' = FALSE
  /\ UNCHANGED <<strategy, file, version, provider, offered, watching, queued, resolved,
                 calls>>

-----------------------------------------------------------------------------
(* reloadWithReset *)

\* reset takes the lock and loads the file to resolve the context.
ResolveContext(r) ==
  /\ ~Locked
  /\ Resolve(file, None) # None
  /\ Goto(r, "resolve", "load")
  /\ resolved' = [resolved EXCEPT ![r] = Resolve(file, None)]
  /\ UNCHANGED <<strategy, file, version, provider, offered, watch, calls>>

\* A reset that fails: the first provider keeps what it has, the second has
\* overwritten its manager with nil.
ResetFails(r) ==
  /\ \/ /\ ~Locked
        /\ Resolve(file, None) = None
        /\ Goto(r, "resolve", "idle")
     \/ /\ resolved[r] \notin file.contexts
        /\ Goto(r, "load", "idle")
  /\ managers' = IF strategy = "single" THEN [c \in {None} |-> Absent] ELSE managers
  /\ UNCHANGED <<strategy, file, version, default, offered, watch, resolved, calls>>

\* The clients are made from a second load of the file, which names the default
\* context too, and put in the place of the old ones.
Install(r) ==
  LET m == [context |-> resolved[r], version |-> version] IN
    /\ resolved[r] \in file.contexts
    /\ Goto(r, "load", "close")
    /\ IF strategy = "kubeconfig"
       THEN /\ default' = Resolve(file, None)
            /\ managers' = Installed(file, Resolve(file, None), m)
       ELSE /\ managers' = [c \in {None} |-> m]
            /\ UNCHANGED default
    /\ UNCHANGED <<strategy, file, version, offered, watch, resolved, calls>>

\* Close of the old watchers, and new ones; the lock is released.  An event that
\* the old watcher takes after Close has stopped its timer arms it again.
ReplaceWatchers(r) ==
  /\ Goto(r, "close", "watch")
  /\ watching' = FALSE
  /\ queued' = FALSE
  /\ armed' \in {FALSE, queued}
  /\ UNCHANGED <<strategy, file, version, provider, offered, resolved, calls>>

\* A defect: the new watchers are not started.
ForgetWatching(r) ==
  /\ Goto(r, "watch", "reload")
  /\ UNCHANGED <<strategy, file, version, provider, offered, watch, resolved, calls>>

\* WatchTargets.
StartWatching(r) ==
  /\ Goto(r, "watch", "reload")
  /\ watching' = TRUE
  /\ UNCHANGED <<strategy, file, version, provider, offered, queued, armed, resolved, calls>>

\* reload: the tools are built for the targets there are (ToolReload).
Reload(r) ==
  /\ ~Locked
  /\ Goto(r, "reload", "idle")
  /\ offered' = Targets
  /\ UNCHANGED <<strategy, file, version, provider, watch, resolved, calls>>

-----------------------------------------------------------------------------
(* GetDerivedKubernetes, for a tool or a prompt *)

\* A tool call that names no context asks for the default one as it is now, a
\* prompt that names none asks for the empty string.
Ask(c) ==
  /\ call[c] = "idle"
  /\ ~Locked
  /\ \E t \in Contexts \cup {default} \cup (IF Prompts THEN {None} ELSE {}) :
       asked' = [asked EXCEPT ![c] = t]
  /\ call' = [call EXCEPT ![c] = "lookup"]
  /\ got' = [got EXCEPT ![c] = Absent]
  /\ UNCHANGED <<strategy, file, version, provider, offered, watch, step, resolved>>

\* The call gets what is there, and runs with it.
Found(c) ==
  /\ call[c] \in {"lookup", "make"}
  /\ ~Locked
  /\ Has(asked[c])
  /\ got' = [got EXCEPT ![c] = managers[asked[c]]]
  /\ call' = [call EXCEPT ![c] = "running"]
  /\ UNCHANGED <<strategy, file, version, provider, offered, watch, step, resolved, asked>>

\* There is none: managerForContext goes for the write lock.
Missing(c) ==
  /\ strategy = "kubeconfig"
  /\ call[c] = "lookup"
  /\ ~Locked
  /\ ~Has(asked[c])
  /\ call' = [call EXCEPT ![c] = "make"]
  /\ UNCHANGED <<strategy, file, version, provider, offered, watch, step, resolved, asked, got>>

\* Still none under the write lock: it makes a manager, with the configuration
\* of the default one.
Make(c) ==
  /\ call[c] = "make"
  /\ ~Locked
  /\ ~Has(asked[c])
  /\ Has(default)
  /\ Connects(file, asked[c])
  /\ managers' = [t \in Targets \cup {asked[c]} |->
                    IF t = asked[c] THEN Connect(t) ELSE managers[t]]
  /\ got' = [got EXCEPT ![c] = Connect(asked[c])]
  /\ call' = [call EXCEPT ![c] = "running"]
  /\ UNCHANGED <<strategy, file, version, default, offered, watch, step, resolved, asked>>

\* The kubeconfig has no such context, or the provider has one target only.
Refuse(c) ==
  /\ \/ /\ call[c] = "make"
        /\ ~Locked
        /\ ~Has(asked[c])
        /\ Has(default)
        /\ ~Connects(file, asked[c])
     \/ /\ strategy = "single"
        /\ call[c] = "lookup"
        /\ asked[c] # None
  /\ call' = [call EXCEPT ![c] = "idle"]
  /\ UNCHANGED <<strategy, file, version, provider, offered, watch, step, resolved, asked, got>>

\* A nil manager is dereferenced: the one the call asked for, or the default
\* one whose configuration it wanted.
Panic(c) ==
  /\ ~Locked
  /\ \/ /\ strategy = "single"
        /\ call[c] = "lookup"
        /\ asked[c] = None
        /\ ~Has(None)
     \/ /\ call[c] = "make"
        /\ ~Has(asked[c])
        /\ ~Has(default)
  /\ call' = [call EXCEPT ![c] = "panic"]
  /\ UNCHANGED <<strategy, file, version, provider, offered, watch, step, resolved, asked, got>>

\* The call is over.
Return(c) ==
  /\ call[c] \in {"running", "panic"}
  /\ call' = [call EXCEPT ![c] = "idle"]
  /\ UNCHANGED <<strategy, file, version, provider, offered, watch, step, resolved, asked, got>>

Callback(r) ==
  \/ Fire(r) \/ ResolveContext(r) \/ ResetFails(r) \/ Install(r) \/ ReplaceWatchers(r)
  \/ StartWatching(r) \/ Reload(r)

Call(c) == Ask(c) \/ Found(c) \/ Missing(c) \/ Make(c) \/ Refuse(c) \/ Panic(c) \/ Return(c)

Next ==
  \/ WriteFile
  \/ TakeEvent
  \/ \E r \in Callbacks : Callback(r)
  \/ \E c \in Callers : Call(c)

\* The watcher takes its events, timers fire, and a callback that has started
\* goes on; it gets the lock, which a call never keeps.
Fairness ==
  /\ WF_vars(TakeEvent)
  /\ WF_vars(\E r \in Callbacks : Fire(r))
  /\ \A r \in Callbacks :
       WF_vars(ResolveContext(r) \/ ResetFails(r) \/ Install(r) \/ ReplaceWatchers(r)
                 \/ StartWatching(r) \/ Reload(r))

Spec == Init /\ [][Next]_vars

FairSpec == Spec /\ Fairness

-----------------------------------------------------------------------------
(* Properties *)

\* Every variable has its type, and a call that runs has clients to run with.
TypeOK ==
  /\ strategy \in Strategies
  /\ file \in Files
  /\ version \in 0..MaxWrites
  /\ Targets \in SUBSET (Contexts \cup {None})
  /\ \A t \in Targets : managers[t] \in Manager \cup {Absent}
  /\ default \in Contexts \cup {None}
  /\ offered \in SUBSET (Contexts \cup {None})
  /\ watching \in BOOLEAN /\ queued \in BOOLEAN /\ armed \in BOOLEAN
  /\ step \in [Callbacks -> {"idle", "resolve", "load", "close", "watch", "reload"}]
  /\ resolved \in [Callbacks -> Contexts \cup {None}]
  /\ call \in [Callers -> {"idle", "lookup", "make", "running", "panic"}]
  /\ asked \in [Callers -> Contexts \cup {None}]
  /\ got \in [Callers -> Manager \cup {Absent}]
  /\ \A c \in Callers : call[c] = "running" => got[c] \in Manager

\* While kubeconfigs break, change and come back, a call never meets a nil
\* manager: the provider with contexts keeps a usable default throughout.
CallsSurvive == strategy = "kubeconfig" => \A c \in Callers : call[c] # "panic"

\* The same of both providers ("GetDerivedKubernetes returns Kubernetes for
\* empty target").
AllCallsSurvive == \A c \in Callers : call[c] # "panic"

\* A call that names a context runs against the cluster of that context,
\* whatever resets have run since the tools were offered.
RightCluster ==
  strategy = "kubeconfig" =>
    \A c \in Callers :
      call[c] = "running" /\ asked[c] # None => got[c].context = asked[c]

\* CallsSurvive made inductive: there is always a manager for the default
\* context.
DefaultInv == strategy = "kubeconfig" => Has(default) /\ CallsSurvive

\* RightCluster made inductive: every manager talks to the context it is kept
\* under, and a context resolved under the lock is still the one the file
\* resolves to.
ClusterInv ==
  strategy = "kubeconfig" =>
    /\ \A t \in Targets : Has(t) /\ t # None => managers[t].context = t
    /\ \A r \in Callbacks : step[r] = "load" => resolved[r] = Resolve(file, None)
    /\ RightCluster

\* GetTargets returns contexts ("GetTargets returns all contexts defined in
\* kubeconfig").
TargetsAreContexts == strategy = "kubeconfig" => Targets \subseteq Contexts

\* The provider and the tools show the file as it is.
UpToDate ==
  /\ \A t \in Targets : managers[t] # Absent => managers[t].version = version
  /\ strategy = "kubeconfig" => Targets = file.contexts /\ default = Resolve(file, None)
  /\ strategy = "single" => Has(None)
  /\ offered = Targets

\* When the kubeconfig ends up usable, every client the provider hands out,
\* every target it lists and every tool it offers come from its last content,
\* though it was unusable, or changed during a reset, before.
FileTakesEffect == <>[](Connects(file, None) => UpToDate)
=============================================================================
