------------------------------ MODULE KcpProvider ------------------------------
(***************************************************************************)
(* kcpClusterProvider: the provider whose targets are the workspaces of a  *)
(* kcp server.  It walks the tree of workspaces below the one its          *)
(* kubeconfig names, keeps a manager per workspace, made when it is first  *)
(* asked for, and polls the children of that one workspace.  A change of   *)
(* them resets the provider in the goroutine of a debounce timer, while    *)
(* calls go on asking for clients.                                         *)
(*                                                                         *)
(* There is no mutex: a call may stand between any two steps of a reset,   *)
(* which writes its fields one after the other and fills p.managers after  *)
(* it has stored it.  Two accesses to that map at the very same moment end *)
(* a Go program; the steps here are those of a program that goes on.       *)
(*                                                                         *)
(* A reset is taken to end before the next timer fires, and the kubeconfig *)
(* to keep still while a reset loads it twice: PollingWatcher and          *)
(* KubeProvider have the other cases.  The watcher is here what            *)
(* PollingWatcher shows it to be.                                          *)
(***************************************************************************)
EXTENDS Naturals

CONSTANTS
  Servers,       \* addresses of kcp, each with its credentials; all have one tree
  Workspaces,    \* paths of workspaces
  Children,      \* the workspaces right below a workspace
  None,          \* the empty string: no workspace
  Files,         \* what the kubeconfig can hold
  Outages,       \* sets of workspaces whose lists can fail together
  Callers,       \* goroutines of tool and prompt calls
  Sought,        \* bound: workspaces they ask for by name, besides the default one
  Steady,        \* workspaces and outages hold still from the walk of a reset to Watch
  MaxWrites,     \* bound: changes of the kubeconfig, over a behaviour
  MaxChanges     \* bound: changes of the workspaces and outages, over a behaviour

\* A kubeconfig: whether it names a workspace, has no current context, points
\* at a server without workspaces, or cannot be loaded; the address and the
\* workspace of its current context; the workspaces its clusters name.
Kubeconfig == [kind: {"usable", "contextless", "foreign", "unreadable"},
               server: Servers, workspace: Workspaces, named: SUBSET Workspaces]

ASSUME KcpAssumption ==
  /\ Children \in [Workspaces -> SUBSET Workspaces]
  /\ None \notin Workspaces
  /\ Files \subseteq Kubeconfig
  /\ Outages \subseteq SUBSET Workspaces
  /\ Sought \subseteq Workspaces
  /\ Steady \in BOOLEAN
  /\ MaxWrites \in Nat
  /\ MaxChanges \in Nat

VARIABLES
  overlap,       \* whether a call may make a manager while a reset runs
  file,          \* the kubeconfig on disk
  writes,        \* changes of it so far
  live,          \* the workspaces there are
  failing,       \* the workspaces whose lists fail
  changes,       \* changes of both so far
  loaded,        \* p.clientCmdConfig, with the load it caches
  base,          \* p.baseServerURL
  credentials,   \* p.restConfig: the server it is for
  default,       \* p.defaultWorkspace
  managers,      \* p.managers
  root,          \* the workspace the watcher lists
  seen,          \* its lastKnownState
  watching,      \* it polls
  armed,         \* its debounce timer will fire
  step,          \* where the callback of the timer stands
  baseManager,   \* the manager a reset has made
  todo,          \* workspaces its walk has yet to list
  discovered,    \* workspaces its walk has found
  offered,       \* the targets the tools were last built for
  call,          \* where each call stands
  asked,         \* the workspace a call asks for
  draft,         \* the credentials it has copied
  got            \* the clients it got, or Nil

world == <<file, writes, live, failing, changes>>
fields == <<loaded, base, credentials, default, managers>>
watch == <<root, seen, watching, armed>>
reset == <<step, baseManager, todo, discovered, offered>>
calls == <<call, asked, draft, got>>
vars == <<overlap, world, fields, watch, reset, calls>>

\* A manager: the workspace and the server its requests go to, and the server
\* its credentials are for.
Manager == [workspace: Workspaces, server: Servers, credentials: Servers]

Nil == [workspace |-> None, server |-> None, credentials |-> None]

\* A defect: a workspace's URL is not put in the place of the current one.
ManagerOfDefault(w, s, c) == [workspace |-> root, server |-> s, credentials |-> c]

ManagerFor(w, s, c) == [workspace |-> w, server |-> s, credentials |-> c]

Targets == DOMAIN managers

\* What a List of the workspaces in w returns; nothing where it fails.
Listed(w) == IF w \in live \ failing THEN Children[w] \cap live ELSE {}

\* The workspaces that lists reach from w, and w: what DiscoverAllWorkspaces is for.
Tree(w) ==
  {v \in Workspaces : \A S \in SUBSET Workspaces :
     w \in S /\ (\A u \in S : Listed(u) \subseteq S) => v \in S}

\* The file as RawConfig returns it: a load that failed is tried again.
Raw == IF loaded.kind = "unreadable" THEN file ELSE loaded

\* A workspace is below another one only while that one is there.
Worlds == {W \in SUBSET Workspaces :
             \A w \in Workspaces : Children[w] \cap W # {} => w \in W}

Init ==
  /\ overlap \in BOOLEAN
  /\ file \in {f \in Files : f.kind = "usable"}
  /\ live \in Worlds
  /\ failing \in Outages
  /\ writes = 0 /\ changes = 0
  /\ loaded = file
  /\ base = file.server /\ credentials = file.server
  /\ default = file.workspace /\ root = file.workspace
  /\ baseManager = ManagerFor(file.workspace, file.server, file.server)
  /\ managers = [w \in Tree(default) |-> IF w = default THEN baseManager ELSE Nil]
  /\ seen = Listed(root)
  /\ watching = TRUE /\ armed = FALSE
  /\ step = "idle"
  /\ todo = {} /\ discovered = {}
  /\ offered = Targets
  /\ call = [c \in Callers |-> "idle"]
  /\ asked = [c \in Callers |-> None]
  /\ draft = [c \in Callers |-> None]
  /\ got = [c \in Callers |-> Nil]

-----------------------------------------------------------------------------
(* The kubeconfig, kcp, and the workspace watcher *)

\* The kubeconfig is written; nothing watches it.
WriteFile ==
  /\ writes < MaxWrites
  /\ step # "configure"
  /\ file' \in Files \ {file}
  /\ writes' = writes + 1
  /\ UNCHANGED <<overlap, live, failing, changes, fields, watch, reset, calls>>

\* Workspaces come and go, or the lists of some begin or cease to fail.
WorldChanges ==
  /\ changes < MaxChanges
  /\ Steady => step \notin {"walk", "fill", "close", "watch"}
  /\ \/ live' \in Worlds \ {live} /\ UNCHANGED failing
     \/ failing' \in Outages \ {failing} /\ UNCHANGED live
  /\ changes' = changes + 1
  /\ UNCHANGED <<overlap, file, writes, fields, watch, reset, calls>>

\* A poll finds other children than the last known ones.
PollDiffers ==
  /\ watching
  /\ Listed(root) # seen
  /\ ~armed
  /\ armed' = TRUE
  /\ UNCHANGED <<overlap, world, fields, root, seen, watching, reset, calls>>

\* The timer fires: reloadWithReset starts.
Fire ==
  /\ armed
  /\ step = "idle"
  /\ overlap \/ \A c \in Callers : call[c] \notin {"copy", "make"}
  /\ armed' = FALSE
  /\ step' = "load"
  /\ UNCHANGED <<overlap, world, fields, root, seen, watching, baseManager, todo, discovered,
                 offered, calls>>

-----------------------------------------------------------------------------
(* reset, and the rest of reloadWithReset *)

Goto(from, to) == step = from /\ step' = to

\* The kubeconfig is loaded, and names a workspace.
Load ==
  /\ file.kind = "usable"
  /\ Goto("load", "configure")
  /\ loaded' = file
  /\ base' = file.server
  /\ default' = file.workspace
  /\ UNCHANGED <<overlap, world, credentials, managers, watch, baseManager, todo, discovered,
                 offered, calls>>

\* It does not: the error leaves the fields that were written before it.  With
\* a server that has no workspaces these are the address and an empty default.
LoadFails ==
  /\ file.kind # "usable"
  /\ Goto("load", "idle")
  /\ loaded' = file
  /\ IF file.kind = "foreign"
     THEN base' = file.server /\ default' = None
     ELSE UNCHANGED <<base, default>>
  /\ UNCHANGED <<overlap, world, credentials, managers, watch, baseManager, todo, discovered,
                 offered, calls>>

\* p.restConfig and the base manager are made, the latter from a second load;
\* the walk starts at the default workspace.
Configure ==
  /\ Goto("configure", "walk")
  /\ credentials' = loaded.server
  /\ baseManager' = ManagerFor(file.workspace, file.server, file.server)
  /\ todo' = {default}
  /\ discovered' = {default}
  /\ UNCHANGED <<overlap, world, loaded, base, default, managers, watch, offered, calls>>

\* A defect: the children found are not walked in their turn.
ListChildrenOnly(w) ==
  /\ step = "walk"
  /\ w \in todo
  /\ discovered' = discovered \cup Listed(w)
  /\ todo' = todo \ {w}
  /\ UNCHANGED <<overlap, world, fields, watch, step, baseManager, offered, calls>>

\* DiscoverWorkspacesRecursive for one workspace.  A list that fails is skipped,
\* and the walk goes on with the others.
ListChildren(w) ==
  /\ step = "walk"
  /\ w \in todo
  /\ discovered' = discovered \cup Listed(w)
  /\ todo' = (todo \ {w}) \cup (Listed(w) \ discovered)
  /\ UNCHANGED <<overlap, world, fields, watch, step, baseManager, offered, calls>>

\* The walk is over: an empty map is stored in p.managers.
StoreManagers ==
  /\ todo = {}
  /\ Goto("walk", "fill")
  /\ managers' = [w \in {} |-> Nil]
  /\ UNCHANGED <<overlap, world, loaded, base, credentials, default, watch, baseManager, todo,
                 discovered, offered, calls>>

\* p.managers[ws] = nil for a workspace of the list.
FillOne(w) ==
  /\ step = "fill"
  /\ w \in discovered \ Targets
  /\ managers' = [v \in Targets \cup {w} |-> IF v = w THEN Nil ELSE managers[v]]
  /\ UNCHANGED <<overlap, world, loaded, base, credentials, default, watch, reset, calls>>

\* All are there: the default workspace gets the base manager.
FillDefault ==
  /\ discovered \subseteq Targets
  /\ Goto("fill", "close")
  /\ managers' = [managers EXCEPT ![default] = baseManager]
  /\ UNCHANGED <<overlap, world, loaded, base, credentials, default, watch, baseManager, todo,
                 discovered, offered, calls>>

\* Close of the old watchers, and new ones for the default workspace.
ReplaceWatchers ==
  /\ Goto("close", "watch")
  /\ root' = baseManager.workspace
  /\ watching' = FALSE
  /\ armed' = FALSE
  /\ UNCHANGED <<overlap, world, fields, seen, baseManager, todo, discovered, offered, calls>>

\* A defect: the new watchers are not started.
ForgetWatching ==
  /\ Goto("watch", "reload")
  /\ UNCHANGED <<overlap, world, fields, watch, baseManager, todo, discovered, offered, calls>>

\* WatchTargets: the watcher takes what it lists now for known.
StartWatching ==
  /\ Goto("watch", "reload")
  /\ seen' = Listed(root)
  /\ watching' = TRUE
  /\ UNCHANGED <<overlap, world, fields, root, armed, baseManager, todo, discovered, offered,
                 calls>>

\* reload: the tools are built for the targets there are (ToolReload).
Reload ==
  /\ Goto("reload", "idle")
  /\ offered' = Targets
  /\ discovered' = {}
  /\ UNCHANGED <<overlap, world, fields, watch, baseManager, todo, calls>>

-----------------------------------------------------------------------------
(* GetDerivedKubernetes and managerForWorkspace *)

\* A call asks for a workspace, or for none and so for the default one.
Ask(c) ==
  /\ call[c] = "idle"
  /\ \E w \in Sought \cup {default} : asked' = [asked EXCEPT ![c] = w]
  /\ call' = [call EXCEPT ![c] = "lookup"]
  /\ UNCHANGED <<overlap, world, fields, watch, reset, draft, got>>

\* There is a manager: the call runs with it.
Found(c) ==
  /\ call[c] = "lookup"
  /\ asked[c] \in Targets
  /\ managers[asked[c]] # Nil
  /\ got' = [got EXCEPT ![c] = managers[asked[c]]]
  /\ call' = [call EXCEPT ![c] = "running"]
  /\ UNCHANGED <<overlap, world, fields, watch, reset, asked, draft>>

\* The workspace is known and has none.
Missing(c) ==
  /\ call[c] = "lookup"
  /\ asked[c] \in Targets
  /\ managers[asked[c]] = Nil
  /\ overlap \/ step = "idle"
  /\ call' = [call EXCEPT ![c] = "copy"]
  /\ UNCHANGED <<overlap, world, fields, watch, reset, asked, draft, got>>

\* p.restConfig is copied.
Copy(c) ==
  /\ call[c] = "copy"
  /\ draft' = [draft EXCEPT ![c] = credentials]
  /\ call' = [call EXCEPT ![c] = "make"]
  /\ UNCHANGED <<overlap, world, fields, watch, reset, asked, got>>

\* The copy gets the URL of the workspace, the manager is made and stored, in
\* the map that is there now.
Make(c) ==
  LET m == ManagerFor(asked[c], base, draft[c]) IN
    /\ call[c] = "make"
    /\ Raw.kind # "unreadable"
    /\ Raw.kind = "contextless" => asked[c] \in Raw.named
    /\ managers' = [w \in Targets \cup {asked[c]} |-> IF w = asked[c] THEN m ELSE managers[w]]
    /\ loaded' = Raw
    /\ got' = [got EXCEPT ![c] = m]
    /\ draft' = [draft EXCEPT ![c] = None]
    /\ call' = [call EXCEPT ![c] = "running"]
    /\ UNCHANGED <<overlap, world, base, credentials, default, watch, reset, asked>>

\* What the call had is gone with it.
Forget(c) ==
  /\ call' = [call EXCEPT ![c] = "idle"]
  /\ asked' = [asked EXCEPT ![c] = None]
  /\ draft' = [draft EXCEPT ![c] = None]
  /\ got' = [got EXCEPT ![c] = Nil]

\* The workspace is not found, or the kubeconfig cannot be loaded.
Refuse(c) ==
  /\ \/ call[c] = "lookup" /\ asked[c] \notin Targets
     \/ call[c] = "make" /\ Raw.kind = "unreadable"
  /\ Forget(c)
  /\ UNCHANGED <<overlap, world, fields, watch, reset>>

\* No context of the file names the workspace, and there is no current one to
\* copy: findOrCreateWorkspaceContext dereferences nil.
Panic(c) ==
  /\ call[c] = "make"
  /\ Raw.kind = "contextless"
  /\ asked[c] \notin Raw.named
  /\ loaded' = Raw
  /\ call' = [call EXCEPT ![c] = "panic"]
  /\ UNCHANGED <<overlap, world, base, credentials, default, managers, watch, reset, asked,
                 draft, got>>

\* The call is over.
Return(c) ==
  /\ call[c] \in {"running", "panic"}
  /\ Forget(c)
  /\ UNCHANGED <<overlap, world, fields, watch, reset>>

Walk == \E w \in Workspaces : ListChildren(w) \/ FillOne(w)

Callback ==
  \/ Fire \/ Load \/ LoadFails \/ Configure \/ Walk \/ StoreManagers \/ FillDefault
  \/ ReplaceWatchers \/ StartWatching \/ Reload

Call(c) ==
  \/ Ask(c) \/ Found(c) \/ Missing(c) \/ Copy(c) \/ Make(c) \/ Refuse(c) \/ Panic(c)
  \/ Return(c)

Next ==
  \/ WriteFile
  \/ WorldChanges
  \/ PollDiffers
  \/ Callback
  \/ \E c \in Callers : Call(c)

\* The watcher polls, its timer fires whatever calls do meanwhile, a reset that has
\* started goes on, and so does a call that is making a manager.  A list is taken to
\* end, if only with an error: neither the walk nor the watcher sets a timeout, so
\* that it is for the server and the connection to end one that is not answered.
Fairness ==
  /\ WF_vars(PollDiffers)
  /\ SF_vars(Fire)
  /\ WF_vars(Callback)
  /\ \A c \in Callers : WF_vars(Copy(c) \/ Make(c) \/ Refuse(c) \/ Panic(c))

Spec == Init /\ [][Next]_vars

FairSpec == Spec /\ Fairness

-----------------------------------------------------------------------------
(* Properties *)

\* Every variable has its type, and a call that runs has clients.
TypeOK ==
  /\ overlap \in BOOLEAN
  /\ file \in Files /\ loaded \in Files
  /\ writes \in 0..MaxWrites /\ changes \in 0..MaxChanges
  /\ live \in Worlds /\ failing \in Outages
  /\ base \in Servers /\ credentials \in Servers
  /\ default \in Workspaces \cup {None} /\ root \in Workspaces
  /\ Targets \subseteq Workspaces
  /\ \A w \in Targets : managers[w] \in Manager \cup {Nil}
  /\ seen \subseteq Workspaces
  /\ watching \in BOOLEAN /\ armed \in BOOLEAN
  /\ step \in {"idle", "load", "configure", "walk", "fill", "close", "watch", "reload"}
  /\ baseManager \in Manager
  /\ todo \subseteq Workspaces /\ discovered \subseteq Workspaces
  /\ offered \subseteq Workspaces
  /\ call \in [Callers -> {"idle", "lookup", "copy", "make", "running", "panic"}]
  /\ asked \in [Callers -> Workspaces \cup {None}]
  /\ draft \in [Callers -> Servers \cup {None}]
  /\ got \in [Callers -> Manager \cup {Nil}]
  /\ \A c \in Callers : call[c] = "running" => got[c] \in Manager

\* A call runs against the workspace it asked for, though resets replace the
\* fields it reads while it makes its manager.
RightWorkspace == \A c \in Callers : call[c] = "running" => got[c].workspace = asked[c]

\* When a reset has walked the workspaces, its targets are what lists reach from
\* the default one, as deep as it goes and past those that fail, and nothing that
\* was there before.  Unless a call puts its manager into the new map.
TargetsExact == step = "watch" /\ ~overlap => Targets = Tree(default)

\* When the kubeconfig ends up usable, the tools end up being offered for the
\* children that the watched workspace has, though lists failed, the kubeconfig
\* was broken and repaired, or a reset was under way when they came.
ChildrenOffered == <>[](file.kind = "usable" => Listed(root) \subseteq offered)

\* The same of the whole tree ("recursively discovers nested workspaces").
TreeOffered == <>[](file.kind = "usable" => Tree(root) \subseteq offered)

\* "The provider will still function using kubeconfig-based discovery" when
\* workspaces cannot be listed: the targets are those the kubeconfig names.
FallsBack == step = "watch" /\ Steady /\ default \in failing => loaded.named \subseteq Targets

\* What a manager presents are the credentials for the server it talks to.
RightServer == \A c \in Callers : call[c] = "running" => got[c].server = got[c].credentials

\* No call dereferences nil.
CallsSurvive == \A c \in Callers : call[c] # "panic"

(* The safety properties, made inductive.                                  *)

Resetting == {"configure", "walk", "fill", "close", "watch"}

\* A call that makes a manager has a workspace, and the credentials for it.
CallsReady ==
  \A c \in Callers : /\ call[c] \in {"copy", "make"} => asked[c] \in Workspaces
                     /\ call[c] = "make" => draft[c] \in Servers

\* A reset that has loaded the kubeconfig has the workspace it names, in its
\* default and in its base manager, though it loads the file a second time.
OneDefault ==
  /\ step \in Resetting => default \in Workspaces
  /\ step = "configure" => file.kind = "usable" /\ default = file.workspace
  /\ step \in Resetting \ {"configure"} => /\ baseManager.workspace = default
                                           /\ default \in discovered

\* A manager is for the workspace it is found under.
ManagersOwn == \A w \in Targets : managers[w] # Nil => managers[w].workspace = w

\* What the walk has found is below the default workspace; what it has found
\* and listed has its children found too.
WalkSound ==
  step \in Resetting \ {"configure"} =>
    /\ todo \subseteq discovered /\ discovered \subseteq Tree(default)
    /\ \A w \in discovered \ todo : Listed(w) \subseteq discovered
    /\ step # "walk" => todo = {}

\* Without overlap no call makes a manager while the new map is filled.
FillSound ==
  ~overlap =>
    /\ step # "idle" => \A c \in Callers : call[c] \notin {"copy", "make"}
    /\ step = "fill" => Targets \subseteq discovered
    /\ step \in {"close", "watch"} => Targets = discovered

KcpInv == CallsReady /\ OneDefault /\ ManagersOwn /\ FillSound
=============================================================================
