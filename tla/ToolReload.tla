------------------------------ MODULE ToolReload ------------------------------
(***************************************************************************)
(* mcp.Server: how the tools and prompts registered with the MCP SDK       *)
(* follow the configuration and the clusters.  reloadToolsets is called by *)
(* the SIGHUP goroutine (through ReloadConfiguration), by the callback of  *)
(* the kubeconfig watcher and by that of the cluster state watcher.  Each  *)
(* call collects the items that apply, compares them with those it         *)
(* enabled before, removes and adds items in the SDK, and records the      *)
(* result.  Server.mu covers single reads and writes; no lock spans a      *)
(* reload, and Configuration is read without any.                          *)
(*                                                                         *)
(* Tools and prompts are items.  A pass over the tools precedes a pass     *)
(* over the prompts, when they are collected and again when they are       *)
(* applied.  An item stands for the name under which it is registered.  The *)
(* order of the toolsets decides nothing here, so lists of them are sets.  *)
(***************************************************************************)
EXTENDS Naturals, FiniteSets

CONSTANTS
  Reloaders,     \* the goroutines that call reloadToolsets
  Sighup,        \* the one that handles SIGHUP
  Concurrent,    \* whether reloads may overlap
  Configs,       \* the configurations the files can hold
  InitialConfig, \* the one the server starts with
  Toolsets,      \* the toolsets
  Worlds,        \* what the provider can show of the clusters
  MultiTarget,   \* the worlds with several targets
  Tools,         \* the tools of all toolsets
  Prompts,       \* the prompts of all toolsets and configurations
  TargetLists,   \* the tools that list the targets
  ReadOnlyHint,  \* the tools annotated as read-only
  Destructive,   \* the tools annotated as destructive
  Provides,      \* toolset -> world -> its tools and prompts
  MaxReloads     \* bound: SIGHUPs and changes of the world, over a behaviour

Items == Tools \cup Prompts

\* config.StaticConfig, as far as it decides what is offered.  A list of
\* enabled tools that is absent is all of them, one of disabled tools none.
StaticConfig ==
  [toolsets: SUBSET Toolsets, readOnly: BOOLEAN, disableDestructive: BOOLEAN,
   enabledTools: SUBSET Tools, disabledTools: SUBSET Tools, prompts: SUBSET Prompts]

ASSUME ReloadAssumption ==
  /\ Sighup \in Reloaders
  /\ Concurrent \in BOOLEAN
  /\ Configs \subseteq StaticConfig
  /\ InitialConfig \in Configs
  /\ MultiTarget \subseteq Worlds
  /\ Tools \cap Prompts = {}
  /\ Provides \in [Toolsets -> [Worlds -> SUBSET Items]]
  /\ MaxReloads \in Nat

VARIABLES
  config,        \* s.configuration.StaticConfig
  toolsets,      \* s.configuration.toolsets: empty when nil
  world,         \* what the provider shows
  stale,         \* the world changed and no reload has started since
  enabled,       \* s.enabledTools and s.enabledPrompts
  registered,    \* the items in the SDK's server
  reloads,       \* SIGHUPs and changes of the world so far
  pc,            \* where each reload stands
  kind,          \* the pass it is in: "tool" or "prompt"
  multi,         \* IsMultiTarget, as the filter captured it
  todo,          \* toolsets still to resolve or to visit
  want,          \* the applicable items collected
  previous,      \* the enabled items it started from
  pending        \* items it has still to register

local == <<pc, kind, multi, todo, want, previous, pending>>
vars == <<config, toolsets, world, stale, enabled, registered, reloads, local>>

KindOf(k) == IF k = "tool" THEN Tools ELSE Prompts

isToolApplicable(c, tool) ==
  /\ c.readOnly => tool \in ReadOnlyHint
  /\ c.disableDestructive => tool \notin Destructive
  /\ tool \in c.enabledTools
  /\ tool \notin c.disabledTools

\* The tools that list targets are offered only where there are several.
ShouldIncludeTargetListTool(several, tool) == tool \in TargetLists => several

\* IsMultiTarget of the provider.
IsMultiTarget(w) == w \in MultiTarget

\* The items of one toolset that apply; prompts are not filtered.
Applicable(c, several, ts, w) ==
  {i \in Provides[ts][w] :
     i \in Tools => isToolApplicable(c, i) /\ ShouldIncludeTargetListTool(several, i)}

\* What a reload is meant to leave behind: the applicable items of every
\* toolset, and the prompts of the configuration.
Offered(c, w) ==
  (UNION {Applicable(c, IsMultiTarget(w), ts, w) : ts \in c.toolsets}) \cup c.prompts

Goto(r, from, to) == pc[r] = from /\ pc' = [pc EXCEPT ![r] = to]

AllIdle == \A r \in Reloaders : pc[r] = "idle"

\* NewServer has built the first set of items.
Init ==
  /\ config = InitialConfig
  /\ toolsets = InitialConfig.toolsets
  /\ world \in Worlds
  /\ stale = FALSE
  /\ enabled = Offered(InitialConfig, world)
  /\ registered = enabled
  /\ reloads = 0
  /\ pc = [r \in Reloaders |-> "idle"]
  /\ kind = [r \in Reloaders |-> "tool"]
  /\ multi = [r \in Reloaders |-> FALSE]
  /\ todo = [r \in Reloaders |-> {}]
  /\ want = [r \in Reloaders |-> {}]
  /\ previous = [r \in Reloaders |-> {}]
  /\ pending = [r \in Reloaders |-> {}]

-----------------------------------------------------------------------------
(* What starts a reload *)

\* A kubeconfig or a cluster changes; the watcher that sees it will reload.
WorldChanges ==
  /\ reloads < MaxReloads
  /\ reloads' = reloads + 1
  /\ world' \in Worlds \ {world}
  /\ stale' = TRUE
  /\ UNCHANGED <<config, toolsets, enabled, registered, local>>

\* The callback of a watcher.
WatcherReloads(r) ==
  /\ r # Sighup
  /\ stale
  /\ Concurrent \/ AllIdle
  /\ stale' = FALSE
  /\ Goto(r, "idle", "target")
  /\ UNCHANGED <<config, toolsets, world, enabled, registered, reloads, kind, multi,
                 todo, want, previous, pending>>

\* A defect: the resolved toolsets of the old configuration are kept.
ReloadConfigurationCached(c) ==
  /\ reloads < MaxReloads
  /\ Concurrent \/ AllIdle
  /\ reloads' = reloads + 1
  /\ config' = c
  /\ Goto(Sighup, "idle", "target")
  /\ UNCHANGED <<toolsets, world, stale, enabled, registered, kind, multi, todo, want,
                 previous, pending>>

\* ReloadConfiguration with a configuration that passes Validate.  One that
\* does not is rejected before anything changes.
ReloadConfiguration(c) ==
  /\ reloads < MaxReloads
  /\ Concurrent \/ AllIdle
  /\ reloads' = reloads + 1
  /\ config' = c
  /\ toolsets' = {}
  /\ Goto(Sighup, "idle", "target")
  /\ UNCHANGED <<world, stale, enabled, registered, kind, multi, todo, want, previous,
                 pending>>

-----------------------------------------------------------------------------
(* collectApplicableTools and collectApplicablePrompts *)

\* A defect: the filters of the last reload are kept.
KeepTarget(r) ==
  /\ Goto(r, "target", "toolsets")
  /\ kind' = [kind EXCEPT ![r] = "tool"]
  /\ want' = [want EXCEPT ![r] = {}]
  /\ UNCHANGED <<config, toolsets, world, stale, enabled, registered, reloads, multi,
                 todo, previous, pending>>

\* The filters and mutators are built: IsMultiTarget is read once.
ReadTarget(r) ==
  /\ Goto(r, "target", "toolsets")
  /\ multi' = [multi EXCEPT ![r] = IsMultiTarget(world)]
  /\ kind' = [kind EXCEPT ![r] = "tool"]
  /\ want' = [want EXCEPT ![r] = {}]
  /\ UNCHANGED <<config, toolsets, world, stale, enabled, registered, reloads, todo,
                 previous, pending>>

\* Configuration.Toolsets: a list that is there is returned as it is ...
ToolsetsCached(r) ==
  /\ toolsets # {}
  /\ Goto(r, "toolsets", "collect")
  /\ todo' = [todo EXCEPT ![r] = toolsets]
  /\ UNCHANGED <<config, toolsets, world, stale, enabled, registered, reloads, kind,
                 multi, want, previous, pending>>

\* ... and one that is nil is filled from the configuration.
ToolsetsMissing(r) ==
  /\ toolsets = {}
  /\ Goto(r, "toolsets", "fill")
  /\ todo' = [todo EXCEPT ![r] = config.toolsets]
  /\ UNCHANGED <<config, toolsets, world, stale, enabled, registered, reloads, kind,
                 multi, want, previous, pending>>

\* One append of the loop that fills it, to the list all reloads share.
FillOne(r) ==
  /\ pc[r] = "fill"
  /\ \E ts \in todo[r] :
       /\ toolsets' = toolsets \cup {ts}
       /\ todo' = [todo EXCEPT ![r] = @ \ {ts}]
  /\ UNCHANGED <<config, world, stale, enabled, registered, reloads, pc, kind, multi,
                 want, previous, pending>>

\* Toolsets returns what the shared list holds now.
FillDone(r) ==
  /\ todo[r] = {}
  /\ Goto(r, "fill", "collect")
  /\ todo' = [todo EXCEPT ![r] = toolsets]
  /\ UNCHANGED <<config, toolsets, world, stale, enabled, registered, reloads, kind,
                 multi, want, previous, pending>>

\* GetTools (or GetPrompts) of one toolset, filtered with the configuration
\* as it is now.
CollectOne(r) ==
  /\ pc[r] = "collect"
  /\ \E ts \in todo[r] :
       /\ todo' = [todo EXCEPT ![r] = @ \ {ts}]
       /\ want' = [want EXCEPT ![r] =
            @ \cup (Applicable(config, multi[r], ts, world) \cap KindOf(kind[r]))]
  /\ UNCHANGED <<config, toolsets, world, stale, enabled, registered, reloads, pc, kind,
                 multi, previous, pending>>

\* The tools are collected; the prompts come next, from Toolsets once more.
ToolsCollected(r) ==
  /\ kind[r] = "tool"
  /\ todo[r] = {}
  /\ Goto(r, "collect", "toolsets")
  /\ kind' = [kind EXCEPT ![r] = "prompt"]
  /\ UNCHANGED <<config, toolsets, world, stale, enabled, registered, reloads, multi,
                 todo, want, previous, pending>>

\* The prompts of the configuration are merged over those of the toolsets.
PromptsCollected(r) ==
  /\ kind[r] = "prompt"
  /\ todo[r] = {}
  /\ Goto(r, "collect", "previous")
  /\ want' = [want EXCEPT ![r] = @ \cup config.prompts]
  /\ UNCHANGED <<config, toolsets, world, stale, enabled, registered, reloads, kind,
                 multi, todo, previous, pending>>

-----------------------------------------------------------------------------
(* reloadItems, for the tools and then for the prompts *)

\* The enabled lists are read together, under the read lock.
ReadPrevious(r) ==
  /\ Goto(r, "previous", "remove")
  /\ previous' = [previous EXCEPT ![r] = enabled]
  /\ kind' = [kind EXCEPT ![r] = "tool"]
  /\ UNCHANGED <<config, toolsets, world, stale, enabled, registered, reloads, multi,
                 todo, want, pending>>

\* A defect: all items are taken out before the new ones are put in.
RemoveAll(r) ==
  /\ Goto(r, "remove", "register")
  /\ registered' = registered \ (previous[r] \cap KindOf(kind[r]))
  /\ pending' = [pending EXCEPT ![r] = want[r] \cap KindOf(kind[r])]
  /\ UNCHANGED <<config, toolsets, world, stale, enabled, reloads, kind, multi, todo,
                 want, previous>>

\* One call of RemoveTools or RemovePrompts with all that no longer apply.
RemoveItems(r) ==
  /\ Goto(r, "remove", "register")
  /\ registered' = registered \ ((previous[r] \ want[r]) \cap KindOf(kind[r]))
  /\ pending' = [pending EXCEPT ![r] = want[r] \cap KindOf(kind[r])]
  /\ UNCHANGED <<config, toolsets, world, stale, enabled, reloads, kind, multi, todo,
                 want, previous>>

\* One call of AddTool or AddPrompt; registering a name again replaces it.
Register(r) ==
  /\ pc[r] = "register"
  /\ \E i \in pending[r] :
       /\ registered' = registered \cup {i}
       /\ pending' = [pending EXCEPT ![r] = @ \ {i}]
  /\ UNCHANGED <<config, toolsets, world, stale, enabled, reloads, pc, kind, multi, todo,
                 want, previous>>

ToolsRegistered(r) ==
  /\ kind[r] = "tool"
  /\ pending[r] = {}
  /\ Goto(r, "register", "remove")
  /\ kind' = [kind EXCEPT ![r] = "prompt"]
  /\ UNCHANGED <<config, toolsets, world, stale, enabled, registered, reloads, multi,
                 todo, want, previous, pending>>

PromptsRegistered(r) ==
  /\ kind[r] = "prompt"
  /\ pending[r] = {}
  /\ Goto(r, "register", "assign")
  /\ UNCHANGED <<config, toolsets, world, stale, enabled, registered, reloads, kind,
                 multi, todo, want, previous, pending>>

\* The new lists are stored under the write lock, and the reload ends.
Assign(r) ==
  /\ Goto(r, "assign", "idle")
  /\ enabled' = want[r]
  /\ UNCHANGED <<config, toolsets, world, stale, registered, reloads, kind, multi, todo,
                 want, previous, pending>>

Step(r) ==
  \/ ReadTarget(r) \/ ToolsetsCached(r) \/ ToolsetsMissing(r) \/ FillOne(r)
  \/ FillDone(r) \/ CollectOne(r) \/ ToolsCollected(r) \/ PromptsCollected(r)
  \/ ReadPrevious(r) \/ RemoveItems(r) \/ Register(r) \/ ToolsRegistered(r)
  \/ PromptsRegistered(r) \/ Assign(r)

Next ==
  \/ WorldChanges
  \/ \E c \in Configs : ReloadConfiguration(c)
  \/ \E r \in Reloaders : WatcherReloads(r) \/ Step(r)

\* A reload that has started goes on, and a watcher that has seen a change
\* calls back; nothing makes a signal arrive.
Fairness ==
  /\ \A r \in Reloaders : WF_vars(Step(r))
  /\ WF_vars(\E r \in Reloaders : WatcherReloads(r))

Spec == Init /\ [][Next]_vars

FairSpec == Spec /\ Fairness

-----------------------------------------------------------------------------
(* Properties *)

Places == {"idle", "target", "toolsets", "fill", "collect", "previous", "remove",
           "register", "assign"}

\* Every variable has its type, and what a reload has still to register is of
\* the kind it is registering.
TypeOK ==
  /\ config \in Configs
  /\ toolsets \in SUBSET Toolsets
  /\ world \in Worlds
  /\ stale \in BOOLEAN
  /\ enabled \in SUBSET Items
  /\ registered \in SUBSET Items
  /\ reloads \in Nat
  /\ pc \in [Reloaders -> Places]
  /\ kind \in [Reloaders -> {"tool", "prompt"}]
  /\ multi \in [Reloaders -> BOOLEAN]
  /\ todo \in [Reloaders -> SUBSET Toolsets]
  /\ want \in [Reloaders -> SUBSET Items]
  /\ previous \in [Reloaders -> SUBSET Items]
  /\ pending \in [Reloaders -> SUBSET Items]
  /\ \A r \in Reloaders :
       pending[r] \subseteq IF pc[r] = "register" THEN want[r] \cap KindOf(kind[r]) ELSE {}

\* Between reloads, with no change of the clusters unseen, a client finds
\* exactly the tools and prompts that the configuration, its filters and the
\* clusters call for, and the server's own lists say the same.  Violated by
\* anything a reload reads too early, keeps too long or forgets to take back.
SettledExact ==
  AllIdle /\ ~stale => registered = Offered(config, world) /\ enabled = registered

\* The configuration's filters hold for what a client can call, whatever
\* reloads have run before ("When true, expose only tools annotated with
\* readOnlyHint=true").
FiltersHonoured ==
  AllIdle => \A t \in registered \cap Tools : isToolApplicable(config, t)

\* What a pass over the tools, or over the prompts, finds in some toolsets.
Share(c, w, k, S) == (UNION {Applicable(c, IsMultiTarget(w), ts, w) : ts \in S}) \cap KindOf(k)

\* What a reload has collected before the pass it is in.
Collected(r) == IF kind[r] = "tool" THEN {} ELSE Share(config, world, "tool", config.toolsets)

\* The shared list of toolsets is that of the configuration, or on its way there.
CacheInv ==
  IF \E r \in Reloaders : pc[r] = "fill"
  THEN \A r \in Reloaders : pc[r] = "fill" => toolsets \cup todo[r] = config.toolsets
  ELSE toolsets \in {{}, config.toolsets}

\* A reload that no change of the world has overtaken collects what it should.
CollectInv(r) ==
  /\ pc[r] \in {"toolsets", "fill", "collect"} => multi[r] = IsMultiTarget(world)
  /\ pc[r] \in {"toolsets", "fill"} => want[r] = Collected(r)
  /\ pc[r] = "collect" =>
       want[r] \cup Share(config, world, kind[r], todo[r]) =
         Collected(r) \cup Share(config, world, kind[r], config.toolsets)
  /\ pc[r] \in {"previous", "remove", "register", "assign"} =>
       want[r] = Offered(config, world)

\* How far the SDK is between the items enabled and the items wanted.
ApplyInv(r) ==
  /\ pc[r] \in {"remove", "register", "assign"} => previous[r] = enabled
  /\ pc[r] \notin {"remove", "register", "assign"} => registered = enabled
  /\ pc[r] = "remove" /\ kind[r] = "tool" => registered = enabled
  /\ pc[r] = "remove" /\ kind[r] = "prompt" =>
       registered = (want[r] \cap Tools) \cup (enabled \cap Prompts)
  /\ pc[r] = "register" =>
       LET K == KindOf(kind[r]) IN
         /\ registered \cap K \subseteq want[r]
         /\ (want[r] \cap K) \ pending[r] \subseteq registered
         /\ kind[r] = "tool" => registered \cap Prompts = enabled \cap Prompts
         /\ kind[r] = "prompt" => registered \cap Tools = want[r] \cap Tools
  /\ pc[r] = "assign" => registered = want[r]

\* SettledExact, made inductive for reloads that do not overlap.
SerialInv ==
  /\ \A r, q \in Reloaders : pc[r] # "idle" /\ pc[q] # "idle" => r = q
  /\ CacheInv
  /\ \A r \in Reloaders : pc[r] # "idle" => ApplyInv(r) /\ (~stale => CollectInv(r))
  /\ AllIdle => registered = enabled
  /\ SettledExact

\* The reload now applying its result leads to what it wants.
Applying == {r \in Reloaders : pc[r] \in {"remove", "register", "assign"}}

Target == IF Applying = {} THEN enabled ELSE want[CHOOSE r \in Applying : TRUE]

Registry == INSTANCE ToolRegistry
  WITH exposed <- registered, advertised <- enabled, target <- Target

\* A reload is an update of the abstract registry: a tool that stays enabled is
\* never missing from tools/list on the way, nothing else shows up on the way,
\* and enabledTools changes only when the SDK already agrees.
ImplementsRegistry == Registry!Spec

\* When signals and changes cease, the clients end up with the tools of the
\* last configuration and the last state of the clusters, for good.
ReloadsSettle == <>[](AllIdle /\ ~stale /\ registered = Offered(config, world))
=============================================================================
