--------------------------- MODULE ToolReloadProofs ---------------------------
(* Safety of the tool registry, for any number of goroutines that reload,   *)
(* configurations, toolsets, tools, prompts and states of the clusters.     *)
EXTENDS ToolReload, TLAPS

\* What a toolset provides is known by its name.
LEMMA ApplicableItems ==
  ASSUME NEW c \in Configs, NEW several \in BOOLEAN, NEW ts \in c.toolsets,
         NEW w \in Worlds
  PROVE  Applicable(c, several, ts, w) \in SUBSET Items
<1>1. c.toolsets \subseteq Toolsets
  BY ReloadAssumption DEF StaticConfig
<1>2. Provides[ts][w] \in SUBSET Items
  BY <1>1, ReloadAssumption
<1> QED
  BY <1>2 DEF Applicable

\* What is offered are tools and prompts.
LEMMA OfferedItems ==
  ASSUME NEW c \in Configs, NEW w \in Worlds
  PROVE  Offered(c, w) \in SUBSET Items
<1>1. c.prompts \subseteq Items
  BY ReloadAssumption DEF StaticConfig, Items
<1>2. IsMultiTarget(w) \in BOOLEAN
  BY DEF IsMultiTarget
<1>3. \A ts \in c.toolsets : Applicable(c, IsMultiTarget(w), ts, w) \subseteq Items
  BY <1>2, ApplicableItems
<1>4. UNION {Applicable(c, IsMultiTarget(w), ts, w) : ts \in c.toolsets} \subseteq Items
  BY <1>3
<1> QED
  BY <1>1, <1>4 DEF Offered

\* Every variable keeps its type, also when reloads overlap.
THEOREM ReloadTypeOK == Spec => []TypeOK
<1> USE ReloadAssumption
<1>1. Init => TypeOK
  <2> SUFFICES ASSUME Init PROVE TypeOK
    OBVIOUS
  <2>1. InitialConfig.toolsets \subseteq Toolsets
    BY DEF StaticConfig
  <2>2. enabled \in SUBSET Items
    BY OfferedItems DEF Init
  <2> QED
    BY <2>1, <2>2 DEF Init, TypeOK, Places
<1>2. TypeOK /\ [Next]_vars => TypeOK'
  <2> SUFFICES ASSUME TypeOK, [Next]_vars
               PROVE  TypeOK'
    OBVIOUS
  <2> USE DEF TypeOK, Places, Goto
  <2>1. CASE WorldChanges
    BY <2>1 DEF WorldChanges, local
  <2>2. CASE \E c \in Configs : ReloadConfiguration(c)
    BY <2>2 DEF ReloadConfiguration
  <2>3. ASSUME NEW r \in Reloaders, WatcherReloads(r)
        PROVE  TypeOK'
    BY <2>3 DEF WatcherReloads
  <2>4. ASSUME NEW r \in Reloaders, Step(r)
        PROVE  TypeOK'
    <3>0. config.toolsets \subseteq Toolsets /\ config.prompts \subseteq Prompts
      BY DEF StaticConfig
    <3>1. CASE ReadTarget(r)
      BY <3>1 DEF ReadTarget, IsMultiTarget
    <3>2. CASE ToolsetsCached(r)
      BY <3>2 DEF ToolsetsCached
    <3>3. CASE ToolsetsMissing(r)
      BY <3>0, <3>3 DEF ToolsetsMissing
    <3>4. CASE FillOne(r)
      BY <3>4 DEF FillOne
    <3>5. CASE FillDone(r)
      BY <3>5 DEF FillDone
    <3>6. CASE CollectOne(r)
      <4>1. PICK ts \in todo[r] :
              /\ todo' = [todo EXCEPT ![r] = @ \ {ts}]
              /\ want' = [want EXCEPT ![r] =
                   @ \cup (Applicable(config, multi[r], ts, world) \cap KindOf(kind[r]))]
        BY <3>6 DEF CollectOne
      <4>2. Applicable(config, multi[r], ts, world) \cap KindOf(kind[r]) \subseteq Items
        BY DEF KindOf, Items
      <4> QED
        BY <3>6, <4>1, <4>2 DEF CollectOne
    <3>7. CASE ToolsCollected(r)
      BY <3>7 DEF ToolsCollected
    <3>8. CASE PromptsCollected(r)
      BY <3>0, <3>8 DEF PromptsCollected, Items
    <3>9. CASE ReadPrevious(r)
      BY <3>9 DEF ReadPrevious
    <3>10. CASE RemoveItems(r)
      BY <3>10 DEF RemoveItems
    <3>11. CASE Register(r)
      BY <3>11 DEF Register
    <3>12. CASE ToolsRegistered(r)
      BY <3>12 DEF ToolsRegistered
    <3>13. CASE PromptsRegistered(r)
      BY <3>13 DEF PromptsRegistered
    <3>14. CASE Assign(r)
      BY <3>14 DEF Assign
    <3> QED
      BY <2>4, <3>1, <3>2, <3>3, <3>4, <3>5, <3>6, <3>7, <3>8, <3>9, <3>10, <3>11,
         <3>12, <3>13, <3>14 DEF Step
  <2>5. CASE UNCHANGED vars
    BY <2>5 DEF vars, local
  <2> QED
    BY <2>1, <2>2, <2>3, <2>4, <2>5 DEF Next
<1> QED
  BY <1>1, <1>2, PTL DEF Spec

-----------------------------------------------------------------------------
(* What the passes collect *)

\* Nothing is found in no toolset.
LEMMA ShareEmpty == ASSUME NEW c, NEW w, NEW k PROVE Share(c, w, k, {}) = {}
  BY DEF Share

\* What is offered is found by a pass over the tools and one over the prompts.
LEMMA OfferedShares ==
  ASSUME NEW c \in Configs, NEW w \in Worlds
  PROVE  Offered(c, w) = Share(c, w, "tool", c.toolsets)
           \cup Share(c, w, "prompt", c.toolsets) \cup c.prompts
<1> DEFINE U == UNION {Applicable(c, IsMultiTarget(w), t, w) : t \in c.toolsets}
<1>1. U \subseteq Offered(c, w)
  BY DEF Offered
<1>2. U \subseteq Tools \cup Prompts
  BY <1>1, OfferedItems DEF Items
<1>3. Share(c, w, "tool", c.toolsets) = U \cap Tools
  BY DEF Share, KindOf
<1>4. Share(c, w, "prompt", c.toolsets) = U \cap Prompts
  BY DEF Share, KindOf
<1>5. Offered(c, w) = U \cup c.prompts
  BY DEF Offered
<1> HIDE DEF U
<1> QED
  BY <1>2, <1>3, <1>4, <1>5

-----------------------------------------------------------------------------
(* The steps of a reload *)

\* The items registered stay between the ones enabled and the ones wanted.
LEMMA ApplyStep ==
  ASSUME TypeOK, NEW r \in Reloaders, ApplyInv(r), Step(r)
  PROVE  pc'[r] # "idle" => ApplyInv(r)'
<1> USE ReloadAssumption DEF TypeOK, Places, ApplyInv, Goto, KindOf, Items
<1>1. CASE ReadTarget(r)
  BY <1>1 DEF ReadTarget
<1>2. CASE ToolsetsCached(r) \/ ToolsetsMissing(r)
  BY <1>2 DEF ToolsetsCached, ToolsetsMissing
<1>3. CASE FillOne(r) \/ FillDone(r)
  BY <1>3 DEF FillOne, FillDone
<1>4. CASE CollectOne(r)
  BY <1>4 DEF CollectOne
<1>5. CASE ToolsCollected(r) \/ PromptsCollected(r)
  BY <1>5 DEF ToolsCollected, PromptsCollected
<1>6. CASE ReadPrevious(r)
  BY <1>6 DEF ReadPrevious
<1>7. CASE RemoveItems(r)
  BY <1>7 DEF RemoveItems
<1>8. CASE Register(r)
  BY <1>8 DEF Register
<1>9. CASE ToolsRegistered(r)
  BY <1>9 DEF ToolsRegistered
<1>10. CASE PromptsRegistered(r)
  <2>1. /\ pc[r] = "register" /\ kind[r] = "prompt" /\ pending[r] = {} /\ pc'[r] = "assign"
        /\ UNCHANGED <<enabled, registered, want, previous>>
    BY <1>10 DEF PromptsRegistered
  <2>2. /\ registered \cap Prompts \subseteq want[r] /\ want[r] \cap Prompts \subseteq registered
        /\ registered \cap Tools = want[r] \cap Tools
    BY <2>1
  <2>3. registered = want[r]
    BY <2>2
  <2>4. previous[r] = enabled
    BY <2>1
  <2> QED
    BY <2>1, <2>3, <2>4
<1>11. CASE Assign(r)
  BY <1>11 DEF Assign
<1> QED
  BY <1>1, <1>2, <1>3, <1>4, <1>5, <1>6, <1>7, <1>8, <1>9, <1>10, <1>11 DEF Step

\* The shared list of toolsets stays the configuration's, or on its way there,
\* when only one reload fills it.
LEMMA CacheStep ==
  ASSUME TypeOK, CacheInv, NEW r \in Reloaders, Step(r),
         \A q \in Reloaders : q # r => pc[q] = "idle"
  PROVE  CacheInv'
<1> USE DEF TypeOK, Places, CacheInv, Goto
<1>1. CASE ReadTarget(r)
  BY <1>1 DEF ReadTarget
<1>2. CASE ToolsetsCached(r) \/ ToolsetsMissing(r)
  BY <1>2 DEF ToolsetsCached, ToolsetsMissing
<1>3. CASE FillOne(r)
  BY <1>3 DEF FillOne
<1>4. CASE FillDone(r)
  BY <1>4 DEF FillDone
<1>5. CASE CollectOne(r) \/ ToolsCollected(r) \/ PromptsCollected(r)
  BY <1>5 DEF CollectOne, ToolsCollected, PromptsCollected
<1>6. CASE ReadPrevious(r) \/ RemoveItems(r) \/ Register(r)
  BY <1>6 DEF ReadPrevious, RemoveItems, Register
<1>7. CASE ToolsRegistered(r) \/ PromptsRegistered(r) \/ Assign(r)
  BY <1>7 DEF ToolsRegistered, PromptsRegistered, Assign
<1> QED
  BY <1>1, <1>2, <1>3, <1>4, <1>5, <1>6, <1>7 DEF Step

\* While no change of the world overtakes it, a reload collects what the
\* configuration and the world offer.
LEMMA CollectStep ==
  ASSUME TypeOK, CacheInv, NEW r \in Reloaders, CollectInv(r), Step(r),
         \A q \in Reloaders : q # r => pc[q] = "idle"
  PROVE  CollectInv(r)'
<1> USE ReloadAssumption DEF TypeOK, Places, CollectInv, Collected, Goto
<1>1. CASE ReadTarget(r)
  BY <1>1 DEF ReadTarget
<1>2. CASE ToolsetsCached(r)
  BY <1>2 DEF ToolsetsCached, CacheInv
<1>3. CASE ToolsetsMissing(r)
  BY <1>3 DEF ToolsetsMissing
<1>4. CASE FillOne(r)
  BY <1>4 DEF FillOne
<1>5. CASE FillDone(r)
  <2>1. toolsets = config.toolsets
    <3>1. pc[r] = "fill" /\ todo[r] = {}
      BY <1>5 DEF FillDone
    <3>2. toolsets \cup todo[r] = config.toolsets
      BY <3>1 DEF CacheInv
    <3> QED
      BY <3>1, <3>2
  <2> QED
    BY <1>5, <2>1 DEF FillDone
<1>6. CASE CollectOne(r)
  <2>1. PICK ts \in todo[r] :
          /\ todo' = [todo EXCEPT ![r] = @ \ {ts}]
          /\ want' = [want EXCEPT ![r] =
               @ \cup (Applicable(config, multi[r], ts, world) \cap KindOf(kind[r]))]
    BY <1>6 DEF CollectOne
  <2>2. multi[r] = IsMultiTarget(world)
    BY <1>6 DEF CollectOne
  <2>3. Share(config, world, kind[r], todo[r]) =
          (Applicable(config, multi[r], ts, world) \cap KindOf(kind[r]))
             \cup Share(config, world, kind[r], todo[r] \ {ts})
    <3>1. Applicable(config, multi[r], ts, world) =
            Applicable(config, IsMultiTarget(world), ts, world)
      BY <2>2 DEF Applicable
    <3>2. Share(config, world, kind[r], todo[r]) =
            (Applicable(config, IsMultiTarget(world), ts, world) \cap KindOf(kind[r]))
               \cup Share(config, world, kind[r], todo[r] \ {ts})
      BY <2>1 DEF Share
    <3> QED
      BY <3>1, <3>2
  <2> QED
    BY <1>6, <2>1, <2>3 DEF CollectOne
<1>7. CASE ToolsCollected(r)
  <2>1. /\ pc[r] = "collect" /\ kind[r] = "tool" /\ todo[r] = {}
        /\ pc'[r] = "toolsets" /\ kind'[r] = "prompt"
        /\ UNCHANGED <<config, world, multi, want>>
    BY <1>7 DEF ToolsCollected
  <2>2. Share(config, world, kind[r], todo[r]) = {}
    BY <2>1, ShareEmpty
  <2>3. want[r] = Share(config, world, "tool", config.toolsets)
    BY <2>1, <2>2
  <2> QED
    BY <2>1, <2>3
<1>8. CASE PromptsCollected(r)
  BY <1>8, ShareEmpty, OfferedShares DEF PromptsCollected
<1>9. CASE ReadPrevious(r) \/ RemoveItems(r) \/ Register(r)
  BY <1>9 DEF ReadPrevious, RemoveItems, Register
<1>10. CASE ToolsRegistered(r) \/ PromptsRegistered(r) \/ Assign(r)
  BY <1>10 DEF ToolsRegistered, PromptsRegistered, Assign
<1> QED
  BY <1>1, <1>2, <1>3, <1>4, <1>5, <1>6, <1>7, <1>8, <1>9, <1>10 DEF Step

-----------------------------------------------------------------------------
(* The invariant of reloads that do not overlap *)

LEMMA SerialInitially == Init => SerialInv
<1> SUFFICES ASSUME Init PROVE SerialInv
  OBVIOUS
<1>1. \A r \in Reloaders : pc[r] = "idle"
  BY DEF Init
<1> QED
  BY <1>1 DEF Init, SerialInv, CacheInv, SettledExact, AllIdle

\* A step of the one reload that runs.
LEMMA SerialStepOne ==
  ASSUME TypeOK, SerialInv, NEW r \in Reloaders, Step(r)
  PROVE  SerialInv'
<1>1. /\ pc[r] # "idle"
      /\ \A q \in Reloaders : q # r => pc[q] = "idle" /\ pc'[q] = "idle"
      /\ stale' = stale
  <2>1. pc[r] # "idle"
    BY DEF Step, Goto, ReadTarget, ToolsetsCached, ToolsetsMissing, FillOne, FillDone,
           CollectOne, ToolsCollected, PromptsCollected, ReadPrevious, RemoveItems,
           Register, ToolsRegistered, PromptsRegistered, Assign
  <2>2. \A q \in Reloaders : q # r => pc[q] = "idle"
    BY <2>1 DEF SerialInv
  <2>3. \A q \in Reloaders : q # r => pc'[q] = pc[q]
    BY DEF TypeOK, Step, Goto, ReadTarget, ToolsetsCached, ToolsetsMissing, FillOne,
           FillDone, CollectOne, ToolsCollected, PromptsCollected, ReadPrevious,
           RemoveItems, Register, ToolsRegistered, PromptsRegistered, Assign
  <2>4. stale' = stale
    BY DEF Step, ReadTarget, ToolsetsCached, ToolsetsMissing, FillOne, FillDone,
           CollectOne, ToolsCollected, PromptsCollected, ReadPrevious, RemoveItems,
           Register, ToolsRegistered, PromptsRegistered, Assign
  <2> QED
    BY <2>1, <2>2, <2>3, <2>4
<1>2. CacheInv'
  BY <1>1, CacheStep DEF SerialInv
<1>3. pc'[r] # "idle" => ApplyInv(r)'
  BY <1>1, ApplyStep DEF SerialInv
<1>4. ~stale => CollectInv(r)'
  BY <1>1, CollectStep DEF SerialInv
<1>5. CASE pc'[r] = "idle"
  <2>1. Assign(r)
    BY <1>1, <1>5 DEF TypeOK, Step, Goto, ReadTarget, ToolsetsCached, ToolsetsMissing,
           FillOne, FillDone, CollectOne, ToolsCollected, PromptsCollected, ReadPrevious,
           RemoveItems, Register, ToolsRegistered, PromptsRegistered
  <2>2. registered = want[r]
    BY <1>1, <2>1 DEF Assign, Goto, SerialInv, ApplyInv
  <2>3. ~stale => want[r] = Offered(config, world)
    BY <1>1, <2>1 DEF Assign, Goto, SerialInv, CollectInv
  <2>4. AllIdle'
    BY <1>1, <1>5 DEF AllIdle
  <2> QED
    BY <1>1, <1>2, <1>5, <2>1, <2>2, <2>3, <2>4 DEF SerialInv, SettledExact, AllIdle, Assign
<1>6. CASE pc'[r] # "idle"
  <2>1. ~AllIdle'
    BY <1>6 DEF AllIdle
  <2> QED
    BY <1>1, <1>2, <1>3, <1>4, <2>1 DEF SerialInv, SettledExact
<1> QED
  BY <1>5, <1>6

LEMMA SerialStep ==
  ASSUME ~Concurrent
  PROVE  TypeOK /\ SerialInv /\ [Next]_vars => SerialInv'
<1> SUFFICES ASSUME TypeOK, SerialInv, [Next]_vars
             PROVE  SerialInv'
  OBVIOUS
<1>1. CASE WorldChanges
  BY <1>1 DEF WorldChanges, local, SerialInv, SettledExact, AllIdle, CacheInv, ApplyInv
<1>2. ASSUME NEW c \in Configs, ReloadConfiguration(c)
      PROVE  SerialInv'
  <2>1. /\ \A q \in Reloaders : pc[q] = "idle"
        /\ pc'[Sighup] = "target"
        /\ \A q \in Reloaders : q # Sighup => pc'[q] = "idle"
    BY <1>2, ReloadAssumption DEF ReloadConfiguration, AllIdle, Goto, TypeOK
  <2> QED
    BY <1>2, <2>1, ReloadAssumption DEF ReloadConfiguration, AllIdle, SerialInv, CacheInv,
       ApplyInv, CollectInv, SettledExact
<1>3. ASSUME NEW r \in Reloaders, WatcherReloads(r)
      PROVE  SerialInv'
  <2>1. /\ \A q \in Reloaders : pc[q] = "idle"
        /\ pc'[r] = "target"
        /\ \A q \in Reloaders : q # r => pc'[q] = "idle"
    BY <1>3 DEF WatcherReloads, AllIdle, Goto, TypeOK
  <2> QED
    BY <1>3, <2>1 DEF WatcherReloads, AllIdle, SerialInv, CacheInv, ApplyInv, CollectInv,
       SettledExact
<1>4. ASSUME NEW r \in Reloaders, Step(r)
      PROVE  SerialInv'
  BY <1>4, SerialStepOne
<1>5. CASE UNCHANGED vars
  BY <1>5 DEF vars, local, SerialInv, SettledExact, AllIdle, CacheInv, ApplyInv, CollectInv,
     Collected
<1> QED
  BY <1>1, <1>2, <1>3, <1>4, <1>5 DEF Next

\* Between reloads that do not overlap, clients find exactly what the
\* configuration and the clusters call for.
THEOREM ReloadSettledExact ==
  ASSUME ~Concurrent
  PROVE  Spec => []SettledExact
<1>1. TypeOK /\ SerialInv /\ [Next]_vars => SerialInv'
  BY SerialStep
<1>2. SerialInv => SettledExact
  BY DEF SerialInv
<1> QED
  BY <1>1, <1>2, SerialInitially, ReloadTypeOK, PTL DEF Spec

-----------------------------------------------------------------------------
(* Reloads that do not overlap implement the abstract registry *)

LEMMA TargetOfOne ==
  ASSUME NEW r \in Reloaders, pc[r] \in {"remove", "register", "assign"},
         \A q \in Reloaders : q # r => pc[q] = "idle"
  PROVE  Target = want[r]
<1>1. Applying = {r}
  BY DEF Applying
<1>2. (CHOOSE q \in Applying : TRUE) = r
  BY <1>1
<1> QED
  BY <1>1, <1>2 DEF Target

LEMMA TargetOfNone ==
  ASSUME \A q \in Reloaders : pc[q] \notin {"remove", "register", "assign"}
  PROVE  Target = enabled
<1>1. Applying = {}
  BY DEF Applying
<1> QED
  BY <1>1 DEF Target

\* The server starts with what it advertises.
LEMMA RegistryInitially == Init => Registry!Init
<1> SUFFICES ASSUME Init PROVE Registry!Init
  OBVIOUS
<1>1. Target = enabled
  BY TargetOfNone DEF Init
<1>2. enabled \in SUBSET Items
  BY ReloadAssumption, OfferedItems DEF Init
<1> QED
  BY <1>1, <1>2 DEF Init, Registry!Init

\* A step that leaves the SDK, the lists and the target alone stutters.
LEMMA RegistryStutter ==
  ASSUME registered' = registered, enabled' = enabled, Target' = Target
  PROVE  [Registry!Next]_(Registry!vars)
BY DEF Registry!vars

\* One step of a reload withdraws, offers, begins, finishes or stutters.
LEMMA RegistryStepOne ==
  ASSUME TypeOK, TypeOK', SerialInv, NEW r \in Reloaders, Step(r)
  PROVE  [Registry!Next]_(Registry!vars)
<1> DEFINE Busy == {"remove", "register", "assign"}
<1>1. /\ pc[r] # "idle"
      /\ \A q \in Reloaders : q # r => pc[q] = "idle" /\ pc'[q] = "idle"
  <2>1. pc[r] # "idle"
    BY DEF Step, Goto, ReadTarget, ToolsetsCached, ToolsetsMissing, FillOne, FillDone,
           CollectOne, ToolsCollected, PromptsCollected, ReadPrevious, RemoveItems,
           Register, ToolsRegistered, PromptsRegistered, Assign
  <2>2. \A q \in Reloaders : q # r => pc'[q] = pc[q]
    BY DEF TypeOK, Step, Goto, ReadTarget, ToolsetsCached, ToolsetsMissing, FillOne,
           FillDone, CollectOne, ToolsCollected, PromptsCollected, ReadPrevious,
           RemoveItems, Register, ToolsRegistered, PromptsRegistered, Assign
  <2> QED
    BY <2>1, <2>2 DEF SerialInv
<1>2. ApplyInv(r)
  BY <1>1 DEF SerialInv
<1>3. IF pc[r] \in Busy THEN Target = want[r] ELSE Target = enabled
  BY <1>1, TargetOfOne, TargetOfNone
<1>4. IF pc'[r] \in Busy THEN Target' = want'[r] ELSE Target' = enabled'
  <2>1. pc'[r] \in Busy => Applying' = {r}
    BY <1>1 DEF Applying
  <2>2. pc'[r] \notin Busy => Applying' = {}
    BY <1>1 DEF Applying
  <2> QED
    BY <2>1, <2>2 DEF Target
<1>5. CASE ReadTarget(r) \/ ToolsetsCached(r) \/ ToolsetsMissing(r) \/ FillOne(r)
             \/ FillDone(r) \/ CollectOne(r) \/ ToolsCollected(r) \/ PromptsCollected(r)
  <2>1. /\ registered' = registered /\ enabled' = enabled
        /\ pc[r] \notin Busy /\ pc'[r] \notin Busy
    BY <1>5 DEF TypeOK, Goto, ReadTarget, ToolsetsCached, ToolsetsMissing, FillOne,
           FillDone, CollectOne, ToolsCollected, PromptsCollected
  <2> QED
    BY <1>3, <1>4, <2>1, RegistryStutter
<1>6. CASE ReadPrevious(r)
  <2>1. /\ registered' = registered /\ enabled' = enabled
        /\ pc[r] \notin Busy /\ pc'[r] \in Busy /\ want' = want
    BY <1>6 DEF TypeOK, Goto, ReadPrevious
  <2>2. want'[r] \in SUBSET Items
    BY DEF TypeOK
  <2> QED
    BY <1>3, <1>4, <2>1, <2>2 DEF Registry!Next, Registry!Begin
<1>7. CASE RemoveItems(r)
  <2>1. /\ enabled' = enabled /\ pc[r] \in Busy /\ pc'[r] \in Busy /\ want' = want
        /\ registered' \subseteq registered
        /\ registered \cap want[r] \subseteq registered'
    BY <1>7 DEF TypeOK, Goto, RemoveItems
  <2> QED
    BY <1>3, <1>4, <2>1 DEF Registry!Next, Registry!Withdraw
<1>8. CASE Register(r)
  <2>1. /\ enabled' = enabled /\ pc[r] \in Busy /\ pc'[r] \in Busy /\ want' = want
        /\ registered \subseteq registered'
        /\ registered' \subseteq registered \cup want[r]
    BY <1>8 DEF TypeOK, Register
  <2> QED
    BY <1>3, <1>4, <2>1 DEF Registry!Next, Registry!Offer
<1>9. CASE ToolsRegistered(r) \/ PromptsRegistered(r)
  <2>1. /\ registered' = registered /\ enabled' = enabled
        /\ pc[r] \in Busy /\ pc'[r] \in Busy /\ want' = want
    BY <1>9 DEF TypeOK, Goto, ToolsRegistered, PromptsRegistered
  <2> QED
    BY <1>3, <1>4, <2>1, RegistryStutter
<1>10. CASE Assign(r)
  <2>1. /\ registered' = registered /\ enabled' = want[r]
        /\ pc[r] \in Busy /\ pc'[r] \notin Busy
        /\ registered = want[r]
    BY <1>2, <1>10 DEF TypeOK, Goto, Assign, ApplyInv
  <2> QED
    BY <1>3, <1>4, <2>1 DEF Registry!Next, Registry!Finish
<1> QED
  BY <1>5, <1>6, <1>7, <1>8, <1>9, <1>10 DEF Step

\* Every step of reloads that do not overlap is one of the registry, or none.
LEMMA RegistryStep ==
  ASSUME ~Concurrent
  PROVE  TypeOK /\ TypeOK' /\ SerialInv /\ [Next]_vars => [Registry!Next]_(Registry!vars)
<1> SUFFICES ASSUME TypeOK, TypeOK', SerialInv, [Next]_vars
             PROVE  [Registry!Next]_(Registry!vars)
  OBVIOUS
<1>1. CASE WorldChanges \/ UNCHANGED vars
  <2>1. registered' = registered /\ enabled' = enabled /\ pc' = pc /\ want' = want
    BY <1>1 DEF WorldChanges, vars, local
  <2>2. Applying' = Applying
    BY <2>1 DEF Applying
  <2>3. Target' = Target
    <3> DEFINE Some(S) == CHOOSE q \in S : TRUE
    <3>1. Target = IF Applying = {} THEN enabled ELSE want[Some(Applying)]
      BY DEF Target
    <3>2. Target' = IF Applying' = {} THEN enabled' ELSE want'[Some(Applying')]
      BY DEF Target
    <3> HIDE DEF Some
    <3> QED
      BY <2>1, <2>2, <3>1, <3>2
  <2> QED
    BY <2>1, <2>3, RegistryStutter
<1>2. CASE \/ \E c \in Configs : ReloadConfiguration(c)
           \/ \E r \in Reloaders : WatcherReloads(r)
  <2>1. /\ Applying = {} /\ Applying' = {}
        /\ registered' = registered /\ enabled' = enabled
    BY <1>2 DEF ReloadConfiguration, WatcherReloads, Applying, AllIdle, Goto, TypeOK
  <2> QED
    BY <2>1, RegistryStutter DEF Target
<1>3. CASE \E r \in Reloaders : Step(r)
  BY <1>3, RegistryStepOne
<1> QED
  BY <1>1, <1>2, <1>3 DEF Next

\* While tools and prompts are replaced, a client never misses one that stays
\* and never sees one that neither set holds; the lists the server advertises
\* change only when the SDK agrees.
THEOREM ReloadImplementsRegistry ==
  ASSUME ~Concurrent
  PROVE  Spec => ImplementsRegistry
<1>1. TypeOK /\ SerialInv /\ [Next]_vars => SerialInv'
  BY SerialStep
<1>2. TypeOK /\ TypeOK' /\ SerialInv /\ [Next]_vars => [Registry!Next]_(Registry!vars)
  BY RegistryStep
<1> QED
  BY <1>1, <1>2, SerialInitially, RegistryInitially, ReloadTypeOK, PTL
     DEF Spec, ImplementsRegistry, Registry!Spec
=============================================================================
