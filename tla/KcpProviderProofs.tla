--------------------------- MODULE KcpProviderProofs ---------------------------
(* Safety of the kcp provider, for any tree of workspaces, any kubeconfigs,   *)
(* and any number of calls.                                                   *)
EXTENDS KcpProvider, TLAPS

-----------------------------------------------------------------------------
(* Kubeconfigs, managers and trees *)

LEMMA KubeconfigType ==
  ASSUME NEW f \in Files
  PROVE  f.server \in Servers /\ f.workspace \in Workspaces
  BY KcpAssumption DEF Kubeconfig

LEMMA ManagerType ==
  ASSUME NEW w \in Workspaces, NEW s \in Servers, NEW c \in Servers
  PROVE  ManagerFor(w, s, c) \in Manager /\ ManagerFor(w, s, c).workspace = w
  BY DEF ManagerFor, Manager

\* A file that failed to load is read again, and it is one of the files.
LEMMA RawType ==
  ASSUME file \in Files, loaded \in Files
  PROVE  Raw \in Files
  BY DEF Raw

LEMMA ListedType == \A w \in Workspaces : Listed(w) \subseteq Workspaces
  BY KcpAssumption DEF Listed

LEMMA TreeType ==
  ASSUME NEW w \in Workspaces
  PROVE  Tree(w) \subseteq Workspaces /\ w \in Tree(w)
  BY DEF Tree

\* The children of a workspace of the tree are in the tree.
LEMMA TreeClosed ==
  ASSUME NEW w \in Workspaces, NEW u \in Tree(w)
  PROVE  Listed(u) \subseteq Tree(w)
<1>1. u \in Workspaces
  BY DEF Tree
<1> SUFFICES ASSUME NEW v \in Listed(u) PROVE v \in Tree(w)
  OBVIOUS
<1>2. v \in Workspaces
  BY <1>1, ListedType
<1>3. ASSUME NEW S \in SUBSET Workspaces, w \in S, \A x \in S : Listed(x) \subseteq S
      PROVE  v \in S
  <2>1. u \in S
    BY <1>3 DEF Tree
  <2> QED
    BY <1>3, <2>1
<1> QED
  BY <1>2, <1>3 DEF Tree

\* The tree is the least set that has its root and the children of its own.
LEMMA TreeLeast ==
  ASSUME NEW w \in Workspaces, NEW S \in SUBSET Workspaces, w \in S,
         \A u \in S : Listed(u) \subseteq S
  PROVE  Tree(w) \subseteq S
  BY DEF Tree

-----------------------------------------------------------------------------
(* Types *)

LEMMA InitTypes == Init => TypeOK
<1> SUFFICES ASSUME Init PROVE TypeOK
  OBVIOUS
<1>1. file \in Files /\ file.server \in Servers /\ file.workspace \in Workspaces
  BY KubeconfigType DEF Init
<1>2. baseManager \in Manager
  BY <1>1, ManagerType DEF Init
<1>3. /\ Targets = Tree(default) /\ Targets \subseteq Workspaces
      /\ \A w \in Targets : managers[w] \in Manager \cup {Nil}
  BY <1>1, <1>2, TreeType DEF Init, Targets
<1>4. seen \subseteq Workspaces
  BY <1>1, ListedType DEF Init
<1>5. 0 \in 0..MaxWrites /\ 0 \in 0..MaxChanges
  BY KcpAssumption
<1>6. /\ call \in [Callers -> {"idle", "lookup", "copy", "make", "running", "panic"}]
      /\ asked \in [Callers -> Workspaces \cup {None}]
      /\ draft \in [Callers -> Servers \cup {None}]
      /\ got \in [Callers -> Manager \cup {Nil}]
      /\ \A c \in Callers : call[c] # "running"
  BY DEF Init
<1> QED
  BY <1>1, <1>2, <1>3, <1>4, <1>5, <1>6 DEF Init, TypeOK

\* The kubeconfig, the workspaces, and the watcher.
LEMMA WorldTypes ==
  ASSUME TypeOK, WriteFile \/ WorldChanges \/ PollDiffers
  PROVE  TypeOK'
<1>1. CASE WriteFile
  BY <1>1, KcpAssumption DEF WriteFile, TypeOK, Targets, fields, watch, reset, calls
<1>2. CASE WorldChanges
  <2>1. live' \in Worlds /\ failing' \in Outages
    <3>1. live \in Worlds /\ failing \in Outages
      BY DEF TypeOK
    <3>2. \/ live' \in Worlds \ {live} /\ failing' = failing
          \/ failing' \in Outages \ {failing} /\ live' = live
      BY <1>2, Zenon DEF WorldChanges
    <3> QED
      BY <3>1, <3>2, Zenon
  <2>2. changes' \in 0..MaxChanges
    BY <1>2, KcpAssumption DEF WorldChanges, TypeOK
  <2> QED
    BY <1>2, <2>1, <2>2 DEF WorldChanges, TypeOK, Targets, fields, watch, reset, calls
<1>3. CASE PollDiffers
  BY <1>3 DEF PollDiffers, TypeOK, Targets, fields, world, reset, calls
<1> QED
  BY <1>1, <1>2, <1>3

\* The callback of the timer.
LEMMA CallbackTypes ==
  ASSUME TypeOK, KcpInv, Callback
  PROVE  TypeOK'
<1> USE DEF Goto
<1>1. CASE Fire
  BY <1>1 DEF Fire, TypeOK, Targets, world, fields, calls
<1>2. CASE Load
  BY <1>2, KubeconfigType DEF Load, TypeOK, Targets, world, watch, calls
<1>3. CASE LoadFails
  BY <1>3, KubeconfigType DEF LoadFails, TypeOK, Targets, world, watch, calls
<1>4. CASE Configure
  <2>1. file \in Files /\ loaded \in Files /\ default \in Workspaces
    BY <1>4 DEF Configure, TypeOK, KcpInv, OneDefault, Resetting
  <2>2. /\ baseManager' \in Manager /\ credentials' \in Servers
        /\ todo' \subseteq Workspaces /\ discovered' \subseteq Workspaces
    BY <1>4, <2>1, KubeconfigType, ManagerType DEF Configure
  <2> QED
    BY <1>4, <2>2 DEF Configure, TypeOK, Targets, world, watch, calls
<1>5. ASSUME NEW w \in Workspaces, ListChildren(w) PROVE TypeOK'
  <2>1. Listed(w) \subseteq Workspaces
    BY ListedType
  <2> QED
    BY <1>5, <2>1 DEF ListChildren, TypeOK, Targets, world, fields, watch, calls
<1>6. ASSUME NEW w \in Workspaces, FillOne(w) PROVE TypeOK'
  <2>1. /\ Targets' \subseteq Workspaces
        /\ \A v \in Targets' : managers'[v] \in Manager \cup {Nil}
    BY <1>6 DEF FillOne, TypeOK, Targets
  <2> QED
    BY <1>6, <2>1 DEF FillOne, TypeOK, world, watch, reset, calls
<1>7. CASE StoreManagers
  <2>1. Targets' = {}
    BY <1>7 DEF StoreManagers, Targets
  <2> QED
    BY <1>7, <2>1 DEF StoreManagers, TypeOK, world, watch, calls
<1>8. CASE FillDefault
  <2>1. /\ Targets' \subseteq Workspaces
        /\ \A v \in Targets' : managers'[v] \in Manager \cup {Nil}
    BY <1>8 DEF FillDefault, TypeOK, Targets
  <2> QED
    BY <1>8, <2>1 DEF FillDefault, TypeOK, world, watch, calls
<1>9. CASE ReplaceWatchers
  BY <1>9 DEF ReplaceWatchers, TypeOK, Manager, Targets, world, fields, calls
<1>10. CASE StartWatching
  <2>1. Listed(root) \subseteq Workspaces
    BY ListedType DEF TypeOK
  <2> QED
    BY <1>10, <2>1 DEF StartWatching, TypeOK, Targets, world, fields, calls
<1>11. CASE Reload
  BY <1>11 DEF Reload, TypeOK, Targets, world, fields, watch, calls
<1> QED
  BY <1>1, <1>2, <1>3, <1>4, <1>5, <1>6, <1>7, <1>8, <1>9, <1>10, <1>11 DEF Callback, Walk

\* A call.
LEMMA CallTypes ==
  ASSUME TypeOK, KcpInv, NEW c \in Callers, Call(c)
  PROVE  TypeOK'
<1>1. CASE Ask(c)
  <2>1. asked' \in [Callers -> Workspaces \cup {None}]
    BY <1>1, KcpAssumption DEF Ask, TypeOK
  <2> QED
    BY <1>1, <2>1 DEF Ask, TypeOK, Targets, world, fields, watch, reset
<1>2. CASE Found(c)
  <2>1. managers[asked[c]] \in Manager
    BY <1>2 DEF Found, TypeOK
  <2> QED
    BY <1>2, <2>1 DEF Found, TypeOK, Targets, world, fields, watch, reset
<1>3. CASE Missing(c)
  BY <1>3 DEF Missing, TypeOK, Targets, world, fields, watch, reset
<1>4. CASE Copy(c)
  BY <1>4 DEF Copy, TypeOK, Targets, world, fields, watch, reset
<1>5. CASE Make(c)
  <2> DEFINE m == ManagerFor(asked[c], base, draft[c])
  <2>1. call[c] = "make" /\ asked[c] \in Workspaces /\ draft[c] \in Servers
    BY <1>5 DEF Make, KcpInv, CallsReady
  <2>2. m \in Manager
    BY <2>1, ManagerType DEF TypeOK
  <2>3. loaded' \in Files
    BY <1>5, RawType DEF Make, TypeOK
  <2>4. /\ managers' = [w \in Targets \cup {asked[c]} |-> IF w = asked[c] THEN m ELSE managers[w]]
        /\ got' = [got EXCEPT ![c] = m]
        /\ draft' = [draft EXCEPT ![c] = None]
        /\ call' = [call EXCEPT ![c] = "running"]
    BY <1>5 DEF Make
  <2> HIDE DEF m
  <2>5. /\ Targets' \subseteq Workspaces
        /\ \A v \in Targets' : managers'[v] \in Manager \cup {Nil}
    BY <2>1, <2>2, <2>4 DEF TypeOK, Targets
  <2>6. /\ got' \in [Callers -> Manager \cup {Nil}]
        /\ draft' \in [Callers -> Servers \cup {None}]
        /\ call' \in [Callers -> {"idle", "lookup", "copy", "make", "running", "panic"}]
        /\ \A d \in Callers : call'[d] = "running" => got'[d] \in Manager
    BY <2>2, <2>4 DEF TypeOK
  <2> QED
    BY <1>5, <2>3, <2>5, <2>6 DEF Make, TypeOK, world, watch, reset
<1>6. CASE Refuse(c)
  BY <1>6 DEF Refuse, Forget, TypeOK, Targets, world, fields, watch, reset
<1>7. CASE Panic(c)
  <2>1. loaded' \in Files
    BY <1>7, RawType DEF Panic, TypeOK
  <2> QED
    BY <1>7, <2>1 DEF Panic, TypeOK, Targets, world, watch, reset
<1>8. CASE Return(c)
  BY <1>8 DEF Return, Forget, TypeOK, Targets, world, fields, watch, reset
<1> QED
  BY <1>1, <1>2, <1>3, <1>4, <1>5, <1>6, <1>7, <1>8 DEF Call

LEMMA NextTypes ==
  ASSUME TypeOK, KcpInv, [Next]_vars
  PROVE  TypeOK'
<1>1. CASE UNCHANGED vars
  BY <1>1 DEF vars, world, fields, watch, reset, calls, TypeOK, Targets
<1> QED
  BY <1>1, WorldTypes, CallbackTypes, CallTypes DEF Next

-----------------------------------------------------------------------------
(* What the parts leave alone *)

\* Only calls move calls.
LEMMA CallsMoveThemselves ==
  ASSUME WriteFile \/ WorldChanges \/ PollDiffers \/ Callback
  PROVE  UNCHANGED calls /\ overlap' = overlap
<1>1. ASSUME WriteFile \/ WorldChanges \/ PollDiffers
      PROVE  UNCHANGED calls /\ overlap' = overlap
  BY <1>1 DEF WriteFile, WorldChanges, PollDiffers
<1>2. ASSUME Callback PROVE UNCHANGED calls /\ overlap' = overlap
  BY <1>2 DEF Callback, Walk, Fire, Load, LoadFails, Configure, ListChildren, FillOne,
              StoreManagers, FillDefault, ReplaceWatchers, StartWatching, Reload
<1> QED
  BY <1>1, <1>2

\* The kubeconfig, the workspaces and the poll do not touch the provider.
LEMMA WorldMovesItself ==
  ASSUME WriteFile \/ WorldChanges \/ PollDiffers
  PROVE  UNCHANGED <<overlap, fields, reset, calls>>
  BY DEF WriteFile, WorldChanges, PollDiffers

\* A call writes no field of the provider but its managers and the load of its
\* kubeconfig, and does nothing to the reset that may be under way.
LEMMA CallsKeep ==
  ASSUME NEW c \in Callers, Call(c)
  PROVE  UNCHANGED <<overlap, world, base, credentials, default, watch, reset>>
<1>1. CASE Ask(c) \/ Found(c) \/ Missing(c) \/ Copy(c)
  BY <1>1 DEF Ask, Found, Missing, Copy, fields
<1>2. CASE Make(c)
  BY <1>2 DEF Make
<1>3. CASE Panic(c)
  BY <1>3 DEF Panic
<1>4. CASE Refuse(c) \/ Return(c)
  BY <1>4 DEF Refuse, Return, fields
<1> QED
  BY <1>1, <1>2, <1>3, <1>4 DEF Call

\* Making a manager is the only thing a call does to the managers.
LEMMA CallsKeepManagers ==
  ASSUME NEW c \in Callers, Call(c), ~ Make(c)
  PROVE  managers' = managers
<1>1. CASE Ask(c) \/ Found(c) \/ Missing(c) \/ Copy(c)
  BY <1>1 DEF Ask, Found, Missing, Copy, fields
<1>2. CASE Panic(c)
  BY <1>2 DEF Panic
<1>3. CASE Refuse(c) \/ Return(c)
  BY <1>3 DEF Refuse, Return, fields
<1> QED
  BY <1>1, <1>2, <1>3 DEF Call

-----------------------------------------------------------------------------
(* The invariant, part by part *)

LEMMA InitHolds == Init => KcpInv
<1> SUFFICES ASSUME Init PROVE KcpInv
  OBVIOUS
<1>1. file.server \in Servers /\ file.workspace \in Workspaces
  BY KubeconfigType DEF Init
<1>2. CallsReady /\ OneDefault /\ FillSound
  BY DEF Init, CallsReady, OneDefault, FillSound, Resetting
<1>3. ManagersOwn
  BY <1>1, ManagerType DEF Init, ManagersOwn, Targets
<1> QED
  BY <1>2, <1>3 DEF KcpInv

LEMMA CallsStayReady ==
  ASSUME TypeOK, KcpInv, [Next]_vars
  PROVE  CallsReady'
<1>1. CallsReady
  BY DEF KcpInv
<1>2. ASSUME UNCHANGED calls PROVE CallsReady'
  BY <1>1, <1>2 DEF CallsReady, calls
<1>3. ASSUME NEW c \in Callers, Call(c) PROVE CallsReady'
  <2>1. \A d \in Callers \ {c} : call'[d] = call[d] /\ asked'[d] = asked[d] /\ draft'[d] = draft[d]
    BY <1>3 DEF Call, Ask, Found, Missing, Copy, Make, Refuse, Panic, Return, Forget, TypeOK
  <2>2. call'[c] \in {"copy", "make"} => asked'[c] \in Workspaces
    BY <1>1, <1>3 DEF CallsReady, Call, Ask, Found, Missing, Copy, Make, Refuse, Panic, Return,
                      Forget, TypeOK
  <2>3. call'[c] = "make" => draft'[c] \in Servers
    BY <1>1, <1>3 DEF CallsReady, Call, Ask, Found, Missing, Copy, Make, Refuse, Panic, Return,
                      Forget, TypeOK
  <2> QED
    BY <1>1, <2>1, <2>2, <2>3 DEF CallsReady
<1> QED
  BY <1>2, <1>3, CallsMoveThemselves DEF Next, vars

LEMMA DefaultStaysOne ==
  ASSUME TypeOK, KcpInv, [Next]_vars
  PROVE  OneDefault'
<1>1. OneDefault
  BY DEF KcpInv
<1>2. ASSUME UNCHANGED <<step, file, default, baseManager, discovered>> PROVE OneDefault'
  BY <1>1, <1>2 DEF OneDefault, Resetting
<1>3. CASE WriteFile
  BY <1>1, <1>3 DEF WriteFile, OneDefault, Resetting, fields, reset
<1>4. ASSUME Callback PROVE OneDefault'
  <2> USE DEF Goto, OneDefault, Resetting
  <2>1. CASE Fire \/ LoadFails \/ Reload
    BY <2>1 DEF Fire, LoadFails, Reload
  <2>2. CASE Load
    BY <2>2, KubeconfigType DEF Load, TypeOK, world
  <2>3. CASE Configure
    BY <1>1, <2>3 DEF Configure, ManagerFor
  <2>4. ASSUME NEW w \in Workspaces, ListChildren(w) PROVE OneDefault'
    BY <1>1, <2>4 DEF ListChildren, fields, world
  <2>5. ASSUME NEW w \in Workspaces, FillOne(w) PROVE OneDefault'
    BY <1>1, <2>5 DEF FillOne, reset, world
  <2>6. CASE StoreManagers \/ FillDefault \/ ReplaceWatchers \/ StartWatching
    BY <1>1, <2>6 DEF StoreManagers, FillDefault, ReplaceWatchers, StartWatching, fields, world
  <2> QED
    BY <1>4, <2>1, <2>2, <2>3, <2>4, <2>5, <2>6 DEF Callback, Walk
<1>5. ASSUME WorldChanges \/ PollDiffers PROVE OneDefault'
  <2>1. file' = file
    BY <1>5 DEF WorldChanges, PollDiffers, world
  <2> QED
    BY <1>2, <1>5, <2>1, WorldMovesItself DEF fields, reset
<1>6. ASSUME NEW c \in Callers, Call(c) PROVE OneDefault'
  BY <1>2, <1>6, CallsKeep DEF world, reset
<1>7. CASE UNCHANGED vars
  BY <1>2, <1>7 DEF vars, world, fields, reset
<1> QED
  BY <1>3, <1>4, <1>5, <1>6, <1>7 DEF Next

LEMMA ManagersStayOwn ==
  ASSUME TypeOK, KcpInv, [Next]_vars
  PROVE  ManagersOwn'
<1>1. ManagersOwn
  BY DEF KcpInv
<1>2. ASSUME managers' = managers PROVE ManagersOwn'
  BY <1>1, <1>2 DEF ManagersOwn, Targets
<1>3. ASSUME Callback PROVE ManagersOwn'
  <2>1. CASE Fire \/ Load \/ LoadFails \/ Configure \/ ReplaceWatchers \/ StartWatching \/ Reload
    BY <1>2, <2>1 DEF Fire, Load, LoadFails, Configure, ReplaceWatchers, StartWatching, Reload,
                      fields
  <2>2. ASSUME NEW w \in Workspaces, ListChildren(w) PROVE ManagersOwn'
    BY <1>2, <2>2 DEF ListChildren, fields
  <2>3. ASSUME NEW w \in Workspaces, FillOne(w) PROVE ManagersOwn'
    BY <1>1, <2>3 DEF FillOne, ManagersOwn, Targets
  <2>4. CASE StoreManagers
    BY <2>4 DEF StoreManagers, ManagersOwn, Targets
  <2>5. CASE FillDefault
    <3>1. baseManager.workspace = default
      BY <2>5 DEF FillDefault, Goto, KcpInv, OneDefault, Resetting
    <3> QED
      BY <1>1, <2>5, <3>1 DEF FillDefault, ManagersOwn, Targets
  <2> QED
    BY <1>3, <2>1, <2>2, <2>3, <2>4, <2>5 DEF Callback, Walk
<1>4. ASSUME NEW c \in Callers, Call(c) PROVE ManagersOwn'
  <2>1. CASE Make(c)
    <3>1. asked[c] \in Workspaces /\ draft[c] \in Servers /\ base \in Servers
      BY <2>1 DEF Make, KcpInv, CallsReady, TypeOK
    <3>2. ManagerFor(asked[c], base, draft[c]).workspace = asked[c]
      BY <3>1, ManagerType
    <3> QED
      BY <1>1, <2>1, <3>2 DEF Make, ManagersOwn, Targets
  <2>2. CASE ~ Make(c)
    BY <1>2, <1>4, <2>2, CallsKeepManagers
  <2> QED
    BY <2>1, <2>2
<1>5. ASSUME WriteFile \/ WorldChanges \/ PollDiffers PROVE ManagersOwn'
  BY <1>2, <1>5, WorldMovesItself DEF fields
<1>6. CASE UNCHANGED vars
  BY <1>2, <1>6 DEF vars, fields
<1> QED
  BY <1>3, <1>4, <1>5, <1>6 DEF Next

LEMMA FillStaysSound ==
  ASSUME TypeOK, KcpInv, [Next]_vars
  PROVE  FillSound'
<1>1. FillSound
  BY DEF KcpInv
<1> SUFFICES ASSUME ~overlap'
             PROVE  /\ step' # "idle" => \A c \in Callers : call'[c] \notin {"copy", "make"}
                    /\ step' = "fill" => Targets' \subseteq discovered'
                    /\ step' \in {"close", "watch"} => Targets' = discovered'
  BY DEF FillSound
<1>2. ~overlap
  <2>1. overlap' = overlap
    BY CallsMoveThemselves, CallsKeep DEF Next, vars
  <2> QED
    BY <2>1, Zenon
<1>3. /\ step # "idle" => \A c \in Callers : call[c] \notin {"copy", "make"}
      /\ step = "fill" => Targets \subseteq discovered
      /\ step \in {"close", "watch"} => Targets = discovered
  BY <1>1, <1>2 DEF FillSound
<1>4. CASE Callback
  <2>1. call' = call
    BY <1>4, CallsMoveThemselves DEF calls
  <2> USE DEF Goto
  <2>2. CASE Fire
    BY <1>2, <2>1, <2>2 DEF Fire
  <2>3. CASE Load \/ LoadFails \/ Configure \/ Reload
    BY <1>3, <2>1, <2>3 DEF Load, LoadFails, Configure, Reload
  <2>4. ASSUME NEW w \in Workspaces, ListChildren(w)
        PROVE  /\ step' = "walk"
               /\ step' # "idle" => \A c \in Callers : call'[c] \notin {"copy", "make"}
    BY <1>3, <2>1, <2>4 DEF ListChildren
  <2>5. ASSUME NEW w \in Workspaces, FillOne(w)
        PROVE  /\ step' = "fill" /\ Targets' \subseteq discovered'
               /\ step' # "idle" => \A c \in Callers : call'[c] \notin {"copy", "make"}
    BY <1>3, <2>1, <2>5 DEF FillOne, Targets, reset
  <2>6. CASE StoreManagers
    BY <1>3, <2>1, <2>6 DEF StoreManagers, Targets
  <2>7. CASE FillDefault
    BY <1>3, <2>1, <2>7 DEF FillDefault, Targets
  <2>8. CASE ReplaceWatchers \/ StartWatching
    BY <1>3, <2>1, <2>8 DEF ReplaceWatchers, StartWatching, fields, Targets
  <2> QED
    BY <1>4, <2>2, <2>3, <2>4, <2>5, <2>6, <2>7, <2>8 DEF Callback, Walk
<1>5. ASSUME NEW c \in Callers, Call(c)
      PROVE  /\ step' # "idle" => \A d \in Callers : call'[d] \notin {"copy", "make"}
             /\ step' = "fill" => Targets' \subseteq discovered'
             /\ step' \in {"close", "watch"} => Targets' = discovered'
  <2>1. step' = step /\ discovered' = discovered
    BY <1>5, CallsKeep DEF reset
  <2>2. CASE step = "idle"
    BY <2>1, <2>2
  <2>3. CASE step # "idle"
    <3>1. call[c] \notin {"copy", "make"}
      BY <1>3, <2>3
    <3>2. ~ Make(c) /\ ~ Copy(c) /\ ~ Missing(c)
      BY <1>2, <2>3, <3>1 DEF Make, Copy, Missing
    <3>3. managers' = managers
      BY <1>5, <3>2, CallsKeepManagers
    <3>4. /\ call'[c] \notin {"copy", "make"}
          /\ \A d \in Callers \ {c} : call'[d] = call[d]
      BY <1>5, <3>2 DEF Call, Ask, Found, Refuse, Panic, Return, Forget, TypeOK
    <3> QED
      BY <1>3, <2>1, <2>3, <3>3, <3>4 DEF Targets
  <2> QED
    BY <2>2, <2>3
<1>6. CASE WriteFile \/ WorldChanges \/ PollDiffers
  BY <1>3, <1>6, WorldMovesItself DEF fields, reset, calls, Targets
<1>7. CASE UNCHANGED vars
  BY <1>3, <1>7 DEF vars, fields, reset, calls, Targets
<1> QED
  BY <1>4, <1>5, <1>6, <1>7 DEF Next

LEMMA KcpNextKeeps ==
  ASSUME TypeOK, KcpInv, [Next]_vars
  PROVE  TypeOK' /\ KcpInv'
  BY NextTypes, CallsStayReady, DefaultStaysOne, ManagersStayOwn, FillStaysSound DEF KcpInv

-----------------------------------------------------------------------------
(* The walk of the workspaces *)

\* The tree is as it was when the workspaces, outages and the default are.
LEMMA TreeStays ==
  ASSUME UNCHANGED <<live, failing, default>>
  PROVE  /\ \A w \in Workspaces : Listed(w)' = Listed(w)
         /\ Tree(default)' = Tree(default)
<1>1. \A w : Listed(w)' = Listed(w)
  BY DEF Listed
<1> QED
  BY <1>1 DEF Tree

LEMMA WalkStaysSound ==
  ASSUME Steady, TypeOK, KcpInv, WalkSound, [Next]_vars
  PROVE  WalkSound'
<1>1. TypeOK' /\ KcpInv'
  BY KcpNextKeeps
<1>2. ASSUME UNCHANGED <<live, failing, default, todo, discovered>>,
             step' = step \/ (step = "walk" /\ todo = {} /\ step' = "fill")
                          \/ (step \in Resetting \ {"configure", "walk"} /\ step' # "walk")
                          \/ step' \notin Resetting \ {"configure"}
      PROVE  WalkSound'
  <2> SUFFICES ASSUME step' \in Resetting \ {"configure"}
               PROVE  /\ todo \subseteq discovered
                      /\ discovered \subseteq Tree(default)'
                      /\ \A w \in discovered \ todo : Listed(w)' \subseteq discovered
                      /\ step' # "walk" => todo = {}
    BY <1>2 DEF WalkSound
  <2>1. step \in Resetting \ {"configure"}
    BY <1>2 DEF Resetting
  <2>2. /\ todo \subseteq discovered /\ discovered \subseteq Tree(default)
        /\ \A w \in discovered \ todo : Listed(w) \subseteq discovered
        /\ step # "walk" => todo = {}
    BY <2>1 DEF WalkSound
  <2>3. Tree(default)' = Tree(default) /\ \A w \in Workspaces : Listed(w)' = Listed(w)
    BY <1>2, TreeStays
  <2>4. discovered \subseteq Workspaces
    BY DEF TypeOK
  <2> QED
    BY <1>2, <2>2, <2>3, <2>4
<1>3. CASE WorldChanges
  <2>1. step' = step /\ step \notin Resetting \ {"configure"}
    BY <1>3 DEF WorldChanges, reset, Resetting
  <2> QED
    BY <2>1 DEF WalkSound
<1>4. CASE WriteFile \/ PollDiffers
  BY <1>2, <1>4 DEF WriteFile, PollDiffers, fields, reset, world
<1>5. ASSUME NEW c \in Callers, Call(c) PROVE WalkSound'
  BY <1>2, <1>5, CallsKeep DEF world, reset
<1>6. CASE Configure
  <2>1. /\ step' = "walk" /\ todo' = {default} /\ discovered' = {default}
        /\ UNCHANGED <<live, failing, default>>
    BY <1>6 DEF Configure, Goto, world
  <2>2. default \in Workspaces
    BY <1>6 DEF Configure, Goto, KcpInv, OneDefault, Resetting
  <2>3. default \in Tree(default)'
    BY <2>1, <2>2, TreeType, TreeStays
  <2> QED
    BY <2>1, <2>3 DEF WalkSound
<1>7. ASSUME NEW w \in Workspaces, ListChildren(w) PROVE WalkSound'
  <2>1. /\ step = "walk" /\ step' = "walk" /\ w \in todo
        /\ discovered' = discovered \cup Listed(w)
        /\ todo' = (todo \ {w}) \cup (Listed(w) \ discovered)
        /\ UNCHANGED <<live, failing, default>>
    BY <1>7 DEF ListChildren, fields, world
  <2>2. /\ todo \subseteq discovered /\ discovered \subseteq Tree(default)
        /\ \A u \in discovered \ todo : Listed(u) \subseteq discovered
    BY <2>1 DEF WalkSound, Resetting
  <2>3. default \in Workspaces
    BY <2>1 DEF KcpInv, OneDefault, Resetting
  <2>4. Tree(default)' = Tree(default) /\ \A u \in Workspaces : Listed(u)' = Listed(u)
    BY <2>1, TreeStays
  <2>5. Listed(w) \subseteq Tree(default)
    BY <2>1, <2>2, <2>3, TreeClosed
  <2>6. todo' \subseteq discovered' /\ discovered' \subseteq Tree(default)'
    BY <2>1, <2>2, <2>4, <2>5
  <2>7. ASSUME NEW u \in discovered' \ todo' PROVE Listed(u)' \subseteq discovered'
    <3>1. u = w \/ u \in discovered \ todo
      BY <2>1, <2>7
    <3>2. u \in Workspaces
      BY <3>1 DEF TypeOK
    <3> QED
      BY <2>1, <2>2, <2>4, <3>1, <3>2
  <2> QED
    BY <2>1, <2>6, <2>7 DEF WalkSound
<1>8. CASE Fire \/ Load \/ LoadFails \/ Reload
  <2>1. step' \notin Resetting \ {"configure"}
    BY <1>8 DEF Fire, Load, LoadFails, Reload, Goto, Resetting
  <2> QED
    BY <2>1 DEF WalkSound
<1>9. CASE StoreManagers \/ FillDefault \/ ReplaceWatchers \/ StartWatching
  BY <1>2, <1>9 DEF StoreManagers, FillDefault, ReplaceWatchers, StartWatching, Goto, Resetting,
                    fields, world
<1>10. ASSUME NEW w \in Workspaces, FillOne(w) PROVE WalkSound'
  BY <1>2, <1>10 DEF FillOne, reset, world
<1>11. CASE UNCHANGED vars
  BY <1>2, <1>11 DEF vars, fields, reset, world
<1> QED
  BY <1>3, <1>4, <1>5, <1>6, <1>7, <1>8, <1>9, <1>10, <1>11 DEF Next, Callback, Walk

-----------------------------------------------------------------------------
(* The theorems *)

\* The state of the provider, of its watcher, of a reset and of every call has
\* its type, whatever a reset and the calls do between each other's steps: a
\* call that runs has clients (managerForWorkspace, reset).
THEOREM KcpTypes == Spec => []TypeOK
<1>1. Init => TypeOK /\ KcpInv
  BY InitTypes, InitHolds
<1>2. TypeOK /\ KcpInv /\ [Next]_vars => (TypeOK /\ KcpInv)'
  BY KcpNextKeeps
<1> QED
  BY <1>1, <1>2, PTL DEF Spec

\* What is behind the theorems below.  A reset has one default workspace all
\* along, though it loads the kubeconfig twice; a manager is for the workspace it
\* is found under; unless calls make managers meanwhile, the new map ends up with
\* what the walk has found.  And what the walk has found is reached by lists from
\* the default workspace, with the children of whatever it has listed, as long as
\* the workspaces and the outages hold still (reset, discoverWorkspaces).
THEOREM KcpInvariant == Spec => [](KcpInv /\ (Steady => WalkSound))
<1> DEFINE Inv == KcpInv /\ (Steady => WalkSound)
<1>1. Init => TypeOK /\ Inv
  BY InitTypes, InitHolds DEF Init, WalkSound, Resetting
<1>2. TypeOK /\ Inv /\ [Next]_vars => (TypeOK /\ Inv)'
  BY KcpNextKeeps, WalkStaysSound
<1> HIDE DEF Inv
<1>3. Spec => []Inv
  BY <1>1, <1>2, PTL DEF Spec
<1> QED
  BY <1>3 DEF Inv

\* A call runs against the workspace it asked for, for any tree and any number
\* of calls that race with resets, also while workspaces come and go.
THEOREM WorkspaceIsRight == Spec => []RightWorkspace
<1>1. Init => RightWorkspace
  BY DEF Init, RightWorkspace
<1>2. ASSUME TypeOK, KcpInv, RightWorkspace, [Next]_vars PROVE RightWorkspace'
  <2>1. ASSUME UNCHANGED calls PROVE RightWorkspace'
    BY <1>2, <2>1 DEF RightWorkspace, calls
  <2>2. ASSUME NEW c \in Callers, Call(c) PROVE RightWorkspace'
    <3>1. \A d \in Callers \ {c} :
            call'[d] = call[d] /\ asked'[d] = asked[d] /\ got'[d] = got[d]
      BY <1>2, <2>2 DEF Call, Ask, Found, Missing, Copy, Make, Refuse, Panic, Return, Forget,
                        TypeOK
    <3>2. CASE Found(c)
      <4>1. /\ call'[c] = "running" /\ asked'[c] = asked[c] /\ got'[c] = managers[asked[c]]
            /\ asked[c] \in Targets /\ managers[asked[c]] # Nil
        BY <1>2, <3>2 DEF Found, TypeOK
      <4>2. got'[c].workspace = asked'[c]
        BY <1>2, <4>1 DEF KcpInv, ManagersOwn
      <4> QED
        BY <1>2, <3>1, <4>2 DEF RightWorkspace
    <3>3. CASE Make(c)
      <4>1. /\ asked'[c] = asked[c] /\ got'[c] = ManagerFor(asked[c], base, draft[c])
            /\ asked[c] \in Workspaces /\ draft[c] \in Servers /\ base \in Servers
        BY <1>2, <3>3 DEF Make, TypeOK, KcpInv, CallsReady
      <4>2. got'[c].workspace = asked'[c]
        BY <4>1, ManagerType
      <4> QED
        BY <1>2, <3>1, <4>2 DEF RightWorkspace
    <3>4. CASE ~ Found(c) /\ ~ Make(c)
      <4>1. call'[c] # "running"
        BY <1>2, <2>2, <3>4 DEF Call, Ask, Missing, Copy, Refuse, Panic, Return, Forget, TypeOK
      <4> QED
        BY <1>2, <3>1, <4>1 DEF RightWorkspace
    <3> QED
      BY <3>2, <3>3, <3>4
  <2> QED
    BY <1>2, <2>1, <2>2, CallsMoveThemselves DEF Next, vars
<1> QED
  BY <1>1, <1>2, KcpTypes, KcpInvariant, PTL DEF Spec

\* A reset that is let walk workspaces that hold still ends with what lists reach
\* from its default workspace for its targets, however deep, wide or even circular
\* the children are, and whichever lists fail.
THEOREM TargetsAreExact ==
  ASSUME Steady
  PROVE  Spec => []TargetsExact
<1>1. TypeOK /\ KcpInv /\ WalkSound => TargetsExact
  <2> SUFFICES ASSUME TypeOK, KcpInv, WalkSound, step = "watch", ~overlap
               PROVE  Targets = Tree(default)
    BY DEF TargetsExact
  <2>1. default \in Workspaces /\ default \in discovered /\ discovered \subseteq Workspaces
    BY DEF TypeOK, KcpInv, OneDefault, Resetting
  <2>2. /\ todo = {} /\ discovered \subseteq Tree(default)
        /\ \A w \in discovered \ todo : Listed(w) \subseteq discovered
    BY DEF WalkSound, Resetting
  <2>3. \A w \in discovered : Listed(w) \subseteq discovered
    BY <2>2
  <2>4. Tree(default) \subseteq discovered
    BY <2>1, <2>3, TreeLeast
  <2>5. Targets = discovered
    BY DEF KcpInv, FillSound
  <2> QED
    BY <2>2, <2>4, <2>5
<1>2. Steady
  OBVIOUS
<1> QED
  BY <1>1, <1>2, KcpTypes, KcpInvariant, PTL
=============================================================================
