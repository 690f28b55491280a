-------------------------- MODULE KubeProviderProofs --------------------------
(* Safety of the cluster providers, for any contexts, kubeconfigs, calls and *)
(* callbacks.                                                                 *)
EXTENDS KubeProvider, FiniteSetTheorems, TLAPS

\* A kubeconfig that resolves to a context of its own makes a manager.
LEMMA ConnectMakes ==
  ASSUME TypeOK, NEW c \in Contexts \cup {None}, Connects(file, c)
  PROVE  Connect(c) \in Manager /\ Connect(c) # Absent
<1>1. Resolve(file, c) \in Contexts
  BY ProviderAssumption DEF TypeOK, Kubeconfig, Connects
<1>2. version \in 0..MaxWrites
  BY DEF TypeOK
<1> QED
  BY <1>1, <1>2, ProviderAssumption DEF Connect, Manager, Absent

LEMMA ResolveType ==
  ASSUME NEW f \in Files, NEW c \in Contexts \cup {None}
  PROVE  Resolve(f, c) \in Contexts \cup {None}
<1>1. f.contexts \subseteq Contexts /\ f.current \in Contexts \cup {None}
  BY ProviderAssumption DEF Kubeconfig
<1>2. CASE c = None /\ f.current = None /\ Cardinality(f.contexts) = 1
  <2>1. f.contexts # {}
    BY <1>2, FS_EmptySet
  <2>2. (CHOOSE only \in f.contexts : TRUE) \in f.contexts
    BY <2>1
  <2> QED
    BY <1>1, <1>2, <2>2 DEF Resolve
<1>3. CASE ~(c = None /\ f.current = None /\ Cardinality(f.contexts) = 1)
  BY <1>1, <1>3 DEF Resolve
<1> QED
  BY <1>2, <1>3

LEMMA InitialType == Init => TypeOK
<1> SUFFICES ASSUME Init PROVE TypeOK
  OBVIOUS
<1> USE ProviderAssumption
<1>1. version = 0 /\ version \in 0..MaxWrites
  BY DEF Init
<1>2. Resolve(file, None) \in Contexts
  BY DEF Init, Connects, Kubeconfig
<1>3. Connect(None) \in Manager
  BY <1>1, <1>2 DEF Connect, Manager
<1>4. file.contexts \subseteq Contexts
  BY DEF Init, Kubeconfig
<1>5. /\ Targets \in SUBSET (Contexts \cup {None})
      /\ \A t \in Targets : managers[t] \in Manager \cup {Absent}
      /\ default \in Contexts \cup {None}
  BY <1>2, <1>3, <1>4 DEF Init, Targets, Installed
<1> QED
  BY <1>1, <1>5 DEF Init, TypeOK

\* Every variable keeps its type, whenever the file is written.
THEOREM ProviderTypeOK == Spec => []TypeOK
<1>1. TypeOK /\ [Next]_vars => TypeOK'
  <2> SUFFICES ASSUME TypeOK, [Next]_vars
               PROVE  TypeOK'
    OBVIOUS
  <2> USE ProviderAssumption DEF Goto, provider, watch, calls
  <2>0. file.contexts \subseteq Contexts
    BY DEF TypeOK, Kubeconfig
  <2>1. CASE WriteFile
    BY <2>1 DEF WriteFile, TypeOK, Targets
  <2>2. CASE TakeEvent
    BY <2>2 DEF TakeEvent, TypeOK, Targets
  <2>3. ASSUME NEW r \in Callbacks, Callback(r)
        PROVE  TypeOK'
    <3>1. CASE Fire(r) \/ ReplaceWatchers(r) \/ StartWatching(r) \/ Reload(r)
      BY <3>1 DEF Fire, ReplaceWatchers, StartWatching, Reload, TypeOK, Targets
    <3>2. CASE ResolveContext(r)
      <4>1. Resolve(file, None) \in Contexts \cup {None}
        BY ResolveType DEF TypeOK
      <4> QED
        BY <3>2, <4>1 DEF ResolveContext, TypeOK, Targets
    <3>3. CASE ResetFails(r)
      BY <3>3 DEF ResetFails, TypeOK, Targets
    <3>4. CASE Install(r)
      <4> DEFINE m == [context |-> resolved[r], version |-> version]
      <4>1. m \in Manager
        BY <2>0, <3>4 DEF Install, Manager, TypeOK
      <4>2. Resolve(file, None) \in Contexts \cup {None}
        BY ResolveType DEF TypeOK
      <4>3. /\ Targets' \in SUBSET (Contexts \cup {None})
            /\ \A t \in Targets' : managers'[t] \in Manager \cup {Absent}
            /\ default' \in Contexts \cup {None}
        <5>1. CASE strategy = "kubeconfig"
          BY <2>0, <3>4, <4>1, <4>2, <5>1 DEF Install, Installed, Targets
        <5>2. CASE strategy # "kubeconfig"
          BY <3>4, <4>1, <5>2 DEF Install, Targets, TypeOK
        <5> QED
          BY <5>1, <5>2
      <4> QED
        BY <3>4, <4>3 DEF Install, TypeOK
    <3> QED
      BY <2>3, <3>1, <3>2, <3>3, <3>4 DEF Callback
  <2>4. ASSUME NEW c \in Callers, Call(c)
        PROVE  TypeOK'
    <3>1. CASE Ask(c)
      BY <3>1 DEF Ask, TypeOK, Targets
    <3>2. CASE Found(c)
      BY <3>2 DEF Found, TypeOK, Targets, Has
    <3>3. CASE Missing(c)
      BY <3>3 DEF Missing, TypeOK, Targets
    <3>4. CASE Make(c)
      <4>1. Connect(asked[c]) \in Manager
        BY <3>4, ConnectMakes DEF Make, TypeOK
      <4>2. /\ Targets' \in SUBSET (Contexts \cup {None})
            /\ \A t \in Targets' : managers'[t] \in Manager \cup {Absent}
        BY <3>4, <4>1 DEF Make, TypeOK, Targets
      <4> QED
        BY <3>4, <4>1, <4>2 DEF Make, TypeOK
    <3>5. CASE Refuse(c) \/ Panic(c) \/ Return(c)
      BY <3>5 DEF Refuse, Panic, Return, TypeOK, Targets
    <3> QED
      BY <2>4, <3>1, <3>2, <3>3, <3>4, <3>5 DEF Call
  <2>5. CASE UNCHANGED vars
    BY <2>5 DEF vars, TypeOK, Targets
  <2> QED
    BY <2>1, <2>2, <2>3, <2>4, <2>5 DEF Next
<1> QED
  BY <1>1, InitialType, PTL DEF Spec

-----------------------------------------------------------------------------
(* CallsSurvive *)

LEMMA InitialDefault == Init => DefaultInv
<1> SUFFICES ASSUME Init, strategy = "kubeconfig" PROVE Has(default) /\ CallsSurvive
  BY DEF DefaultInv
<1>1. Connect(None) # Absent
  <2>1. None \notin file.contexts /\ Resolve(file, None) # None
    BY ProviderAssumption DEF Init, Connects, Kubeconfig
  <2> QED
    BY <2>1 DEF Connect, Absent
<1> QED
  BY <1>1 DEF Init, Has, Targets, Installed, CallsSurvive

\* A reset replaces the managers at once, and only by ones that include a
\* manager for the default context; one that fails leaves them.
LEMMA DefaultKept ==
  ASSUME TypeOK, DefaultInv, [Next]_vars
  PROVE  DefaultInv'
<1> USE DEF Goto, provider, watch, calls
<1>1. CASE WriteFile \/ TakeEvent
  BY <1>1 DEF WriteFile, TakeEvent, DefaultInv, CallsSurvive, Has, Targets
<1>2. ASSUME NEW r \in Callbacks, Callback(r)
      PROVE  DefaultInv'
  <2>1. CASE \/ Fire(r) \/ ResolveContext(r) \/ ReplaceWatchers(r) \/ StartWatching(r)
             \/ Reload(r)
    BY <2>1 DEF Fire, ResolveContext, ReplaceWatchers, StartWatching, Reload, DefaultInv,
                CallsSurvive, Has, Targets
  <2>2. CASE ResetFails(r)
    BY <2>2 DEF ResetFails, DefaultInv, CallsSurvive, Has, Targets
  <2>3. CASE Install(r)
    <3> SUFFICES ASSUME strategy = "kubeconfig"
                 PROVE  Has(default)' /\ CallsSurvive'
      BY <2>3 DEF Install, DefaultInv
    <3> DEFINE m == [context |-> resolved[r], version |-> version]
    <3>1. m # Absent
      <4>1. file.contexts \subseteq Contexts /\ resolved[r] \in file.contexts
        BY <2>3, ProviderAssumption DEF Install, TypeOK, Kubeconfig
      <4> QED
        BY <4>1, ProviderAssumption DEF Absent
    <3>2. managers' = Installed(file, default', m)
      BY <2>3 DEF Install
    <3> HIDE DEF m
    <3>3. Has(default)'
      BY <3>1, <3>2 DEF Installed, Has, Targets
    <3> QED
      BY <2>3, <3>3 DEF Install, DefaultInv, CallsSurvive
  <2> QED
    BY <1>2, <2>1, <2>2, <2>3 DEF Callback
<1>3. ASSUME NEW c \in Callers, Call(c)
      PROVE  DefaultInv'
  <2>1. CASE Ask(c) \/ Found(c) \/ Missing(c) \/ Refuse(c) \/ Return(c)
    BY <2>1 DEF Ask, Found, Missing, Refuse, Return, DefaultInv, CallsSurvive, Has, Targets,
                TypeOK
  <2>2. CASE Make(c)
    BY <2>2 DEF Make, DefaultInv, CallsSurvive, Has, Targets, TypeOK
  <2>3. CASE Panic(c)
    BY <2>3 DEF Panic, DefaultInv, CallsSurvive, Has, Targets, TypeOK
  <2> QED
    BY <1>3, <2>1, <2>2, <2>3 DEF Call
<1>4. CASE UNCHANGED vars
  BY <1>4 DEF vars, DefaultInv, CallsSurvive, Has, Targets
<1> QED
  BY <1>1, <1>2, <1>3, <1>4 DEF Next

\* Whatever the kubeconfig becomes, and whenever, no call to the provider with
\* contexts meets a nil manager.
THEOREM ProviderCallsSurvive == Spec => []CallsSurvive
<1>1. DefaultInv => CallsSurvive
  BY DEF DefaultInv, CallsSurvive
<1> QED
  BY <1>1, InitialDefault, DefaultKept, ProviderTypeOK, PTL DEF Spec

-----------------------------------------------------------------------------
(* RightCluster *)

LEMMA InitialClusters == Init => ClusterInv
<1> SUFFICES ASSUME Init, strategy = "kubeconfig" PROVE ClusterInv
  BY DEF ClusterInv
<1>1. \A t \in Targets : Has(t) /\ t # None => managers[t].context = t
  BY DEF Init, Has, Targets, Installed, Connect
<1> QED
  BY <1>1 DEF Init, ClusterInv, RightCluster

\* Managers are kept under the context they talk to.  A reset takes the name of
\* the default context from one load of the file and its cluster from another:
\* this rests on the file being the same for both.
LEMMA ClustersKept ==
  ASSUME TypeOK, ClusterInv, [Next]_vars, Whole
  PROVE  ClusterInv'
<1> SUFFICES ASSUME strategy = "kubeconfig", strategy' = "kubeconfig"
             PROVE  ClusterInv'
  BY DEF ClusterInv, Next, vars, provider, watch, calls, WriteFile, TakeEvent, Callback, Fire,
         ResolveContext, ResetFails, Install, ReplaceWatchers, StartWatching, Reload, Call,
         Ask, Found, Missing, Make, Refuse, Panic, Return
<1> USE DEF Goto, provider, watch, calls
<1>1. CASE WriteFile \/ TakeEvent
  BY <1>1 DEF WriteFile, TakeEvent, ClusterInv, RightCluster, Has, Targets
<1>2. ASSUME NEW r \in Callbacks, Callback(r)
      PROVE  ClusterInv'
  <2>1. CASE \/ Fire(r) \/ ReplaceWatchers(r) \/ StartWatching(r) \/ Reload(r)
             \/ ResetFails(r)
    BY <2>1 DEF Fire, ReplaceWatchers, StartWatching, Reload, ResetFails, ClusterInv,
                RightCluster, Has, Targets, TypeOK
  <2>2. CASE ResolveContext(r)
    BY <2>2 DEF ResolveContext, ClusterInv, RightCluster, Has, Targets, TypeOK
  <2>3. CASE Install(r)
    <3> DEFINE m == [context |-> resolved[r], version |-> version]
    <3>1. managers' = Installed(file, default', m) /\ default' = Resolve(file, None)
      BY <2>3 DEF Install
    <3>2. m.context = default'
      BY <2>3, <3>1 DEF Install, ClusterInv
    <3> HIDE DEF m
    <3>3. (\A t \in Targets : Has(t) /\ t # None => managers[t].context = t)'
      BY <3>1, <3>2 DEF Installed, Has, Targets
    <3>4. (\A q \in Callbacks : step[q] = "load" => resolved[q] = Resolve(file, None))'
      BY <2>3 DEF Install, ClusterInv, TypeOK
    <3>5. RightCluster'
      BY <2>3 DEF Install, ClusterInv, RightCluster
    <3> QED
      BY <3>3, <3>4, <3>5 DEF ClusterInv
  <2> QED
    BY <1>2, <2>1, <2>2, <2>3 DEF Callback
<1>3. ASSUME NEW c \in Callers, Call(c)
      PROVE  ClusterInv'
  <2>1. CASE Ask(c) \/ Missing(c) \/ Refuse(c) \/ Panic(c) \/ Return(c)
    BY <2>1 DEF Ask, Missing, Refuse, Panic, Return, ClusterInv, RightCluster, Has, Targets,
                TypeOK
  <2>2. CASE Found(c)
    BY <2>2 DEF Found, ClusterInv, RightCluster, Has, Targets, TypeOK
  <2>3. CASE Make(c)
    <3>1. asked[c] # None => Connect(asked[c]).context = asked[c]
      BY DEF Connect, Resolve
    <3>2. (\A t \in Targets : Has(t) /\ t # None => managers[t].context = t)'
      BY <2>3, <3>1 DEF Make, ClusterInv, Has, Targets
    <3>3. RightCluster'
      BY <2>3, <3>1 DEF Make, ClusterInv, RightCluster, TypeOK
    <3> QED
      BY <2>3, <3>2, <3>3 DEF Make, ClusterInv
  <2> QED
    BY <1>3, <2>1, <2>2, <2>3 DEF Call
<1>4. CASE UNCHANGED vars
  BY <1>4 DEF vars, ClusterInv, RightCluster, Has, Targets
<1> QED
  BY <1>1, <1>2, <1>3, <1>4 DEF Next

\* A call that names a context runs against its cluster, if the kubeconfig does
\* not change between the two loads of a reset.
THEOREM ProviderRightCluster == ASSUME Whole PROVE Spec => []RightCluster
<1>1. ClusterInv => RightCluster
  BY DEF ClusterInv, RightCluster
<1>2. TypeOK /\ ClusterInv /\ [Next]_vars => ClusterInv'
  BY ClustersKept, Whole
<1> QED
  BY <1>1, <1>2, InitialClusters, ProviderTypeOK, PTL DEF Spec
=============================================================================
