---- MODULE VMResolution ----
(***************************************************************************)
(* What vm_create makes of its arguments and of the data sources,          *)
(* preferences and instance types the cluster has (pkg/kubevirt/resources  *)
(* .go and pkg/toolsets/kubevirt/vm/create/tool.go).  Names are in lower   *)
(* case here; Within(p, w) says that the name p occurs in the name w.  A   *)
(* range over a Go map takes its entries in any order: an operator for one *)
(* that stops at the first match is the set of what it may return.         *)
(***************************************************************************)
EXTENDS Lists

CONSTANTS
  Within(_, _),       \* strings.Contains
  Images              \* operating system |-> its container disk

WellKnownNamespaces == {"openshift-virtualization-os-images", "kubevirt-os-images"}

(* The empty string: an argument that was left out, the namespace of what   *)
(* is cluster-scoped.                                                      *)
None == ""

Nothing == [name |-> None, ns |-> None]

(* SearchDataSources: every list that fails is left out, and a placeholder *)
(* stands for an empty answer.                                             *)
Placeholder ==
  [name |-> "No sources available", ns |-> "", type |-> "", preference |-> ""]

SearchDataSources(sources, listed) ==
  LET found == {s \in sources : "all" \in listed \/ s.ns \in listed}
  IN IF found = {} THEN {Placeholder} ELSE found

(* The lists of cluster-scoped and of namespaced ones, in this order.      *)
SearchScoped(items, ns, listed) ==
  Filtered(items, {i \in ToSet(items) : i.ns = None /\ "cluster" \in listed})
    \o Filtered(items, {i \in ToSet(items) : i.ns = ns /\ "namespaced" \in listed})

(* {Nothing} when no data source matches.                                  *)
MatchDataSource(sources, workload) ==
  LET exact == {s \in sources : s.name = workload}
      partial == {s \in sources : s.ns # None /\ Within(workload, s.name)}
  IN IF exact # {} THEN exact ELSE IF partial # {} THEN partial ELSE {Nothing}

First(items, S) ==
  IF Filtered(items, S) = <<>> THEN Nothing ELSE Head(Filtered(items, S))

(* A name that is not in the list is taken for a cluster-scoped one.       *)
ByName(items, name) ==
  LET found == First(items, {i \in ToSet(items) : i.name = name})
  IN IF found = Nothing THEN [name |-> name, ns |-> None] ELSE found

FilterInstancetypesBySize(types, size) ==
  Filtered(types, {t \in ToSet(types) : Within(size, t.name)})

MatchInstancetypeBySizeAlone(types, size, performance) ==
  LET sized == FilterInstancetypesBySize(types, size)
  IN IF sized = <<>> THEN None ELSE Head(sized).name

MatchInstancetypeBySize(types, size, performance) ==
  LET sized == FilterInstancetypesBySize(types, size)
      family == Filtered(sized, {t \in ToSet(sized) : t.family = performance})
      class == Filtered(sized, {t \in ToSet(sized) : t.class = performance})
  IN CASE sized = <<>> -> None
       [] sized # <<>> /\ family # <<>> -> Head(family).name
       [] sized # <<>> /\ family = <<>> /\ class # <<>> -> Head(class).name
       [] OTHER -> Head(sized).name

ResolveInstancetype(types, explicit, size, performance, source) ==
  LET matched == MatchInstancetypeBySize(types, size, performance) IN
  CASE explicit # None -> ByName(types, explicit)
    [] explicit = None /\ size = None /\ source # Nothing /\ source.type # None ->
         ByName(types, source.type)
    [] explicit = None /\ size # None /\ matched # None -> ByName(types, matched)
    [] OTHER -> Nothing

ResolvePreference(preferences, explicit, workload, source) ==
  CASE explicit # None -> ByName(preferences, explicit)
    [] explicit = None /\ source # Nothing /\ source.preference # None ->
         ByName(preferences, source.preference)
    [] OTHER -> First(preferences, {p \in ToSet(preferences) : Within(workload, p.name)})

NormalizePerformance(performance) ==
  IF performance \in {"u1", "o1", "c1", "m1"} THEN performance ELSE "u1"

(* An operating system nobody knows is taken for an image.                 *)
ResolveContainerDisk(workload) ==
  IF workload \in DOMAIN Images THEN Images[workload] ELSE workload

Disk(source, workload) ==
  IF source = Nothing THEN [image |-> ResolveContainerDisk(workload), ns |-> None]
  ELSE IF source.ns # None THEN [image |-> source.name, ns |-> source.ns]
  ELSE [image |-> "none", ns |-> None]

Scope(item) == [name |-> item.name, ns |-> item.ns]

(* The virtual machines create may render for arguments a, from what its   *)
(* lists answered.                                                         *)
BuildTemplateParams(a, sources, preferences, types) ==
  { [type |-> Scope(ResolveInstancetype(types, a.type, a.size,
                                        NormalizePerformance(a.performance), s)),
     preference |-> Scope(ResolvePreference(preferences, a.preference, a.workload, s)),
     disk |-> Disk(s, a.workload)] : s \in MatchDataSource(sources, a.workload) }
====
