---- MODULE HealthReports ----
(***************************************************************************)
(* The prompts cluster-health-check (pkg/toolsets/core/health_check.go)    *)
(* and vm-troubleshoot (pkg/toolsets/kubevirt/vm_troubleshoot.go): reports *)
(* put together from a sequence of requests over a cluster that goes on    *)
(* changing, any of which may fail.  A world is what the cluster holds:    *)
(* objects (records with a kind, namespace and name), events in list       *)
(* order, namespaces, and whether it is OpenShift.                         *)
(***************************************************************************)
EXTENDS Lists

CONSTANTS
  Worlds,
  ClusterCalls, GuideCalls,   \* arguments of calls of either prompt
  OpenShiftNamespaces,        \* names with the prefix openshift-
  Extends(_),                 \* names that begin with a VM's name and a dash,
                              \* or with virt-launcher- and its name
  RestartThreshold,           \* podHighRestartThreshold, 5
  EventLimit,                 \* events listed, 20
  MaxChanges, MaxFailures     \* changes of the world and failures in a call

Absent == [absent |-> TRUE]   \* what a report leaves out

(* Events are a list, no namespace is without a name and no object is what *)
(* stands for there being none.                                            *)
ASSUME ReportsAssumption ==
  /\ EventLimit \in Nat
  /\ \A w \in Worlds : /\ "" \notin w.namespaces
                       /\ Absent \notin w.objects
                       /\ w.events \in Seq(ToSet(w.events))

VARIABLES
  world,
  story,                \* worlds since the report began
  report                \* the report in the making; NoReport when there is none

reportVars == <<world, story, report>>

NoReport == [prompt |-> "none"]
Making(prompt, step) == report.prompt = prompt /\ report.step = step

----
(* What counts as trouble.                                                 *)
NodeTroubled(o) ==
  \E c \in o.conditions : IF c[1] = "Ready" THEN c[2] # "True" ELSE c[2] = "True"

PodTroubled(o) ==
  \/ \E c \in o.containers :
       \/ c.waiting \in {"CrashLoopBackOff", "ImagePullBackOff", "ErrImagePull"}
       \/ c.terminated \in {"Error", "OOMKilled"}
  \/ o.phase \notin {"Running", "Succeeded"}
  \/ MapThenSumSet(LAMBDA c : c.restarts, o.containers) > RestartThreshold

WorkloadTroubled(o) ==
  \/ o.kind \in {"Deployment", "DaemonSet"} /\ o.unavailable > 0
  \/ o.kind = "StatefulSet" /\ o.ready < o.replicas

OperatorTroubled(o) ==
  \E c \in o.conditions : \/ c[1] = "Available" /\ c[2] # "True"
                          \/ c[1] = "Degraded" /\ c[2] = "True"

Troubled(o) ==
  CASE o.kind = "Node" -> NodeTroubled(o)
    [] o.kind = "Pod" -> PodTroubled(o)
    [] o.kind \in {"Deployment", "DaemonSet", "StatefulSet"} -> WorkloadTroubled(o)
    [] o.kind = "PersistentVolumeClaim" -> o.phase # "Bound"
    [] o.kind = "ClusterOperator" -> OperatorTroubled(o)

Gathered == <<"Node", "Pod", "Deployment", "StatefulSet", "DaemonSet",
              "PersistentVolumeClaim", "ClusterOperator">>
ClusterWide == {"Node", "ClusterOperator"}

(* A list of a kind in a namespace, or in all of them for "".              *)
ListOf(w, kind, ns) ==
  {o \in w.objects : o.kind = kind /\ (kind \in ClusterWide \/ ns \in {"", o.ns})}

Diagnosis(items) == [total |-> Cardinality(items), troubled |-> {o \in items : Troubled(o)}]

Noteworthy(e) == e.type \in {"Warning", "Error"} /\ e.recent

----
ClusterStart(args) ==
  [prompt |-> "cluster-health-check", args |-> args, step |-> "Namespace", gathered |-> 0,
   namespace |-> args.namespace, scoped |-> FALSE, warned |-> FALSE, failures |-> 0,
   sections |-> [k \in ToSet(Gathered) |-> Absent], queue |-> <<>>,
   noted |-> <<>>, events |-> Absent, total |-> 0]

(* A request that succeeds leaves the report as good says, one that fails  *)
(* as failed says.                                                         *)
Answered(good, failed) ==
  /\ \/ report' = good
     \/ report.failures < MaxFailures /\ report' = [failed EXCEPT !.failures = @ + 1]
  /\ UNCHANGED <<world, story>>

(* Not found, or not accessible: the whole cluster is reported instead,    *)
(* with a warning.                                                         *)
NamespaceKept(found) == report.args.namespace

NamespaceFor(found) == IF found THEN report.args.namespace ELSE ""

CheckNamespace ==
  /\ Making("cluster-health-check", "Namespace")
  /\ \E found \in BOOLEAN :
       /\ found => report.args.namespace \in world.namespaces
       /\ report' = [report EXCEPT !.step = "Gather",
                                   !.namespace = NamespaceFor(found),
                                   !.warned = report.args.namespace # "" /\ ~found,
                                   !.scoped = found]
  /\ UNCHANGED <<world, story>>

(* A section whose list fails is left out; outside OpenShift the list of   *)
(* cluster operators always does.                                          *)
Gather ==
  LET kind == Gathered[report.gathered + 1]
      next == [report EXCEPT !.gathered = @ + 1,
                             !.step = IF report.gathered + 1 < Len(Gathered) THEN "Gather"
                                      ELSE IF report.args.events THEN "EventNamespaces"
                                      ELSE "Count"]
      served == kind # "ClusterOperator" \/ world.openshift
  IN /\ Making("cluster-health-check", "Gather")
     /\ Answered(IF served
                 THEN [next EXCEPT !.sections[kind] =
                         Diagnosis(ListOf(world, kind, report.namespace))]
                 ELSE next, next)

(* Which namespaces to read events of: the OpenShift ones only if they can *)
(* be listed.                                                              *)
EventNamespaces ==
  LET important == <<"default", "kube-system">>
      found == SetToSeq(world.namespaces \cap OpenShiftNamespaces)
      next == [report EXCEPT !.step = "Events"]
  IN /\ Making("cluster-health-check", "EventNamespaces")
     /\ IF report.namespace # ""
        THEN /\ report' = [next EXCEPT !.queue = <<report.namespace>>]
             /\ UNCHANGED <<world, story>>
        ELSE Answered([next EXCEPT !.queue = important \o found],
                      [next EXCEPT !.queue = important])

(* A namespace whose events cannot be listed is passed over.               *)
ReadEvents ==
  LET found == {e \in ToSet(world.events) : e.ns = Head(report.queue) /\ Noteworthy(e)}
      next == [report EXCEPT !.queue = Tail(@)]
  IN /\ Making("cluster-health-check", "Events") /\ report.queue # <<>>
     /\ Answered([next EXCEPT !.noted = @ \o Filtered(world.events, found)], next)

NoteEvents ==
  LET Of(type) == Len(Filtered(report.noted, {e \in ToSet(report.noted) : e.type = type}))
  IN /\ Making("cluster-health-check", "Events") /\ report.queue = <<>>
     /\ report' = [report EXCEPT !.step = "Count",
                     !.events = [warnings |-> Of("Warning"), errors |-> Of("Error"),
                                 listed |-> SubSeq(report.noted, 1,
                                              Min({EventLimit, Len(report.noted)}))]]
     /\ UNCHANGED <<world, story>>

CountNamespaces ==
  /\ Making("cluster-health-check", "Count")
  /\ LET done == [report EXCEPT !.step = "done"]
     IN Answered([done EXCEPT !.total = Cardinality(world.namespaces)], done)

----
(* vm-troubleshoot.  Both arguments are required.                          *)
GuideStart(args) ==
  [prompt |-> "vm-troubleshoot", args |-> args, failures |-> 0,
   step |-> IF "" \in {args.namespace, args.name} THEN "refused" ELSE "VM",
   vm |-> Absent, vmi |-> Absent, volumes |-> Absent, pods |-> Absent,
   queue |-> {}, logs |-> Absent, events |-> Absent]

Fetchable(w, kind) ==
  {o \in w.objects : o.kind = kind /\ o.ns = report.args.namespace /\ o.name = report.args.name}

Fetched(kind) ==
  IF Fetchable(world, kind) = {} THEN Absent ELSE CHOOSE o \in Fetchable(world, kind) : TRUE

FetchVM ==
  LET next == [report EXCEPT !.step = "VMI"]
  IN /\ Making("vm-troubleshoot", "VM")
     /\ Answered([next EXCEPT !.vm = Fetched("VirtualMachine")], next)

(* fetchVirtualMachineVolumes: those of the VM that was read, or else of   *)
(* the instance that was read.                                             *)
VolumesOfRunning(vm, vmi) == IF vmi # Absent /\ vmi.volumes # <<>> THEN vmi ELSE vm

VolumesOf(vm, vmi) == IF vm # Absent /\ vm.volumes # <<>> THEN vm ELSE vmi

FetchVMI ==
  LET With(vmi) == LET source == VolumesOf(report.vm, vmi)
                   IN [report EXCEPT !.step = "Pods", !.vmi = vmi,
                         !.volumes = IF source = Absent \/ source.volumes = <<>> THEN Absent
                                     ELSE [kind |-> source.kind, volumes |-> source.volumes]]
  IN /\ Making("vm-troubleshoot", "VMI")
     /\ Answered(With(Fetched("VirtualMachineInstance")), With(Absent))

Launchers(w) ==
  {o \in w.objects : o.kind = "Pod" /\ o.ns = report.args.namespace /\ o.vm = report.args.name}

FetchPods ==
  LET next == [report EXCEPT !.step = "Logs", !.logs = [of |-> {}]]
  IN /\ Making("vm-troubleshoot", "Pods")
     /\ Answered([next EXCEPT !.pods = [of |-> Launchers(world)], !.queue = Launchers(world)],
                 next)

IsThere(o, w) == \E p \in w.objects : p.kind = "Pod" /\ <<p.ns, p.name>> = <<o.ns, o.name>>

(* The first pod whose log cannot be read ends it, and leaves an error in  *)
(* the place of all the logs.                                              *)
FetchLogs(o) ==
  LET next == [report EXCEPT !.queue = @ \ {o}]
      ended == [report EXCEPT !.queue = {}, !.logs = Absent]
  IN /\ Making("vm-troubleshoot", "Logs") /\ o \in report.queue
     /\ Answered(IF IsThere(o, world) THEN [next EXCEPT !.logs.of = @ \cup {o}] ELSE ended, ended)

Related(e) ==
  /\ e.ns = report.args.namespace
  /\ \/ /\ e.object = report.args.name
        /\ e.kind \in {"VirtualMachine", "VirtualMachineInstance"}
     \/ e.object \in Extends(report.args.name)

FetchEvents ==
  LET done == [report EXCEPT !.step = "done"]
  IN /\ Making("vm-troubleshoot", "Logs") /\ report.queue = {}
     /\ Answered([done EXCEPT !.events =
                   [of |-> Filtered(world.events, {e \in ToSet(world.events) : Related(e)})]], done)

----
AskReport ==
  /\ \/ \E a \in ClusterCalls : report' = ClusterStart(a)
     \/ \E a \in GuideCalls : report' = GuideStart(a)
  /\ story' = <<world>>
  /\ UNCHANGED world

ChangeWorld ==
  /\ report.prompt # "none" /\ report.step \notin {"done", "refused"}
  /\ Len(story) <= MaxChanges
  /\ \E w \in Worlds \ {world} : world' = w /\ story' = Append(story, w)
  /\ UNCHANGED report

ReportNext ==
  \/ CheckNamespace \/ Gather \/ EventNamespaces \/ ReadEvents \/ NoteEvents \/ CountNamespaces
  \/ FetchVM \/ FetchVMI \/ FetchPods \/ FetchEvents
  \/ report.prompt = "vm-troubleshoot" /\ \E o \in report.queue : FetchLogs(o)
  \/ ChangeWorld

----
InScope(o) == o.kind \in ClusterWide \/ (report.scoped => o.ns = report.args.namespace)

Shows(section, kind, w) ==
  LET items == {o \in w.objects : o.kind = kind /\ InScope(o)}
  IN /\ section.total = Cardinality(items)
     /\ section.troubled \subseteq items
     /\ \A o \in items : o \in section.troubled <=> Troubled(o)

(* Every section of a health check agrees with the scope that its heading  *)
(* announces (the namespace asked for, or the whole cluster after the      *)
(* fallback) in some world since the call began: it shows the trouble of   *)
(* that scope, all of it, and counts what is there.  An event it lists is  *)
(* a recent warning or error of that scope, and when nothing failed and    *)
(* nothing changed the counts are those of the namespaces read.            *)
(* (health_check.go: the fallback, the gather functions.)                  *)
ClusterTruthful ==
  /\ \A kind \in DOMAIN report.sections :
       report.sections[kind] # Absent =>
         \E w \in ToSet(story) : Shows(report.sections[kind], kind, w)
  /\ report.events # Absent =>
       /\ \A i \in DOMAIN report.events.listed :
            LET e == report.events.listed[i]
            IN /\ Noteworthy(e) /\ (report.scoped => e.ns = report.args.namespace)
               /\ \E w \in ToSet(story) : e \in ToSet(w.events)
       /\ report.failures = 0 /\ Len(story) = 1 /\ report.scoped =>
            report.events.warnings + report.events.errors =
              Cardinality({i \in DOMAIN world.events :
                             world.events[i].ns = report.args.namespace
                               /\ Noteworthy(world.events[i])})

(* The sections that are left out, but for the cluster operators of a      *)
(* cluster that had none.                                                  *)
IsLeftOut(k) == /\ report.sections[k] = Absent
                /\ k = "ClusterOperator" => \A w \in ToSet(story) : w.openshift
LeftOut == {k \in ToSet(Gathered) : IsLeftOut(k)}

(* A health check leaves nothing out that it was told: when it has asked   *)
(* for all the sections, there is a request that failed for every one that *)
(* is missing, which takes no other with it; the events that were asked for are there, cut at the limit and *)
(* nowhere before it; and the number of namespaces is one that the cluster *)
(* had, unless a request failed.                                           *)
ClusterWhole ==
  /\ report.step \notin {"Namespace", "Gather"} => Cardinality(LeftOut) <= report.failures
  /\ report.events # Absent =>
       LET shown == Len(report.events.listed)
       IN /\ shown <= EventLimit
          /\ shown < EventLimit => shown = report.events.warnings + report.events.errors
  /\ report.step = "done" =>
       /\ report.args.events => report.events # Absent
       /\ report.failures = 0 =>
            \E w \in ToSet(story) : report.total = Cardinality(w.namespaces)

(* The sections of a guide belong together although each is a read of its  *)
(* own: the volumes are those of the machine shown or, when it is not      *)
(* shown or has none, of the instance shown; the logs are of all the       *)
(* launcher pods shown, or there are none; what is shown was there.        *)
(* (vm_troubleshoot.go: vm, vmi and podNames handed on.)                   *)
GuideCoherent ==
  LET Of(r) == IF r # Absent THEN r.volumes ELSE <<>>
      own == Of(report.vm)
  IN /\ \A o \in {report.vm, report.vmi} \ {Absent} : \E w \in ToSet(story) : o \in w.objects
     /\ report.volumes # Absent =>
          report.volumes = IF own # <<>>
                           THEN [kind |-> "VirtualMachine", volumes |-> own]
                           ELSE [kind |-> "VirtualMachineInstance", volumes |-> Of(report.vmi)]
     /\ report.pods # Absent => \E w \in ToSet(story) : report.pods.of = Launchers(w)
     /\ report.step = "done" =>
          report.logs = Absent \/
            report.logs.of = IF report.pods = Absent THEN {} ELSE report.pods.of

(* Unless a request failed, a guide is without a machine or an instance    *)
(* only if the cluster had none, and without logs only if a pod that it    *)
(* shows was gone; its pods and events are there.  Whatever failed, it is  *)
(* without volumes only if what it shows has none, and the events that it  *)
(* shows are all that are about the machine.                               *)
GuideWhole ==
  /\ report.step \notin {"VM", "VMI"} /\ report.volumes = Absent =>
       \A o \in {report.vm, report.vmi} \ {Absent} : o.volumes = <<>>
  /\ report.failures = 0 =>
       /\ report.step # "VM" /\ report.vm = Absent =>
            \E w \in ToSet(story) : Fetchable(w, "VirtualMachine") = {}
       /\ report.step \notin {"VM", "VMI"} /\ report.vmi = Absent =>
            \E w \in ToSet(story) : Fetchable(w, "VirtualMachineInstance") = {}
       /\ report.step \in {"Logs", "done"} => report.pods # Absent
       /\ report.step \in {"Logs", "done"} /\ report.logs = Absent =>
            \E w \in ToSet(story), o \in report.pods.of : ~IsThere(o, w)
       /\ report.step = "done" => report.events # Absent
  /\ report.events # Absent =>
       \E w \in ToSet(story) : ToSet(report.events.of) = {e \in ToSet(w.events) : Related(e)}

(* What a prompt reports is what the cluster was, whichever prompt it is:  *)
(* neither the fallback nor the gaps between reads make it say otherwise,  *)
(* and what it does not say is what could not be read or was not there.    *)
ReportsTruthful ==
  /\ report.prompt = "cluster-health-check" => ClusterTruthful /\ ClusterWhole
  /\ report.prompt = "vm-troubleshoot" /\ report.step # "refused" =>
       GuideCoherent /\ GuideWhole
====
