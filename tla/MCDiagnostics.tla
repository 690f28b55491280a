---- MODULE MCDiagnostics ----
(* Four worlds, of which a report may see two, with troubled and healthy   *)
(* objects in two namespaces and a virtual machine with its launcher pods; *)
(* health answers with ties in the error rate and more unhealthy entities  *)
(* than are listed.                                                        *)
EXTENDS Diagnostics

Object(kind, ns, name) == [kind |-> kind, ns |-> ns, name |-> name]
ANode(name, conditions) == Object("Node", "", name) @@ [conditions |-> conditions]
Container(name, waiting, terminated, restarts) ==
  [name |-> name, waiting |-> waiting, terminated |-> terminated, restarts |-> restarts]
APod(ns, name, vm, phase, containers) ==
  Object("Pod", ns, name) @@ [vm |-> vm, phase |-> phase, containers |-> containers]
AVM(kind, volumes) == Object(kind, "default", "vm1") @@ [volumes |-> volumes]
Event(ns, kind, object, type, recent) ==
  [ns |-> ns, kind |-> kind, object |-> object, type |-> type, recent |-> recent]

Fine == APod("default", "fine", "", "Running", {Container("c", "", "", 0)})
Crashing == APod("other", "crashing", "", "Running", {Container("c", "CrashLoopBackOff", "", 3)})
Restarted == APod("default", "restarted", "", "Running",
                  {Container("a", "", "", 3), Container("b", "", "", 3)})
Launcher(n) == APod("default", n, "vm1", "Running", {Container("compute", "", "", 0)})

Quiet ==
  [namespaces |-> {"default", "kube-system"}, openshift |-> FALSE,
   objects |-> {ANode("n", {<<"Ready", "True">>}), Fine, Launcher("l1"), Launcher("l2"),
                AVM("VirtualMachine", <<"disk">>), AVM("VirtualMachineInstance", <<"disk">>)},
   events |-> <<Event("default", "Pod", "fine", "Normal", TRUE)>>]

Troubles ==
  [namespaces |-> {"default", "kube-system", "other", "openshift-x"}, openshift |-> TRUE,
   objects |-> {ANode("n", {<<"Ready", "True">>, <<"DiskPressure", "True">>}), Fine, Crashing,
                Restarted, Launcher("l2"),
                Object("Deployment", "other", "d") @@ [unavailable |-> 1],
                Object("StatefulSet", "default", "s") @@ [ready |-> 0, replicas |-> 1],
                Object("DaemonSet", "default", "m") @@ [unavailable |-> 0],
                Object("PersistentVolumeClaim", "other", "p") @@ [phase |-> "Pending"],
                Object("ClusterOperator", "", "o") @@ [conditions |-> {<<"Degraded", "True">>}],
                AVM("VirtualMachine", <<>>), AVM("VirtualMachineInstance", <<"hot">>)},
   events |-> <<Event("default", "Pod", "vm1-x", "Warning", TRUE),
                Event("default", "VirtualMachine", "vm1", "Warning", FALSE),
                Event("default", "Pod", "restarted", "Error", TRUE),
                Event("openshift-x", "Pod", "y", "Warning", TRUE),
                Event("other", "Pod", "crashing", "Warning", TRUE)>>]

MCWorlds ==
  {Quiet, Troubles,
   [Troubles EXCEPT !.namespaces = @ \ {"other"},
                    !.objects = {o \in @ : o.ns # "other" /\ o.kind # "VirtualMachine"}],
   [Quiet EXCEPT !.objects = {ANode("n", {<<"Ready", "False">>}),
                              AVM("VirtualMachineInstance", <<"hot">>)}]}

MCClusterCalls ==
  {[namespace |-> ns, events |-> events] : ns \in {"", "default", "other"}, events \in BOOLEAN}
MCGuideCalls == {[namespace |-> "default", name |-> "vm1"], [namespace |-> "", name |-> "vm1"]}
MCExtends(name) == IF name = "vm1" THEN {"vm1-x", "virt-launcher-vm1-x"} ELSE {}

Requests(direction, protocol, code, count) ==
  [direction |-> direction, protocol |-> protocol, code |-> code, count |-> count]
Served == Requests("inbound", "http", "2xx", 90)
Replicas(desired, available, synced) ==
  [desired |-> desired, available |-> available, synced |-> synced]
Entity(type, ns, name, statuses, requests) ==
  [type |-> type, ns |-> ns, name |-> name, statuses |-> statuses, requests |-> requests]

MCHealthAnswers ==
  { [spaces |-> {"a", "b"},
     entities |->
       { Entity("app", "a", "down", <<Replicas(1, 1, 1), Replicas(2, 0, -1)>>, {Served}),
         Entity("app", "a", "aborted", <<Replicas(1, 1, 1)>>,
                {Served, Requests("inbound", "http", "-", 10)}),
         Entity("app", "a", "refused", <<Replicas(1, 1, 0)>>,
                {Served, Requests("inbound", "http", "4xx", 30)}),
         Entity("app", "b", "calls", <<Replicas(2, 1, -1)>>,
                {Served, Requests("outbound", "grpc", "14", 5)}),
         Entity("app", "b", "none", <<>>, {Requests("inbound", "http", "5xx", 5)}),
         Entity("app", "b", "fine", <<Replicas(1, 1, 1)>>, {Served}),
         Entity("workload", "b", "bare", <<>>, {}),
         Entity("workload", "b", "half", <<Replicas(2, 1, 0)>>, {}),
         Entity("service", "b", "idle", <<>>, {}),
         Entity("service", "a", "erring", <<>>, {Served, Requests("inbound", "http", "5xx", 9)}) }],
    [spaces |-> {"a"},
     entities |-> { Entity("app", "a", "scaled", <<Replicas(1, 0, -1), Replicas(0, 0, -1)>>, {}),
                    Entity("workload", "a", "scaled", <<Replicas(0, 0, 0)>>, {Served}) }],
    [spaces |-> {}, entities |-> {}] }

MCGraphTypes == {"versionedApp", "workload", "service"}
====
