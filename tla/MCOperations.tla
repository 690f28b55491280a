---- MODULE MCOperations ----
(* Two calls of any of the tools at once, and one change by another client,*)
(* over a managed pod with its service, a virtual machine, a deployment, a *)
(* pipeline with a run, and what vm_create chooses from.                   *)
EXTENDS Operations

With(label, mode, body) == [label |-> label, mode |-> mode, body |-> body]
Doc3(kind, name, content) == [kind |-> kind, ns |-> "", name |-> name, content |-> content]
In(d) == [d EXCEPT !.ns = "default"]
Plain == With("", "", <<>>)

NoArguments == [type |-> "", size |-> "", performance |-> "", preference |-> "", workload |-> ""]
Arguments == {"apiVersion", "kind", "name", "namespace", "resource", "command", "image",
              "action", "targetName"}
Ask(tool, doc) == [tool |-> tool, doc |-> doc, docs |-> <<>>, given |-> Arguments,
                   valid |-> TRUE, option |-> FALSE, vm |-> NoArguments]
AManifest(docs) == [Ask("resources_create_or_update", Head(docs)) EXCEPT !.docs = docs]

ANode == Doc3("Node", "", Plain)
APod == Doc3("Pod", "p", Plain)
AVM == In(Doc3("VirtualMachine", "v", Plain))
NewVM == In(Doc3("VirtualMachine", "n", With("", "Halted", <<>>)))
ADeployment == Doc3("Deployment", "d", Plain)

MCRequests ==
  { Ask("resources_get", APod), Ask("resources_list", APod),
    Ask("resources_delete", ADeployment),
    AManifest(<<Doc3("CustomResourceDefinition", "widgets", Plain), Doc3("Widget", "w", Plain)>>),
    AManifest(<<[ADeployment EXCEPT !.content.mode = "2"], Doc3("unparsable", "", Plain)>>),
    AManifest(<<[ADeployment EXCEPT !.content.mode = "2"], Doc3("Service", "s", Plain)>>),
    Ask("resources_scale", ADeployment),
    Ask("resources_scale", [ADeployment EXCEPT !.content.mode = "2"]),
    [Ask("pods_run", [APod EXCEPT !.content.body = <<"image">>]) EXCEPT !.option = TRUE],
    Ask("pods_delete", APod), Ask("pods_exec", APod),
    [Ask("pods_exec", APod) EXCEPT !.given = {"name"}],
    Ask("vm_start", AVM), Ask("vm_stop", AVM), Ask("vm_restart", AVM), Ask("vm_clone", AVM),
    [Ask("vm_create", NewVM) EXCEPT !.vm.workload = "fedora", !.vm.size = "large",
                                    !.vm.performance = "c1"],
    [Ask("vm_create", NewVM) EXCEPT !.vm.workload = "fedora", !.vm.type = "u1.small",
                                    !.vm.preference = "windows"],
    Ask("tekton_pipelinerun_restart", Doc3("PipelineRun", "r", Plain)),
    Ask("tekton_pipeline_start", Doc3("Pipeline", "l", Plain)),
    Ask("tekton_taskrun_logs", Doc3("TaskRun", "t", Plain)), Ask("nodes_top", ANode),
    Ask("namespaces_list", Doc3("Node", "", Plain)), Ask("pods_log", APod) }

At0(kind, name) == Key(kind, "default", name)
Stored(content) == content @@ [version |-> 1]

MCObjects ==
  (At0("Pod", "p") :> Stored(With("p", "", <<"image">>)))
    @@ (At0("Service", "p") :> Stored(With("p", "", <<>>)))
    @@ (At0("Service", "q") :> Stored(With("q", "", <<>>)))
    @@ (At0("Route", "p") :> Stored(With("p", "", <<>>)))
    @@ (At0("VirtualMachine", "v") :> Stored(With("", "Always", <<>>)))
    @@ (At0("Deployment", "d") :> Stored(With("", "1", <<>>)))
    @@ (At0("PipelineRun", "r") :> Stored(With("", "Stopped", <<"l">>)))
    @@ (At0("Pipeline", "l") :> Stored(Plain))
    @@ (At0("TaskRun", "t") :> Stored(With("", "", <<"p">>)))

MCKinds == {"Pod", "Service", "Route", "VirtualMachine", "Deployment", "PipelineRun",
            "Pipeline", "CustomResourceDefinition"}
MCDefines == "widgets" :> "Widget"
MCClusterKinds == {"Node", "CustomResourceDefinition"}

MCOthers ==
  { [key |-> At0("VirtualMachine", "v"), content |-> With("", "Always", <<"edited">>)],
    [key |-> At0("Deployment", "d"), content |-> With("", "1", <<"edited">>)],
    [key |-> At0("Pod", "p"), content |-> With("p", "Succeeded", <<"image">>)] }

(* Part(p, w): which of the names used here occur in which.                *)
Parts == {<<"large", "c1.large">>, <<"large", "u1.2xlarge">>, <<"large", "u1.large">>,
          <<"fedora", "fedora">>, <<"fedora", "fedora-40">>}
Part(p, w) == p = w \/ <<p, w>> \in Parts
MCImages == "fedora" :> "containerdisks/fedora"

Source(name, ns, type) == [name |-> name, ns |-> ns, type |-> type, preference |-> "fedora"]
MCDataSources == {Source("fedora-40", "kubevirt-os-images", "u1.small"),
                  Source("fedora-41", "elsewhere", "")}
Type(name, ns, family) == [name |-> name, ns |-> ns, family |-> family, class |-> ""]
MCInstancetypes == <<Type("u1.2xlarge", "", "u1"), Type("u1.small", "", "u1"),
                     Type("c1.large", "default", "c1")>>
MCPreferences == <<[name |-> "fedora", ns |-> ""], [name |-> "windows", ns |-> "default"]>>

MCSymmetry == Permutations(Calls)
====
