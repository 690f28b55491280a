---- MODULE ToolPlans ----
(***************************************************************************)
(* What a tool does with a request: its handler (in lower case, as in      *)
(* pkg/toolsets) insists on some arguments and calls a function of         *)
(* pkg/kubernetes or pkg/kubevirt (in upper case), here a plan: the        *)
(* requests it sends to the API server, in order, when none of them fails  *)
(* or cuts it short.  A request for a tool is a record: doc is the object  *)
(* it names, docs the documents of a manifest, given the names of its      *)
(* arguments, valid whether they are of the types the handler checks, and  *)
(* option whether an optional one is there: a port to expose, a container. *)
(***************************************************************************)
EXTENDS Naturals, Sequences

Invalid == <<"invalid">>

Asked(r, needs, plan) == IF r.valid /\ needs \subseteq r.given THEN plan ELSE Invalid

----
(* pkg/kubernetes                                                          *)
ResourcesList == <<"map", "review", "list">>
ResourcesGet == <<"map", "get">>
ResourcesDelete == <<"map", "delete">>
ResourcesScale(scale) ==
  IF scale = "" THEN <<"map", "get">> ELSE <<"map", "get", "scale">>
ApplyAll(docs) == [i \in 1 .. 2 * Len(docs) |-> IF i % 2 = 1 THEN "map" ELSE "apply"]

(* All documents are parsed before the first is stored.                    *)
ResourcesCreateOrUpdate(docs) ==
  IF \E d \in DOMAIN docs : docs[d].kind = "unparsable" THEN Invalid ELSE ApplyAll(docs)

PodsGet == ResourcesGet
PodsDelete ==
  ResourcesGet \o <<"services", "remove", "routes", "remove">> \o ResourcesDelete
PodsLog(container) == IF container THEN <<"stream">> ELSE <<"get", "stream">>
PodsTop(name) == <<"discover", IF name = "" THEN "list" ELSE "stream">>
PodsExec == <<"get", "stream">>

NodesLog == <<"get", "stream">>
NodesStatsSummary == <<"get", "stream">>
NodesTop(name) == <<"discover", IF name = "" THEN "list" ELSE "stream">>

EventsList == ResourcesList
NamespacesList == ResourcesList
ProjectsList == ResourcesList

(* pkg/kubevirt                                                            *)
StartVM == <<"get", "start">>
StopVM == <<"get", "halt">>
RestartVM == <<"get", "halt", "start">>
CloneVM == <<"create">>

----
resourcesList(r) == Asked(r, {"apiVersion", "kind"}, ResourcesList)
resourcesGet(r) == Asked(r, {"apiVersion", "kind", "name"}, ResourcesGet)
resourcesCreateOrUpdate(r, docs) == Asked(r, {"resource"}, ResourcesCreateOrUpdate(docs))
resourcesDelete(r) == Asked(r, {"apiVersion", "kind", "name"}, ResourcesDelete)
resourcesScale(r) ==
  Asked(r, {"apiVersion", "kind", "name"}, ResourcesScale(r.doc.content.mode))

podsListInAllNamespaces(r) == Asked(r, {}, ResourcesList)
podsListInNamespace(r) == Asked(r, {"namespace"}, ResourcesList)
podsGet(r) == Asked(r, {"name"}, PodsGet)
podsDelete(r) == Asked(r, {"name"}, PodsDelete)
podsTop(r) == Asked(r, {}, PodsTop(r.doc.name))
podsExec(r) == Asked(r, {"name", "command"}, PodsExec)
podsLog(r) == Asked(r, {"name"}, PodsLog(r.option))
podsRun(r, docs) == Asked(r, {"image"}, ApplyAll(docs))

nodesLog(r) == Asked(r, {"name", "query"}, NodesLog)
nodesStatsSummary(r) == Asked(r, {"name"}, NodesStatsSummary)
nodesTop(r) == NodesTop(r.doc.name) \o <<"list">>

eventsList(r) == Asked(r, {}, EventsList)
namespacesList(r) == NamespacesList
projectsList(r) == ProjectsList

lifecycle(r) ==
  Asked(r, {"namespace", "name", "action"},
        CASE r.tool = "vm_start" -> StartVM
          [] r.tool = "vm_stop" -> StopVM
          [] r.tool = "vm_restart" -> RestartVM)
cloneVM(r) == Asked(r, {"namespace", "name", "targetName"}, CloneVM)
create(r) == Asked(r, {"namespace", "name"}, <<"search", "map", "apply">>)

startPipeline(r) == Asked(r, {"name"}, <<"get", "create">>)
restartPipelineRun(r) == Asked(r, {"name"}, <<"get", "create">>)
startTask(r) == Asked(r, {"name"}, <<"get", "create">>)
restartTaskRun(r) == Asked(r, {"name"}, <<"get", "create">>)
getTaskRunLogs(r) == Asked(r, {"name"}, <<"get", "stream">>)

Plan(r, docs) ==
  CASE r.tool = "resources_list" -> resourcesList(r)
    [] r.tool = "resources_get" -> resourcesGet(r)
    [] r.tool = "resources_create_or_update" -> resourcesCreateOrUpdate(r, docs)
    [] r.tool = "resources_delete" -> resourcesDelete(r)
    [] r.tool = "resources_scale" -> resourcesScale(r)
    [] r.tool = "pods_list" -> podsListInAllNamespaces(r)
    [] r.tool = "pods_list_in_namespace" -> podsListInNamespace(r)
    [] r.tool = "pods_get" -> podsGet(r)
    [] r.tool = "pods_delete" -> podsDelete(r)
    [] r.tool = "pods_top" -> podsTop(r)
    [] r.tool = "pods_exec" -> podsExec(r)
    [] r.tool = "pods_log" -> podsLog(r)
    [] r.tool = "pods_run" -> podsRun(r, docs)
    [] r.tool = "nodes_log" -> nodesLog(r)
    [] r.tool = "nodes_stats_summary" -> nodesStatsSummary(r)
    [] r.tool = "nodes_top" -> nodesTop(r)
    [] r.tool = "events_list" -> eventsList(r)
    [] r.tool = "namespaces_list" -> namespacesList(r)
    [] r.tool = "projects_list" -> projectsList(r)
    [] r.tool \in {"vm_start", "vm_stop", "vm_restart"} -> lifecycle(r)
    [] r.tool = "vm_clone" -> cloneVM(r)
    [] r.tool = "vm_create" -> create(r)
    [] r.tool = "tekton_pipeline_start" -> startPipeline(r)
    [] r.tool = "tekton_pipelinerun_restart" -> restartPipelineRun(r)
    [] r.tool = "tekton_task_start" -> startTask(r)
    [] r.tool = "tekton_taskrun_restart" -> restartTaskRun(r)
    [] r.tool = "tekton_taskrun_logs" -> getTaskRunLogs(r)
====
