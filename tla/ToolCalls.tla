---- MODULE ToolCalls ----
(***************************************************************************)
(* Calls of the Kubernetes, KubeVirt and Tekton tools under way at once on *)
(* one cluster. A handler is a plan of steps, one per request it sends;    *)
(* what it read is kept from one step to the next while other calls and    *)
(* other clients go on, and every request may fail.                        *)
(***************************************************************************)
EXTENDS ApiServer, VMResolution, ToolPlans

CONSTANTS
  Calls,              \* tool calls
  Default,            \* the namespace of the kubeconfig's context
  MayListAll,         \* whether the caller may list in all namespaces
  DataSources, Preferences, Instancetypes   \* what vm_create finds

VARIABLES
  call,               \* the state of each call
  mapper              \* the kinds the shared RESTMapper knows; none until it is filled

Unfilled == {}

callVars == <<call, mapper>>

NoCall ==
  [request |-> [tool |-> ""], plan |-> <<>>, docs |-> <<>>, read |-> NoObject,
   found |-> {}, missed |-> FALSE, answer |-> "",
   began |-> 0, ended |-> 0, kinds |-> {}]

At(c, step) == call[c].plan # <<>> /\ Head(call[c].plan) = step

Doc(c) == Head(call[c].docs)

KeyOf(d) == Key(d.kind, d.ns, d.name)

Tool(c) == call[c].request.tool

NamespaceOrDefault(ns) == IF ns = "" THEN Default ELSE ns

(* The call goes on with a plan; one that has no step left is over, with   *)
(* "ok" unless it was told otherwise.                                      *)
Goes(c, next, plan) ==
  call' = [call EXCEPT ![c] =
            [next EXCEPT !.plan = plan,
                         !.ended = IF plan = <<>> THEN Len(changes') ELSE @]]

GoesOn(c, next) == Goes(c, next, Tail(next.plan))

Answers(c, answer) == Goes(c, [call[c] EXCEPT !.answer = answer], <<>>)

(* A request that fails, or that the server refuses, ends most calls.      *)
Fails(c) ==
  /\ UNCHANGED <<objects, changes>>
  /\ Answers(c, "error")

(* resourceFor and isNamespaced. The mapper is filled at its first use and *)
(* not again until it is reset; a kind whose scope discovery cannot tell   *)
(* is taken for one without namespaces.                                    *)
MapKind(c) ==
  /\ At(c, "map")
  /\ UNCHANGED serverVars
  /\ \/ /\ mapper = Unfilled
        /\ Answers(c, "error")
        /\ UNCHANGED mapper
     \/ /\ mapper' = IF mapper = Unfilled THEN served ELSE mapper
        /\ \/ /\ Doc(c).kind \notin mapper'
              /\ Answers(c, "noMatch")
           \/ /\ Doc(c).kind \in mapper'
              /\ \E told \in BOOLEAN :
                   LET defaults == told /\ Doc(c).kind \notin ClusterKinds
                                        /\ Tool(c) # "resources_list"
                       narrows == told /\ Doc(c).kind \notin ClusterKinds /\ Doc(c).ns = ""
                       next == [call[c] EXCEPT !.docs[1].ns =
                                  IF defaults THEN NamespaceOrDefault(@) ELSE @]
                   IN IF Tool(c) = "resources_list" /\ ~narrows
                      THEN Goes(c, next, <<"list">>)
                      ELSE GoesOn(c, next)

(* canIUse: a review that fails counts as a refusal.                       *)
Review(c) ==
  /\ At(c, "review")
  /\ UNCHANGED <<serverVars, mapper>>
  /\ \E allowed \in {MayListAll, FALSE} :
       GoesOn(c, [call[c] EXCEPT !.docs[1].ns = IF allowed THEN @ ELSE Default])

List(c) ==
  /\ At(c, "list")
  /\ UNCHANGED <<serverVars, mapper>>
  /\ \/ Fails(c)
     \/ /\ IF Doc(c).kind \in ClusterKinds THEN Doc(c).ns = ""
           ELSE MayListAll \/ Doc(c).ns = Default
        /\ GoesOn(c, call[c])

(* supportsGroupVersion of the metrics API.                                *)
Discover(c) ==
  /\ At(c, "discover")
  /\ UNCHANGED <<serverVars, mapper>>
  /\ Fails(c) \/ GoesOn(c, call[c])

(* What a call does next once it has read the object.                      *)
IsManaged(o) == o.label # ""

AfterRead(c, o) ==
  LET next == [call[c] EXCEPT !.read = o]
      rest == Tail(call[c].plan)
  IN CASE Tool(c) = "pods_delete" /\ ~IsManaged(o) -> Goes(c, next, ResourcesDelete)
       [] Tool(c) = "pods_exec" /\ o.mode = "Succeeded" -> Answers(c, "error")
       [] Tool(c) = "tekton_taskrun_logs" /\ o.body = <<>> -> Answers(c, "unchanged")
       [] Tool(c) = "vm_start" /\ o.mode = "Always" -> Answers(c, "unchanged")
       [] Tool(c) = "vm_stop" /\ o.mode = "Halted" -> Answers(c, "unchanged")
       [] OTHER -> Goes(c, next, rest)

Read(c) ==
  /\ At(c, "get")
  /\ UNCHANGED <<serverVars, mapper>>
  /\ \/ Fails(c)
     \/ /\ KeyOf(Doc(c)) \in DOMAIN objects
        /\ AfterRead(c, objects[KeyOf(Doc(c))])

(* The second request of a read, of a log or of a command: the pod or node *)
(* may have gone since. The logs of a task run's containers that cannot be *)
(* had are noted in the answer.                                            *)
Stream(c) ==
  /\ At(c, "stream")
  /\ UNCHANGED <<serverVars, mapper>>
  /\ \/ Fails(c)
     \/ /\ KeyOf(Doc(c)) \in DOMAIN objects
        /\ Tool(c) = "pods_exec" => objects[KeyOf(Doc(c))].mode # "Succeeded"
        /\ GoesOn(c, call[c])
     \/ /\ Tool(c) = "tekton_taskrun_logs"
        /\ GoesOn(c, call[c])
====
