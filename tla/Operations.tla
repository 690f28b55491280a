---- MODULE Operations ----
(***************************************************************************)
(* The tools that change a cluster, and the properties of their changes.   *)
(***************************************************************************)
EXTENDS ToolCalls

CONSTANTS
  Requests,           \* what clients may ask of the tools
  OpenShift,          \* whether routes are served
  InitialObjects, InitialKinds,
  Others,             \* contents other clients may store: [key, content] records
  MaxOthers           \* bound: changes by other clients

vars == <<serverVars, callVars>>

Elsewhere == "elsewhere"

ApplyKeepsMapper(c) ==
  /\ At(c, "apply")
  /\ \/ Fails(c) /\ UNCHANGED mapper
     \/ /\ OnPath(KeyOf(Doc(c)))
        /\ Put(c, KeyOf(Doc(c)), Doc(c).content)
        /\ UNCHANGED mapper
        /\ GoesOn(c, [call[c] EXCEPT !.docs = Tail(@)])
  /\ UNCHANGED served

ApplyPassesOver(c) ==
  /\ At(c, "apply")
  /\ \/ /\ UNCHANGED <<objects, changes, mapper>>
        /\ GoesOn(c, [call[c] EXCEPT !.docs = Tail(@)])
     \/ /\ OnPath(KeyOf(Doc(c)))
        /\ Put(c, KeyOf(Doc(c)), Doc(c).content)
        /\ mapper' = IF Doc(c).kind = "CustomResourceDefinition" THEN Unfilled ELSE mapper
        /\ GoesOn(c, [call[c] EXCEPT !.docs = Tail(@)])
  /\ UNCHANGED served

ApplyCreates(c) ==
  /\ At(c, "apply")
  /\ \/ Fails(c) /\ UNCHANGED mapper
     \/ /\ OnPath(KeyOf(Doc(c)))
        /\ Put(c, Fresh(Doc(c).kind, Doc(c).ns), Doc(c).content)
        /\ mapper' = IF Doc(c).kind = "CustomResourceDefinition" THEN Unfilled ELSE mapper
        /\ GoesOn(c, [call[c] EXCEPT !.docs = Tail(@)])
  /\ UNCHANGED served

(* resourcesCreateOrUpdate: server-side apply with force, one object after *)
(* another; the mapper is reset after a definition.                        *)
Apply(c) ==
  /\ At(c, "apply")
  /\ \/ Fails(c) /\ UNCHANGED mapper
     \/ /\ OnPath(KeyOf(Doc(c)))
        /\ Put(c, KeyOf(Doc(c)), Doc(c).content)
        /\ mapper' = IF Doc(c).kind = "CustomResourceDefinition" THEN Unfilled ELSE mapper
        /\ GoesOn(c, [call[c] EXCEPT !.docs = Tail(@)])
  /\ UNCHANGED served

Delete(c) ==
  /\ At(c, "delete")
  /\ \/ Fails(c)
     \/ /\ KeyOf(Doc(c)) \in DOMAIN objects
        /\ Erase(c, KeyOf(Doc(c)))
        /\ GoesOn(c, call[c])
  /\ UNCHANGED <<served, mapper>>

ManagedAnyName(c, kind) ==
  {k \in DOMAIN objects : k.kind = kind /\ k.ns = Doc(c).ns /\ IsManaged(objects[k])}

ManagedAnyKind(c, kind) ==
  {k \in DOMAIN objects : k.ns = Doc(c).ns /\ objects[k].label = call[c].read.label}

(* PodsDelete: the services, then the routes, that this server manages     *)
(* under the pod's name. A list or a deletion that fails is passed over.   *)
Managed(c, kind) ==
  {k \in DOMAIN objects : /\ k.kind = kind
                          /\ k.ns = Doc(c).ns
                          /\ objects[k].label = call[c].read.label}

ListManaged(c) ==
  /\ At(c, "services") \/ At(c, "routes")
  /\ UNCHANGED <<serverVars, mapper>>
  /\ LET kind == IF At(c, "services") THEN "Service" ELSE "Route"
     IN \/ GoesOn(c, [call[c] EXCEPT !.missed = TRUE])
        \/ /\ kind = "Route" => OpenShift
           /\ GoesOn(c, [call[c] EXCEPT !.found = Managed(c, kind)])
        \/ /\ kind = "Route" /\ ~OpenShift
           /\ GoesOn(c, call[c])

RemoveManaged(c) ==
  /\ At(c, "remove")
  /\ \/ /\ call[c].found = {}
        /\ UNCHANGED <<objects, changes>>
        /\ GoesOn(c, call[c])
     \/ \E k \in call[c].found :
          \/ /\ k \in DOMAIN objects
             /\ Erase(c, k)
             /\ Goes(c, [call[c] EXCEPT !.found = @ \ {k}], call[c].plan)
          \/ /\ UNCHANGED <<objects, changes>>
             /\ Goes(c, [call[c] EXCEPT !.found = @ \ {k}, !.missed = TRUE], call[c].plan)
  /\ UNCHANGED <<served, mapper>>

(* The run strategy, or the scale, an update asks for.                     *)
Wanted(c) ==
  CASE Head(call[c].plan) = "halt" -> "Halted"
    [] Head(call[c].plan) = "start" -> "Always"
    [] Head(call[c].plan) = "scale" -> Doc(c).content.mode
    [] OTHER -> ""

UpdateAnyVersion(c) ==
  /\ At(c, "halt") \/ At(c, "start") \/ At(c, "scale")
  /\ LET k == KeyOf(Doc(c)) IN
     \/ Fails(c)
     \/ /\ k \in DOMAIN objects
        /\ Put(c, k, [Content(call[c].read) EXCEPT !.mode = Wanted(c)])
        /\ GoesOn(c, [call[c] EXCEPT !.read = objects'[k]])
  /\ UNCHANGED <<served, mapper>>

(* UpdateVirtualMachine and ResourcesScale send back what was read, its    *)
(* version included: the server refuses it when the object has changed.    *)
(* The object of the answer is the one the next update starts from.        *)
Update(c) ==
  /\ At(c, "halt") \/ At(c, "start") \/ At(c, "scale")
  /\ LET k == KeyOf(Doc(c)) IN
     \/ Fails(c)
     \/ /\ k \in DOMAIN objects
        /\ objects[k].version = call[c].read.version
        /\ Put(c, k, [Content(call[c].read) EXCEPT !.mode = Wanted(c)])
        /\ GoesOn(c, [call[c] EXCEPT !.read = objects'[k]])
  /\ UNCHANGED <<served, mapper>>

(* A clone, a run of a pipeline or of a task, or a run like an earlier one *)
(* but not stopped, under a name the server makes up.                      *)
Created(c) ==
  LET made(kind, body) == [kind |-> kind, content |-> [label |-> "", mode |-> "", body |-> body]]
  IN CASE Tool(c) = "vm_clone" -> made("VirtualMachineClone", <<Doc(c).name>>)
       [] Tool(c) = "tekton_pipeline_start" -> made("PipelineRun", <<Doc(c).name>>)
       [] Tool(c) = "tekton_task_start" -> made("TaskRun", <<Doc(c).name>>)
       [] OTHER -> made(Doc(c).kind, call[c].read.body)

Create(c) ==
  /\ At(c, "create")
  /\ \/ Fails(c)
     \/ /\ OnPath(Fresh(Created(c).kind, Doc(c).ns))
        /\ Fresh(Created(c).kind, Doc(c).ns) \notin DOMAIN objects
        /\ Put(c, Fresh(Created(c).kind, Doc(c).ns), Created(c).content)
        /\ GoesOn(c, call[c])
  /\ UNCHANGED <<served, mapper>>

(* The lists of vm_create, each of which may fail, and the choice it makes.*)
Search(c) ==
  /\ At(c, "search")
  /\ UNCHANGED <<serverVars, mapper>>
  /\ \E listed \in SUBSET (WellKnownNamespaces \cup {"all"}),
        scoped \in SUBSET {"cluster", "namespaced"} :
       LET ns == Doc(c).ns IN
       \E vm \in BuildTemplateParams(call[c].request.vm,
                                     SearchDataSources(DataSources, listed),
                                     SearchScoped(Preferences, ns, scoped),
                                     SearchScoped(Instancetypes, ns, scoped)) :
         GoesOn(c, [call[c] EXCEPT !.docs[1].content.body = <<vm>>,
                                   !.missed = ~("all" \in listed /\ Cardinality(scoped) = 2)])

----
(* The documents a call stores; the others name one object only. A run's   *)
(* port is exposed by a service, and by a route if discovery tells of them.*)
(* (A run without a name gets a random one: it is a request with a name of *)
(* its own.)                                                               *)
PodsRun(r, routes) ==
  LET labelled(kind) == [r.doc EXCEPT !.kind = kind, !.ns = NamespaceOrDefault(@),
                                      !.content.label = r.doc.name]
      kinds == CASE ~r.option -> <<"Pod">>
                 [] r.option /\ ~routes -> <<"Pod", "Service">>
                 [] r.option /\ routes -> <<"Pod", "Service", "Route">>
  IN [i \in DOMAIN kinds |-> labelled(kinds[i])]

(* Tools that turn no namespace into the default one themselves.           *)
Namespaced == {"pods_get", "pods_delete", "pods_exec", "pods_log", "tekton_pipeline_start",
               "tekton_pipelinerun_restart", "tekton_task_start", "tekton_taskrun_restart",
               "tekton_taskrun_logs"}

Documents(r, routes) ==
  CASE r.tool = "resources_create_or_update" -> r.docs
    [] r.tool = "pods_run" -> PodsRun(r, routes)
    [] r.tool \in Namespaced \/ (r.tool = "pods_top" /\ ~r.option) ->
         <<[r.doc EXCEPT !.ns = NamespaceOrDefault(@)]>>
    [] OTHER -> <<r.doc>>

(* The arguments are examined before anything is asked of the cluster. A   *)
(* manifest of no documents is done with at once.                          *)
Begin(c) ==
  /\ call[c] = NoCall
  /\ \E r \in Requests, routes \in {OpenShift, FALSE} :
       LET docs == Documents(r, routes)
           plan == Plan(r, docs)
           next == [NoCall EXCEPT !.request = r, !.docs = docs, !.kinds = served,
                      !.began = Len(changes),
                      !.ended = IF plan \in {<<>>, Invalid} THEN Len(changes) ELSE 0]
       IN call' = [call EXCEPT ![c] =
            IF plan # Invalid THEN [next EXCEPT !.plan = plan, !.answer = "ok"]
            ELSE [next EXCEPT !.answer = "invalid"]]
  /\ UNCHANGED <<serverVars, mapper>>

(* Other clients store and remove objects.                                 *)
ByOthers == Cardinality({i \in DOMAIN changes : changes[i].by = Elsewhere})

Otherwise ==
  /\ ByOthers < MaxOthers
  /\ \E o \in Others :
       \/ Put(Elsewhere, o.key, o.content)
       \/ o.key \in DOMAIN objects /\ Erase(Elsewhere, o.key)
  /\ UNCHANGED <<served, callVars>>

Step(c) ==
  \/ Begin(c)         \/ MapKind(c)       \/ Review(c)        \/ List(c)
  \/ Discover(c)      \/ Read(c)          \/ Stream(c)        \/ Apply(c)
  \/ Delete(c)        \/ ListManaged(c)   \/ RemoveManaged(c) \/ Update(c)
  \/ Create(c)        \/ Search(c)

Next ==
  \/ \E c \in Calls : Step(c)
  \/ Otherwise
  \/ Establish /\ UNCHANGED callVars

Init ==
  /\ objects = InitialObjects
  /\ served = InitialKinds
  /\ changes = <<>>
  /\ call = [c \in Calls |-> NoCall]
  /\ mapper = Unfilled

Spec == Init /\ [][Next]_vars
----
Over(c) == call[c] # NoCall /\ call[c].plan = <<>>

ChangesBy(c) == {i \in DOMAIN changes : changes[i].by = c}

(* What an object was after the first n changes.                           *)
ContentAfter(n, k) ==
  LET later == {i \in DOMAIN changes : i > n /\ changes[i].key = k}
  IN IF later = {} THEN Content(Object(k))
     ELSE Content(changes[CHOOSE i \in later : \A j \in later : i <= j].was)

(* No other client and no other call changed anything during the call.     *)
Alone(c) == \A i \in DOMAIN changes : i > call[c].began => changes[i].by = c

Modes == {"", "Always", "Halted", "Manual", "Succeeded", "Stopped", "1", "2"}

TypeOK ==
  /\ \A k \in DOMAIN objects : /\ objects[k].version \in 1..(Len(changes) + 1)
                               /\ objects[k].mode \in Modes
  /\ mapper \subseteq served
  /\ \A c \in Calls :
       /\ call[c].answer \in {"", "ok", "unchanged", "error", "noMatch", "invalid"}
       /\ call[c].ended # 0 => Over(c)
       /\ ~Over(c) /\ call[c] # NoCall => call[c].docs # <<>>
       /\ \A k \in call[c].found : k.kind \in {"Service", "Route"}
       /\ call[c].began <= Len(changes) /\ call[c].ended <= Len(changes)

(* Where requests reach the object of a document, and whether documents    *)
(* are each about an object of its own.                                    *)
Home(d) == KeyOf([d EXCEPT !.ns = NamespaceOrDefault(@)])

Target(d) == IF d.kind \in ClusterKinds THEN KeyOf(d) ELSE Home(d)

Apart(docs) == \A i, j \in DOMAIN docs : Target(docs[i]) = Target(docs[j]) => i = j

(* The annotations of the tools, as a client may rely on them: a read-only *)
(* tool changes nothing, one that is not destructive only adds objects, and*)
(* an idempotent one that is called again with the same arguments, nothing *)
(* else having happened, never changes anything any more, however far it   *)
(* gets. (Of a manifest with two documents about one object the repetition *)
(* brings the first one back on its way to the second.)                    *)
(* (pods_run, and vm_create and vm_clone, are not held to the second and   *)
(* the third: the README says why.)                                        *)
Changing == {"resources_create_or_update", "resources_delete", "resources_scale",
             "pods_delete", "pods_exec", "pods_run", "vm_start", "vm_stop", "vm_restart",
             "vm_clone", "vm_create", "tekton_pipeline_start", "tekton_task_start",
             "tekton_pipelinerun_restart", "tekton_taskrun_restart"}
Additive == {"tekton_pipeline_start", "tekton_pipelinerun_restart", "tekton_task_start",
             "tekton_taskrun_restart"}
Idempotent == {"resources_create_or_update", "resources_delete", "resources_scale",
               "pods_delete"}

OnlyAdds(c) == \A i \in ChangesBy(c) : changes[i].was = NoObject

(* Since c began nothing happened but what c did, and after its end what d *)
(* does.                                                                   *)
Repeats(c, d) ==
  /\ Over(c) /\ call[c].answer = "ok" /\ c # d /\ call[c].request = call[d].request
  /\ call[d].began >= call[c].ended
  /\ \A i \in DOMAIN changes :
       i > call[c].began => changes[i].by = IF i > call[c].ended THEN d ELSE c

HintsHold ==
  \A c \in Calls :
    /\ Tool(c) \notin Changing => ChangesBy(c) = {}
    /\ Tool(c) \in Additive => OnlyAdds(c)
    /\ Tool(c) \in Idempotent /\ Apart(call[c].request.docs) =>
         \A d \in Calls : Repeats(c, d) => ChangesBy(d) = {}

(* An update replaces nothing its call has not seen: what another call or  *)
(* client stored between the reading of a virtual machine or of a scale    *)
(* and its update, or between the two updates of a restart, is not lost.   *)
SeenBeforeReplaced ==
  [][\A c \in Calls :
       (/\ Tool(c) \in {"vm_start", "vm_stop", "vm_restart", "resources_scale"}
        /\ changes' # changes /\ changes'[Len(changes')].by = c)
       => changes'[Len(changes')].was = call[c].read]_vars

(* A manifest with a document that does not parse changes nothing; an      *)
(* answer without error means that every document was stored at some time  *)
(* of the call; and what an error leaves behind are documents from the     *)
(* front of the manifest only, as it has them.                             *)
Manifest(c) ==
  IF Tool(c) = "pods_run" THEN PodsRun(call[c].request, FALSE) ELSE call[c].request.docs

ManifestApplied ==
  \A c \in Calls :
    (Tool(c) \in {"resources_create_or_update", "pods_run"} /\ Over(c)) =>
      LET docs == Manifest(c)
          stored(d) == \E n \in call[c].began..call[c].ended :
                         ContentAfter(n, Home(d)) = d.content
          passed == Len(docs) - Len(call[c].docs)
      IN /\ call[c].answer = "invalid" => ChangesBy(c) = {}
         /\ call[c].answer = "ok" =>
              \A i \in DOMAIN docs : docs[i].kind \in ClusterKinds \/ stored(docs[i])
         /\ Tool(c) # "pods_run" =>
              \A i \in ChangesBy(c) : \E j \in 1..passed :
                 /\ changes[i].key \in {KeyOf(docs[j]), Home(docs[j])}
                 /\ Content(changes[i].now) = docs[j].content

(* A manifest may define a kind and use it: a kind that discovery told of  *)
(* when the call began is known once the call has stored its definition,   *)
(* however old the mapper it found and whatever other calls looked up.     *)
OwnDefinitionsKnown ==
  \A c \in Calls :
    (call[c].answer = "noMatch" /\ Doc(c).kind \in call[c].kinds) =>
      \A i \in DOMAIN call[c].request.docs :
        LET d == call[c].request.docs[i] IN
        (i <= Len(call[c].request.docs) - Len(call[c].docs)
           /\ d.kind = "CustomResourceDefinition")
        => Defines[d.name] # Doc(c).kind

(* What exposes the pod that a call deletes: routes exist on OpenShift only. *)
Exposing == IF OpenShift THEN {"Service", "Route"} ELSE {"Service"}

Exposes(k, c) ==
  LET label == ContentAfter(call[c].began, KeyOf(Doc(c))).label
  IN /\ k.kind \in Exposing /\ k.ns = Doc(c).ns
     /\ label # "" /\ ContentAfter(call[c].began, k).label = label

(* The deletion of a pod this server runs takes the services and routes    *)
(* that go with it and nothing else, when no request of it failed and no   *)
(* one else changed the cluster meanwhile.                                 *)
PodsDeleteExact ==
  \A c \in Calls :
    (Tool(c) = "pods_delete" /\ Over(c) /\ call[c].answer = "ok"
       /\ ~call[c].missed /\ Alone(c)) =>
      \A k \in DOMAIN objects \cup {changes[i].key : i \in ChangesBy(c)} :
        k \in DOMAIN objects <=> k # KeyOf(Doc(c)) /\ ~Exposes(k, c)

(* A virtual machine is of the type and the preference its client named;   *)
(* where it named none and every list was answered, of one the cluster has *)
(* in its namespace or for all, and never of one of another size or, when  *)
(* one of that size is, of another family than it hinted at.               *)
AsAsked(r, vm, missed) ==
  LET a == r.vm
      sized == {i \in DOMAIN Instancetypes : /\ Within(a.size, Instancetypes[i].name)
                                             /\ Instancetypes[i].ns \in {None, r.doc.ns}}
      suits(i) == NormalizePerformance(a.performance)
                    \in {Instancetypes[i].family, Instancetypes[i].class}
      chosen == {i \in sized : Instancetypes[i].name = vm.type.name}
  IN /\ a.type # None => vm.type.name = a.type
     /\ a.preference # None => vm.preference.name = a.preference
     /\ a.type = None /\ a.size # None /\ ~missed =>
          IF \E i \in sized : suits(i) THEN \E i \in chosen : suits(i)
          ELSE sized = {} \/ chosen # {}

CreatedAsAsked ==
  \A c \in Calls :
    (Tool(c) = "vm_create" /\ Over(c) /\ call[c].answer = "ok") =>
      LET r == call[c].request
          made == ContentAfter(call[c].ended, Target(r.doc))
      IN AsAsked(r, made.body[1], call[c].missed) /\ made.mode = r.doc.content.mode
----
(* The documents of requests are objects, and only manifests have several. *)
IsSequence(s) == s \in Seq({s[i] : i \in DOMAIN s})

IsDocument(d) ==
  d = [kind |-> d.kind, ns |-> d.ns, name |-> d.name, content |-> Content(d.content)]

Reading == {"resources_get", "resources_list", "pods_list", "pods_list_in_namespace",
            "pods_get", "pods_top", "pods_log", "nodes_log", "nodes_stats_summary", "nodes_top",
            "events_list", "namespaces_list", "projects_list", "tekton_taskrun_logs"}

ASSUME OperationsAssumption ==
  /\ Elsewhere \notin Calls
  /\ OpenShift \in BOOLEAN
  /\ \A k \in DOMAIN InitialObjects : OnPath(k) /\ InitialObjects[k].version = 1
  /\ \A o \in Others : OnPath(o.key)
  /\ \A r \in Requests :
       /\ r.tool \in Changing \cup Reading
       /\ IsDocument(r.doc) /\ r.option \in BOOLEAN
       /\ IsSequence(r.docs) /\ \A i \in DOMAIN r.docs : IsDocument(r.docs[i])
       /\ r.tool # "resources_create_or_update" => r.docs = <<>>

(* What vm_create chooses from are lists, of instance types with a name.   *)
ASSUME CatalogAssumption ==
  /\ IsSequence(Preferences) /\ IsSequence(Instancetypes)
  /\ \A i \in DOMAIN Instancetypes : Instancetypes[i].name # None

(* The safety properties, made inductive.                                  *)

CallsShaped ==
  /\ IsSequence(changes)
  /\ DOMAIN call = Calls
  /\ \A c \in Calls :
       /\ DOMAIN call[c] = DOMAIN NoCall
       /\ call[c] = NoCall \/ call[c].request \in Requests
       /\ call[c].began \in 0..Len(changes) /\ call[c].ended \in 0..Len(changes)

(* Versions tell objects apart: a version belongs to what the change of    *)
(* that number made, or to what there was before all changes.              *)
Recorded(k, o) ==
  \/ o.version = 1 /\ k \in DOMAIN InitialObjects /\ o = InitialObjects[k]
  \/ o.version - 1 \in DOMAIN changes /\ o = changes[o.version - 1].now

VersionsTell == \A k \in DOMAIN objects : Recorded(k, objects[k])

(* The plans of the tools the properties speak of.                         *)
Replacing == {"vm_start", "vm_stop", "vm_restart", "resources_scale"}
Applying == {"resources_create_or_update", "pods_run"}
Updates == {"halt", "start", "scale"}

ReadsThenUpdates(p) ==
  /\ p \in Seq({"map", "get"} \cup Updates)
  /\ \A i \in 2..Len(p) : p[i] \in Updates \/ (p[i] = "get" /\ i = 2 /\ p[1] = "map")
  /\ p # <<>> /\ p[1] = "map" => Len(p) > 1 /\ p[2] = "get"

MapsAndApplies(p, docs) ==
  /\ p \in Seq({"map", "apply"}) /\ IsSequence(docs)
  /\ \A i \in DOMAIN p : p[i] = IF (Len(p) - i) % 2 = 0 THEN "apply" ELSE "map"
  /\ p # <<>> => Len(p) \in {2 * Len(docs), 2 * Len(docs) - 1}

PlansKept ==
  \A c \in Calls :
    LET p == call[c].plan IN
    /\ Tool(c) \in Reading => p \in Seq({"map", "review", "list", "get", "stream", "discover"})
    /\ Tool(c) \in Additive => p \in Seq({"get", "create"})
    /\ Tool(c) \in Replacing => ReadsThenUpdates(p)
    /\ Tool(c) \in Applying =>
         /\ MapsAndApplies(p, call[c].docs)
         /\ IF p # <<>> THEN call[c].answer = "ok"
            ELSE call[c].answer = "ok" => call[c].docs = <<>>

(* A call that is about to update knows the object by its version.         *)
ReadsKept ==
  \A c \in Calls :
    Tool(c) \in Replacing /\ call[c].plan # <<>> /\ Head(call[c].plan) \in Updates
      => Recorded(KeyOf(Doc(c)), call[c].read)

(* How far a manifest has got: what is left of its documents, and what has *)
(* become of those before.                                                 *)
Placed(d) == {d, [d EXCEPT !.ns = NamespaceOrDefault(@)]}

Until(c) == IF Over(c) THEN call[c].ended ELSE Len(changes)

GotTo(c, full) ==
  LET docs == call[c].docs
      passed == Len(full) - Len(docs)
  IN /\ passed \in Nat
     /\ \A j \in DOMAIN docs : docs[j] \in Placed(full[passed + j])
     /\ \A i \in 1..passed : \/ full[i].kind \in ClusterKinds
                             \/ \E n \in call[c].began..Until(c) :
                                  ContentAfter(n, Home(full[i])) = full[i].content
     /\ \A i \in ChangesBy(c) : \E j \in 1..passed :
          /\ changes[i].key \in {KeyOf(full[j]), Home(full[j])}
          /\ Content(changes[i].now) = full[j].content

ManifestsGotTo ==
  \A c \in Calls :
    Tool(c) \in Applying =>
      IF call[c].answer = "invalid" THEN ChangesBy(c) = {} /\ Over(c)
      ELSE \E routes \in BOOLEAN : GotTo(c, Documents(call[c].request, routes))

(* A mapper is filled with what discovery tells of, which is never less    *)
(* than before, and is emptied by the definitions a manifest has stored.   *)
HasDefined(c) ==
  \E i \in 1 .. Len(call[c].request.docs) - Len(call[c].docs) :
    call[c].request.docs[i].kind = "CustomResourceDefinition"

MapperFresh ==
  \A c \in Calls :
    /\ call[c].kinds \subseteq served
    /\ Tool(c) = "resources_create_or_update" /\ call[c].answer # "invalid" /\ HasDefined(c) =>
         /\ mapper = Unfilled \/ call[c].kinds \subseteq mapper
         /\ call[c].answer = "noMatch" => Doc(c).kind \notin call[c].kinds

(* What only reads changes nothing, what only adds overwrites nothing.     *)
HintsOfOne ==
  \A c \in Calls :
    /\ Tool(c) \notin Changing => ChangesBy(c) = {}
    /\ Tool(c) \in Additive => OnlyAdds(c)

(* The deletion of a pod, by the steps that are left of it: what it has    *)
(* removed was the pod's, and what of the pod's is still there is found or *)
(* yet to be looked for.                                                   *)
Deletions ==
  { <<"delete">>, <<"map", "delete">>, <<"remove", "map", "delete">>,
    <<"routes", "remove", "map", "delete">>,
    <<"remove", "routes", "remove", "map", "delete">>,
    <<"services", "remove", "routes", "remove", "map", "delete">>,
    <<"get", "services", "remove", "routes", "remove", "map", "delete">>,
    <<"map", "get", "services", "remove", "routes", "remove", "map", "delete">> }

Expected(k, c, left) ==
  \/ left >= 6
  \/ left \in {4, 5} /\ k.kind = "Route"
  \/ left \in {3, 5} /\ k \in call[c].found

DeletionHolds(c, left) ==
  /\ \A i \in DOMAIN changes : i > call[c].began =>
       /\ changes[i].key \notin DOMAIN objects
       /\ changes[i].key = KeyOf(Doc(c)) \/ Exposes(changes[i].key, c)
  /\ left \in 3..6 =>
       /\ call[c].read.label # ""
       /\ call[c].read.label = ContentAfter(call[c].began, KeyOf(Doc(c))).label
  /\ left \in {3, 5} => \A k \in call[c].found : Exposes(k, c)
  /\ left = 4 => call[c].found = {}
  /\ \A k \in DOMAIN objects : Exposes(k, c) => Expected(k, c, left)
  /\ left = 0 => KeyOf(Doc(c)) \notin DOMAIN objects

DeletionsKept ==
  \A c \in Calls : Tool(c) = "pods_delete" =>
    /\ call[c].docs = Documents(call[c].request, FALSE)
    /\ \A i \in ChangesBy(c) : i > call[c].began
    /\ call[c].plan # <<>> => call[c].plan \in Deletions
    /\ call[c].answer = "ok" /\ ~call[c].missed /\ Alone(c) =>
         DeletionHolds(c, Len(call[c].plan))

(* Objects are on the path of their scope; and what a call changes it      *)
(* changes after its beginning, which is before its end.                   *)
PathsKept == \A k \in DOMAIN objects : OnPath(k)

ChangedSince ==
  \A c \in Calls : /\ \A i \in ChangesBy(c) : i > call[c].began
                   /\ Over(c) => call[c].began <= call[c].ended

(* The tools that name one object stay with it; and what the last of their *)
(* changes has left is what they were asked for.                           *)
Naming == {"resources_delete", "resources_scale", "pods_delete"}

NamedPlans(r) ==
  CASE r.tool = "resources_delete" -> {<<"map", "delete">>, <<"delete">>}
    [] r.tool = "resources_scale" /\ r.doc.content.mode = None -> {<<"map", "get">>, <<"get">>}
    [] r.tool = "resources_scale" /\ r.doc.content.mode # None ->
         {<<"map", "get", "scale">>, <<"get", "scale">>, <<"scale">>}
    [] OTHER -> Deletions

NamedKept ==
  \A c \in Calls :
    Tool(c) \in Naming =>
      /\ call[c].docs \in {<<e>> : e \in Placed(call[c].request.doc)}
      /\ call[c].plan # <<>> => call[c].plan \in NamedPlans(call[c].request)

Reached(r) ==
  LET k == Target(r.doc)
  IN IF r.tool # "resources_scale" THEN k \notin DOMAIN objects
     ELSE r.doc.content.mode # None =>
            k \in DOMAIN objects /\ objects[k].mode = r.doc.content.mode

ReachedKept ==
  \A c \in Calls :
    Tool(c) \in Naming /\ Over(c) /\ call[c].answer = "ok" /\ call[c].ended = Len(changes)
      => Reached(call[c].request)

(* The documents a manifest has stored are there for as long as nobody     *)
(* else changes anything.                                                  *)
AppliedKept ==
  \A c \in Calls :
    LET docs == call[c].request.docs IN
    (/\ Tool(c) = "resources_create_or_update" /\ call[c].answer # "invalid"
     /\ Apart(docs) /\ Alone(c)) =>
      \A j \in 1 .. Len(docs) - Len(call[c].docs) :
        /\ Target(docs[j]) \in DOMAIN objects
        /\ Content(objects[Target(docs[j])]) = docs[j].content

(* A repetition finds everything done: it has changed nothing, and of a    *)
(* pod that is gone it gets no further than to look for it.                *)
RepeatsKept ==
  \A c, d \in Calls :
    Tool(c) \in Idempotent /\ Apart(call[c].request.docs) /\ Repeats(c, d) =>
      /\ call[c].ended = Len(changes)
      /\ Tool(c) = "pods_delete" /\ call[d].plan # <<>> => Len(call[d].plan) >= 7

(* What vm_create has chosen goes with its document until it is stored.    *)
Chosen(r, was, made, missed) ==
  LET vm == made.body[1]
  IN AsAsked(r, vm, missed) /\ made = [was EXCEPT !.body = <<vm>>]

CreationsKept ==
  \A c \in Calls :
    Tool(c) = "vm_create" =>
      LET r == call[c].request
          p == call[c].plan
          ChosenAs(made) == Chosen(r, r.doc.content, made, call[c].missed)
      IN /\ p \in {<<"search", "map", "apply">>, <<"map", "apply">>, <<"apply">>, <<>>}
         /\ p = <<"search", "map", "apply">> => call[c].docs = <<r.doc>>
         /\ p \in {<<"map", "apply">>, <<"apply">>} =>
              /\ call[c].docs \in {<<[e EXCEPT !.content = Doc(c).content]>> : e \in Placed(r.doc)}
              /\ ChosenAs(Doc(c).content)
         /\ Over(c) /\ call[c].answer = "ok" => ChosenAs(ContentAfter(call[c].ended, Target(r.doc)))

OperationsInv ==
  /\ CallsShaped /\ VersionsTell /\ PlansKept /\ ReadsKept
  /\ ManifestsGotTo /\ MapperFresh /\ HintsOfOne /\ DeletionsKept
  /\ PathsKept /\ ChangedSince /\ NamedKept /\ ReachedKept /\ AppliedKept
  /\ RepeatsKept /\ CreationsKept
====
