---- MODULE MeshGraph ----
(***************************************************************************)
(* The mesh graph of pkg/kiali/get_mesh_graph.go: four requests to Kiali   *)
(* in parallel, and one answer made of what they brought.  A range over a  *)
(* Go map takes its entries in any order, so the health summary counts the *)
(* entities of a namespace, and the namespaces, in any order.              *)
(***************************************************************************)
EXTENDS MeshHealth

CONSTANTS
  GraphTypes,         \* graph types that a call may ask for
  HealthAnswers       \* parsed health answers: [spaces, entities]

(* Every entity is in a namespace of the answer; counts of requests and of *)
(* replicas are not negative; a service has no workload statuses.          *)
ASSUME HealthAssumption ==
  /\ TopLimit \in Nat
  /\ \A a \in HealthAnswers :
       /\ IsFiniteSet(a.spaces) /\ IsFiniteSet(a.entities)
       /\ \A e \in a.entities :
            /\ e.ns \in a.spaces
            /\ IsFiniteSet(e.requests) /\ \A r \in e.requests : r.count \in Nat
            /\ e.statuses \in Seq(ToSet(e.statuses))
            /\ \A w \in ToSet(e.statuses) : w.desired \in Nat /\ w.available \in Nat
            /\ e.type = "service" => e.statuses = <<>>

VARIABLE mesh         \* the call, see MeshStart; NoMesh when there is none

RawParts == {"graph", "mesh_status", "namespaces"}
Parts == RawParts \cup {"health"}
NoMesh == [graphType |-> "none"]
NoSummary == [status |-> "none"]
Called == mesh # NoMesh

(* outcome: how a request went; errors and summary: the shared response;   *)
(* answer, space, left, counted: the health answer while it is counted.    *)
MeshStart(graphType) ==
  [graphType |-> graphType, outcome |-> [p \in Parts |-> "waiting"], errors |-> {},
   answer |-> [spaces |-> {}, entities |-> {}], space |-> "", left |-> {},
   counted |-> NothingCounted({}), summary |-> NoSummary, result |-> "none"]

GetMeshGraph == \E t \in GraphTypes : mesh' = MeshStart(t)

(* executeRequest: no connection, a status that is not 2xx or a body over  *)
(* the limit is an error; a body may be empty, and is not parsed.          *)
Bodies == {"error", "empty", "garbled", "json"}

AnswerRaw(p) ==
  /\ Called /\ mesh.outcome[p] = "waiting"
  /\ \E b \in Bodies :
       mesh' = [mesh EXCEPT !.outcome[p] = b,
                            !.errors = IF b = "error" THEN @ \cup {p} ELSE @]

AnswerHealth ==
  /\ Called /\ mesh.outcome["health"] = "waiting"
  /\ \/ mesh' = [mesh EXCEPT !.outcome["health"] = "error", !.errors = @ \cup {"health"}]
     \/ mesh' = [mesh EXCEPT !.outcome["health"] = "empty"]
     \/ mesh' = [mesh EXCEPT !.outcome["health"] = "garbled", !.summary = EmptySummary]
     \/ \E a \in HealthAnswers :
          mesh' = [mesh EXCEPT !.outcome["health"] = "counting", !.answer = a,
                               !.left = {e \in a.entities :
                                           e.type = HealthType(mesh.graphType)},
                               !.counted = NothingCounted(a.spaces)]

CountEntity(e) ==
  /\ Called /\ e \in mesh.left
  /\ \/ e.ns = mesh.space
     \/ \A f \in mesh.left : f.ns # mesh.space
  /\ mesh' = [mesh EXCEPT !.space = e.ns, !.left = @ \ {e}, !.counted = Count(@, e)]

FinishHealth ==
  /\ Called /\ mesh.outcome["health"] = "counting" /\ mesh.left = {}
  /\ mesh' = [mesh EXCEPT !.outcome["health"] = "json", !.summary = Finished(mesh.counted)]

AllDoneButOne == \E p \in Parts : \A q \in Parts \ {p} : mesh.outcome[q] \in Bodies

AllDone == \A p \in Parts : mesh.outcome[p] \in Bodies

(* Encoding the response fails on a raw part that is not JSON.             *)
Respond ==
  /\ Called /\ AllDone /\ mesh.result = "none"
  /\ mesh' = [mesh EXCEPT !.result = IF \E p \in RawParts : mesh.outcome[p] = "garbled"
                                     THEN "failed" ELSE "returned"]

MeshNext ==
  \/ \E p \in RawParts : AnswerRaw(p)
  \/ AnswerHealth
  \/ FinishHealth
  \/ Respond
  \/ Called /\ \E e \in mesh.left : CountEntity(e)

----
Shown(p) ==
  IF p = "health" THEN mesh.summary # NoSummary ELSE mesh.outcome[p] = "json"

(* What a returned answer leaves out, it names in its errors: each of the  *)
(* four parts is either there or among the errors, unless Kiali's body for *)
(* it was empty; and a call fails only over a body that is not JSON        *)
(* (get_mesh_graph.go: the wait for the four goroutines, the errors map).  *)
EveryPartAccounted ==
  Called =>
    /\ mesh.result = "returned" =>
         \A p \in Parts : IF mesh.outcome[p] = "empty" THEN ~Shown(p) /\ p \notin mesh.errors
                          ELSE Shown(p) # (p \in mesh.errors)
    /\ mesh.result = "failed" => \E p \in RawParts : mesh.outcome[p] = "garbled"

Entities == {e \in mesh.answer.entities : e.type = HealthType(mesh.graphType)}
Scaled(e) == \E i \in DOMAIN e.statuses : e.statuses[i].desired = 0
Down(e) == \E i \in DOMAIN e.statuses : e.statuses[i].desired > 0 /\ e.statuses[i].available = 0

(* A tenth of the requests of a direction and protocol, or a fifth for 4xx.*)
Failing(e) ==
  \E r \in e.requests :
    LET all == Total({q \in e.requests : <<q.direction, q.protocol>> = <<r.direction, r.protocol>>})
    IN /\ isErrorCode(r) /\ r.count > 0
       /\ IF r.code = "4xx" THEN 5 * r.count >= all ELSE 10 * r.count >= all

Unhealthy(e) == (e.type # "app" \/ e.statuses # <<>>) /\ (Down(e) \/ Failing(e))

(* Once the health answer is counted, in whatever order: every entity is   *)
(* counted once, in its namespace and in all; the unhealthy ones are those *)
(* with a workload that is down or too many failing requests (when none of *)
(* its workloads was scaled to 0); the list of the worst is in descending  *)
(* order of error rate and leaves out nothing worse than what it shows;    *)
(* and the mesh is UNHEALTHY exactly when more than half of it is.         *)
SummaryExact ==
  Called /\ mesh.outcome["health"] = "json" =>
    LET s == mesh.summary
        bad == {e \in Entities : Unhealthy(e)}
        plain == \A e \in Entities : ~Scaled(e)
        listed == {<<s.top[i].ns, s.top[i].name>> : i \in DOMAIN s.top}
    IN /\ CountOf(s.counts, Statuses) = Cardinality(Entities)
       /\ \A t \in Statuses :
            s.counts[t] = MapThenSumSet(LAMBDA ns : s.spaces[ns].counts[t], DOMAIN s.spaces)
       /\ plain => /\ s.counts["UNHEALTHY"] = Cardinality(bad)
                   /\ (s.status = "UNHEALTHY") <=> 2 * Cardinality(bad) > Cardinality(Entities)
                   /\ Len(s.top) = Min({Cardinality(bad), TopLimit})
                   /\ \A e \in bad : <<e.ns, e.name>> \notin listed =>
                        \A i \in DOMAIN s.top : s.top[i].rate >= calculateErrorRate(e.requests)
       /\ \A i, j \in DOMAIN s.top : i < j => s.top[i].rate >= s.top[j].rate
====
