---- MODULE MeshHealth ----
(***************************************************************************)
(* The health summary computed from Kiali's health answer                  *)
(* (pkg/kiali/health_calculation.go).  An entity is an app, a service or a *)
(* workload: its workload statuses in list order, and the set of its       *)
(* request counts by direction, protocol and code.  A code stands for its  *)
(* class: "4xx", "5xx", "-" (aborted), "0", or any other.  Rates are in    *)
(* thousandths; the thresholds are compared with the counts themselves.    *)
(***************************************************************************)
EXTENDS Integers, Sequences, FiniteSetsExt, SequencesExt

CONSTANT TopLimit       \* entities kept in the list of the worst

Statuses == {"UNHEALTHY", "DEGRADED", "NOT_READY", "HEALTHY", "UNKNOWN"}

Priority(s) ==
  CASE s = "UNHEALTHY" -> 4 [] s = "DEGRADED" -> 3 [] s = "NOT_READY" -> 2
    [] s = "HEALTHY" -> 1 [] s = "UNKNOWN" -> 0

mergeHealthStatus(s1, s2) == IF Priority(s1) > Priority(s2) THEN s1 ELSE s2

isErrorCode(r) ==
  \/ r.protocol = "http" /\ r.code \in {"-", "4xx", "5xx"}
  \/ r.protocol = "grpc" /\ r.code # "0"

Total(requests) == MapThenSumSet(LAMBDA r : r.count, requests)

hasAnyRequests(requests) == \E r \in requests : r.count > 0

calculateErrorRate(requests) ==
  IF Total(requests) = 0 THEN 0
  ELSE (1000 * Total({r \in requests : isErrorCode(r)})) \div Total(requests)

(* The count of a code against all requests of its direction and protocol. *)
getStatusForCodeRatio(r, total) ==
  LET degraded == IF r.code = "4xx" THEN 10 ELSE 0
      failure == IF r.code = "4xx" THEN 20 ELSE 10
  IN IF ~isErrorCode(r) \/ r.count = 0 THEN "HEALTHY"
     ELSE IF 100 * r.count >= failure * total THEN "UNHEALTHY"
     ELSE IF 100 * r.count >= degraded * total THEN "DEGRADED" ELSE "HEALTHY"

evaluateRequestHealth(requests) ==
  LET Peers(r) == {q \in requests : q.direction = r.direction /\ q.protocol = r.protocol}
      found == {getStatusForCodeRatio(r, Total(Peers(r))) :
                  r \in {q \in requests : Total(Peers(q)) > 0}}
  IN CHOOSE s \in {"UNHEALTHY", "DEGRADED", "HEALTHY"} :
       /\ s \in found \cup {"HEALTHY"}
       /\ \A t \in found : Priority(t) <= Priority(s)

(* One workload status after those before it.                              *)
WithStatus(status, ws) ==
  LET down == IF ws.available >= ws.desired THEN status
              ELSE IF ws.available = 0 \/ status = "UNHEALTHY" THEN "UNHEALTHY"
              ELSE "DEGRADED"
      unsynced == ws.synced >= 0 /\ ws.synced < ws.available
  IN IF ws.desired = 0 THEN "NOT_READY"
     ELSE IF unsynced /\ down = "HEALTHY" THEN "DEGRADED" ELSE down

(* The workload statuses in list order.                                    *)
WithStatuses(statuses) ==
  LET after[i \in 0 .. Len(statuses)] ==
        IF i = 0 THEN "HEALTHY" ELSE WithStatus(after[i - 1], statuses[i])
  IN after[Len(statuses)]

evaluateAppHealth(e) ==
  IF e.statuses = <<>> THEN "UNKNOWN"
  ELSE mergeHealthStatus(WithStatuses(e.statuses),
                         evaluateRequestHealth(e.requests))

evaluateServiceHealth(e) ==
  IF ~hasAnyRequests(e.requests) THEN "UNKNOWN" ELSE evaluateRequestHealth(e.requests)

(* A workload has one status at most; scaled to 0, its proxies still count *)
(* for nothing, as its status is no longer HEALTHY.                        *)
evaluateWorkloadHealth(e) ==
  IF e.statuses = <<>> /\ ~hasAnyRequests(e.requests) THEN "UNKNOWN"
  ELSE mergeHealthStatus(WithStatuses(e.statuses),
                         evaluateRequestHealth(e.requests))

StatusOf(e) ==
  CASE e.type = "app" -> evaluateAppHealth(e)
    [] e.type = "service" -> evaluateServiceHealth(e)
    [] e.type = "workload" -> evaluateWorkloadHealth(e)

(* The type asked of Kiali, and the only one read from its answer.         *)
HealthType(graphType) ==
  IF graphType \in {"workload", "service"} THEN graphType ELSE "app"

NoCounts == [s \in Statuses |-> 0]
NoNamespace == [counts |-> NoCounts, rate |-> 0]

(* computeHealthSummary: an entity is counted in its namespace and in all. *)
Count(summary, e) ==
  LET status == StatusOf(e)
      rate == calculateErrorRate(e.requests)
      entry == [ns |-> e.ns, name |-> e.name, rate |-> rate]
      space == summary.spaces[e.ns]
  IN [all |-> [summary.all EXCEPT ![status] = @ + 1],
      spaces |-> [summary.spaces EXCEPT ![e.ns] =
                    [counts |-> [space.counts EXCEPT ![status] = @ + 1],
                     rate |-> space.rate + rate]],
      top |-> IF status = "UNHEALTHY" THEN Append(summary.top, entry) ELSE summary.top]

CountOf(counts, statuses) == MapThenSumSet(LAMBDA s : counts[s], statuses)

computeNamespaceStatus(space) ==
  LET unhealthy == space.counts["UNHEALTHY"]
      total == CountOf(space.counts, Statuses)
  IN IF total = 0 THEN "UNKNOWN"
     ELSE IF unhealthy = 0 /\ space.rate < 10 THEN "HEALTHY"
     ELSE IF unhealthy > total \div 2 \/ space.rate > 50 THEN "UNHEALTHY" ELSE "DEGRADED"

(* In thousandths; for a namespace and for the whole mesh.                 *)
computeAvailability(counts) ==
  LET total == CountOf(counts, Statuses)
  IN IF total = 0 THEN 1000
     ELSE (1000 * counts["HEALTHY"] + 500 * counts["DEGRADED"]) \div total

computeOverallStatus(counts) ==
  LET total == CountOf(counts, Statuses)
  IN IF total = 0 THEN "UNKNOWN"
     ELSE IF counts["UNHEALTHY"] > total \div 2 THEN "UNHEALTHY"
     ELSE IF counts["UNHEALTHY"] + counts["DEGRADED"] > 0 THEN "DEGRADED" ELSE "HEALTHY"

(* The exchange sort by error rate, descending: each place is compared     *)
(* with every later one, from the first to the last.                       *)
Exchange(top, i, j) ==
  IF top[j].rate > top[i].rate THEN [top EXCEPT ![i] = top[j], ![j] = top[i]] ELSE top

Settled(top, i) ==
  LET after[j \in i .. Len(top)] == IF j = i THEN top ELSE Exchange(after[j - 1], i, j)
  IN after[Len(top)]

sortUnhealthyByImpact(top) ==
  LET sorted[i \in 0 .. Len(top)] == IF i = 0 THEN top ELSE Settled(sorted[i - 1], i)
  IN sorted[Len(top)]

Cut(top) == SubSeq(top, 1, Min({TopLimit, Len(top)}))

RankedCutFirst(top) == sortUnhealthyByImpact(Cut(top))

Ranked(top) == Cut(sortUnhealthyByImpact(top))

Finished(summary) ==
  [counts |-> summary.all,
   status |-> computeOverallStatus(summary.all),
   availability |-> computeAvailability(summary.all),
   spaces |-> [ns \in DOMAIN summary.spaces |->
                 [counts |-> summary.spaces[ns].counts,
                  rate |-> summary.spaces[ns].rate,
                  status |-> computeNamespaceStatus(summary.spaces[ns]),
                  availability |-> computeAvailability(summary.spaces[ns].counts)]],
   rate |-> MapThenSumSet(LAMBDA ns : summary.spaces[ns].rate, DOMAIN summary.spaces),
   top |-> Ranked(summary.top)]

NothingCounted(spaces) ==
  [all |-> NoCounts, spaces |-> [ns \in spaces |-> NoNamespace], top |-> <<>>]

(* An answer that cannot be parsed: a summary of nothing at all, whose     *)
(* status and availability are left blank.                                 *)
EmptySummary ==
  [Finished(NothingCounted({})) EXCEPT !.status = "", !.availability = 0]
====
