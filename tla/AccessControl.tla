---------------------------- MODULE AccessControl ----------------------------
(***************************************************************************)
(* A tool call and the API requests its handler makes, on their way past   *)
(* what may stop them: the tool-level confirmation rules, the denied       *)
(* resources, the pre-flight validators and the kube-level confirmation    *)
(* rules.  The user is asked through the client, which may not support it. *)
(*                                                                         *)
(* The MCP layer reads the configuration a reload has put in force; the    *)
(* clients of the cluster keep the one of the start.                       *)
(***************************************************************************)
EXTENDS RequestPaths, FiniteSets

CONSTANTS
  Calls,         \* goroutines that serve tool calls
  Tools,         \* a tool: its name, and its destructive hint, or Unset
  Requests,      \* API requests a handler may make
  Known,         \* resources the cluster has
  Configs,       \* configurations, of the start and of reloads
  MaxReloads,    \* bound: reloads
  MaxRequests    \* bound: requests of a handler

\* Read checks the fallback of every configuration.  No subresource of a
\* namespace has the name of a resource of the cluster.
ASSUME AccessAssumption ==
  /\ \A g \in Configs : g.fallback \in {Unset, "allow", "deny"} /\ g.validation \in BOOLEAN
  /\ Requests # {} /\ \A q \in Requests : WellFormed(q)
  /\ \A q \in Requests : q.resource = "namespaces" /\ q.sub # Unset =>
       [group |-> q.group, resource |-> q.sub] \notin Known
  /\ MaxReloads \in Nat /\ MaxRequests \in Nat

VARIABLES
  base,      \* the configuration the provider was started with
  live,      \* the one in force in the MCP server
  reloads,
  able,      \* whether the client supports elicitation
  at,        \* where each call stands
  tool,      \* the tool it calls
  seen,      \* the configurations in force since it began
  fallback,  \* the fallback it has read
  request,   \* the API request of its handler
  made,      \* requests of the handler so far
  asked,     \* what the user said, or the fallback, to the last question
  outcome    \* what became of the tool call, or of the last request

vars == <<base, live, reloads, able, at, tool, seen, fallback, request, made, asked, outcome>>
configs == <<base, live, reloads, able>>

Places == {"idle", "match", "merge", "askTool", "handler", "path", "validate",
           "confirm", "askRequest"}
Outcomes == {"none", "denied", "unknown", "invalid", "declined", "failed", "delivered"}

TypeOK ==
  /\ base \in Configs /\ live \in Configs
  /\ reloads \in 0 .. MaxReloads
  /\ able \in BOOLEAN
  /\ at \in [Calls -> Places]
  /\ tool \in [Calls -> Tools]
  /\ seen \in [Calls -> SUBSET Configs]
  /\ fallback \in [Calls -> {Unset, "allow", "deny"}]
  /\ request \in [Calls -> Requests]
  /\ made \in [Calls -> 0 .. MaxRequests]
  /\ asked \in [Calls -> {"not", "accepted", "fallback"}]
  /\ outcome \in [Calls -> Outcomes]

Init ==
  /\ base \in Configs /\ live = base
  /\ reloads = 0
  /\ able \in BOOLEAN
  /\ at = [c \in Calls |-> "idle"]
  /\ tool \in [Calls -> Tools]
  /\ seen = [c \in Calls |-> {}]
  /\ fallback = [c \in Calls |-> Unset]
  /\ request = [c \in Calls |-> CHOOSE q \in Requests : TRUE]
  /\ made = [c \in Calls |-> 0]
  /\ asked = [c \in Calls |-> "not"]
  /\ outcome = [c \in Calls |-> "none"]

-----------------------------------------------------------------------------
(* The rules                                                                *)

Fits(wanted, value) == wanted \in {Unset, value}

\* MatchToolLevelRules: an unset hint fits no rule that wants one.
ToolRules(g, t) ==
  {r \in g.toolRules : Fits(r.tool, t.name) /\ Fits(r.destructive, t.destructive)}

\* What the round tripper knows of a request, all of it from the path.
Parsed(q) ==
  LET p == Stripped(PathOf(q))
  IN [verb |-> Verb(q.method, p), group |-> Resource(p).group,
      resource |-> Resource(p).resource, name |-> Name(p), namespace |-> Namespace(p)]

\* MatchKubeLevelRules, for the request as it is.
KubeRules(g, q) == {r \in g.kubeRules : \A f \in DOMAIN r : Fits(r[f], q[f])}

\* A defect: an entry without a kind denies nothing.
IsDeniedKindOnly(g, q) ==
  \E d \in g.denied : d.group = q.group /\ d.resource = q.resource

\* isAllowed: an entry without a kind denies its whole group and version.
IsDenied(g, q) == \E d \in g.denied : d.group = q.group /\ Fits(d.resource, q.resource)

Review == [group |-> "authorization.k8s.io", resource |-> "selfsubjectaccessreviews"]
IsReview(q) == q.group = Review.group /\ q.resource = Review.resource

-----------------------------------------------------------------------------
(* CheckConfirmation                                                        *)

Answer(c, said, to) ==
  /\ asked' = [asked EXCEPT ![c] = said]
  /\ at' = [at EXCEPT ![c] = to]
  /\ UNCHANGED <<configs, tool, seen, fallback, request, made, outcome>>

End(c, to, what) ==
  /\ at' = [at EXCEPT ![c] = to]
  /\ outcome' = [outcome EXCEPT ![c] = what]
  /\ UNCHANGED <<configs, tool, seen, fallback, request, made, asked>>

\* A defect: every error of the client counts as one that cannot be asked.
ElicitLax(c, session, yes, no) ==
  \/ able /\ session /\ Answer(c, "accepted", yes)
  \/ fallback[c] # "deny" /\ Answer(c, "fallback", yes)
  \/ End(c, no, "declined")

\* The client asks the user, who accepts or declines; one that cannot is
\* answered for by the fallback, and any other error stops the operation.
Elicit(c, session, yes, no) ==
  \/ able /\ session /\ Answer(c, "accepted", yes)
  \/ able /\ session /\ End(c, no, "declined")
  \/ ~able /\ session /\ fallback[c] # "deny" /\ Answer(c, "fallback", yes)
  \/ ~able /\ session /\ fallback[c] = "deny" /\ End(c, no, "declined")
  \/ End(c, no, "failed")

-----------------------------------------------------------------------------
(* ServerToolToGoSdkTool: the handler of a tool                             *)

Go(c, from, to) ==
  /\ at[c] = from
  /\ at' = [at EXCEPT ![c] = to]

CallTool(c, t) ==
  /\ Go(c, "idle", "match")
  /\ tool' = [tool EXCEPT ![c] = t]
  /\ seen' = [seen EXCEPT ![c] = {live}]
  /\ asked' = [asked EXCEPT ![c] = "not"]
  /\ outcome' = [outcome EXCEPT ![c] = "none"]
  /\ made' = [made EXCEPT ![c] = 0]
  /\ UNCHANGED <<configs, fallback, request>>

\* CheckToolRules reads the rules ...
MatchTool(c) ==
  /\ Go(c, "match", IF ToolRules(live, tool[c]) = {} THEN "handler" ELSE "merge")
  /\ UNCHANGED <<configs, tool, seen, fallback, request, made, asked, outcome>>

\* ... and then the fallback, from what may be another configuration.
MergeTool(c) ==
  /\ Go(c, "merge", "askTool")
  /\ fallback' = [fallback EXCEPT ![c] = live.fallback]
  /\ UNCHANGED <<configs, tool, seen, request, made, asked, outcome>>

ElicitTool(c) == at[c] = "askTool" /\ Elicit(c, TRUE, "handler", "idle")

\* The handler of the tool makes a request, or is done.
MakeRequest(c, q) ==
  /\ Go(c, "handler", "path")
  /\ made[c] < MaxRequests
  /\ made' = [made EXCEPT ![c] = @ + 1]
  /\ request' = [request EXCEPT ![c] = q]
  /\ asked' = [asked EXCEPT ![c] = "not"]
  /\ outcome' = [outcome EXCEPT ![c] = "none"]
  /\ UNCHANGED <<configs, tool, seen, fallback>>

Return(c) == at[c] = "handler" /\ End(c, "idle", outcome[c])

-----------------------------------------------------------------------------
(* AccessControlRoundTripper.RoundTrip                                      *)

\* Discovery passes.  An unknown resource and a denied one are refused, and
\* the review the RBAC validator asks for is let through.
CheckPath(c) ==
  LET q == request[c]
      p == Stripped(PathOf(q))
  IN /\ at[c] = "path"
     /\ IF ~IsResource(p) THEN End(c, "handler", "delivered")
        ELSE IF Resource(p) \notin Known THEN End(c, "handler", "unknown")
        ELSE IF IsDenied(base, Resource(p)) THEN End(c, "handler", "denied")
        ELSE IF IsReview(Resource(p)) THEN End(c, "handler", "delivered")
        ELSE /\ Go(c, "path", "validate")
             /\ UNCHANGED <<configs, tool, seen, fallback, request, made, asked, outcome>>

\* The review of the RBAC validator is a request of its own, and is refused
\* where reviews are denied; the validator lets pass what it cannot find out.
\* So does the schema validator, which looks at whole objects only.
RBACVerdicts == IF IsDenied(base, Review) THEN {"pass"} ELSE {"pass", "refuse"}
SchemaVerdicts(q) == IF q.method \in {"POST", "PUT"} THEN {"pass", "refuse"} ELSE {"pass"}

Verdicts(q) == IF base.validation THEN RBACVerdicts \cup SchemaVerdicts(q) ELSE {"pass"}

\* A defect: the user is asked first, and the validators come after.
ValidateLast(c) ==
  /\ at[c] = "validate"
  /\ LET rules == KubeRules(base, Parsed(request[c]))
     IN IF rules = {} \/ asked[c] # "not"
        THEN \E verdict \in Verdicts(request[c]) :
               End(c, "handler", IF verdict = "refuse" THEN "invalid" ELSE "delivered")
        ELSE /\ fallback' = [fallback EXCEPT ![c] = base.fallback]
             /\ asked' = [asked EXCEPT ![c] = "accepted"]
             /\ UNCHANGED <<configs, tool, seen, request, made, outcome, at>>

\* The validators, in the order of their names, before the confirmation.
Validate(c) ==
  /\ at[c] = "validate"
  /\ \E verdict \in Verdicts(request[c]) :
       IF verdict = "refuse" THEN End(c, "handler", "invalid")
       ELSE /\ Go(c, "validate", "confirm")
            /\ UNCHANGED <<configs, tool, seen, fallback, request, made, asked, outcome>>

\* CheckKubeRules, with the rules and the fallback of the start.
Confirm(c) ==
  /\ at[c] = "confirm"
  /\ IF KubeRules(base, Parsed(request[c])) = {} THEN End(c, "handler", "delivered")
     ELSE /\ Go(c, "confirm", "askRequest")
          /\ fallback' = [fallback EXCEPT ![c] = base.fallback]
          /\ UNCHANGED <<configs, tool, seen, request, made, asked, outcome>>

\* A request made outside the context of the call finds no session to ask.
ElicitRequest(c) ==
  /\ at[c] = "askRequest"
  /\ IF asked[c] # "not" THEN End(c, "handler", "delivered")
     ELSE Elicit(c, request[c].inContext, "askRequest", "handler")

\* ReloadConfiguration replaces the configuration of the MCP layer.
Reload ==
  /\ reloads < MaxReloads
  /\ reloads' = reloads + 1
  /\ live' \in Configs
  /\ seen' = [c \in Calls |-> IF at[c] = "idle" THEN seen[c] ELSE seen[c] \cup {live'}]
  /\ UNCHANGED <<base, able, at, tool, fallback, request, made, asked, outcome>>

Next ==
  \/ Reload
  \/ \E c \in Calls :
       \/ \E t \in Tools : CallTool(c, t)
       \/ MatchTool(c) \/ MergeTool(c) \/ ElicitTool(c) \/ Return(c)
       \/ \E q \in Requests : MakeRequest(c, q)
       \/ CheckPath(c) \/ Validate(c) \/ Confirm(c) \/ ElicitRequest(c)

Spec == Init /\ [][Next]_vars

-----------------------------------------------------------------------------

Delivered(c) == at[c] = "handler" /\ made[c] > 0 /\ outcome[c] = "delivered"

\* What the user would say the request is about, read off the request and not
\* off its path.
Meant(q) ==
  [verb |-> CASE q.method = "GET" -> IF q.name = Unset THEN "list" ELSE "get"
              [] q.method = "DELETE" -> IF q.name = Unset THEN "deletecollection" ELSE "delete"
              [] q.method = "POST" -> "create" [] q.method = "PUT" -> "update"
              [] q.method = "PATCH" -> "patch",
   group |-> q.group, resource |-> q.resource, name |-> q.name,
   namespace |-> IF q.resource = "namespaces" THEN q.name ELSE q.namespace]

\* No request for a denied resource reaches the cluster, whichever way its path
\* is written: with the prefix of the server, inside a namespace, for a
\* subresource, or for a namespace itself (RoundTrip, parseURLToGVR, isAllowed).
NothingDeniedDelivered == \A c \in Calls : Delivered(c) =>
  ~\E d \in base.denied : d.group = request[c].group /\ d.resource \in {Unset, request[c].resource}

\* A request that a kube-level rule of the provider's configuration is about
\* reaches the cluster only after the user has accepted, or where the client
\* cannot ask and the fallback is not "deny"; an error never counts as consent
\* (CheckKubeRules, CheckConfirmation, contextElicitor).
RequestsConfirmed ==
  \A c \in Calls :
    Delivered(c) /\ KubeRules(base, Meant(request[c])) # {} /\ ~IsReview(request[c]) =>
      \/ asked[c] = "accepted" /\ able
      \/ asked[c] = "fallback" /\ ~able /\ base.fallback # "deny"

\* The handler of a tool runs only if some configuration in force during the
\* call had no rule for it, or the user has accepted, or cannot be asked and
\* some such configuration does not deny (CheckToolRules).
ToolsConfirmed ==
  \A c \in Calls : at[c] = "handler" /\ made[c] = 0 =>
    \/ \E g \in seen[c] : ToolRules(g, tool[c]) = {}
    \/ asked[c] = "accepted" /\ able
    \/ asked[c] = "fallback" /\ ~able /\ \E g \in seen[c] : g.fallback # "deny"

\* Nobody is asked about a request that a validator then refuses (the order in
\* which NewAccessControlRoundTripper installs them).
NotAskedInVain == \A c \in Calls : outcome[c] = "invalid" => asked[c] = "not"

\* ReloadConfiguration says that it reloads the provider too: a request that is
\* delivered has been confirmed if all configurations in force during its call
\* have a rule for it.  The provider keeps the rules of the start.
KubeRulesReloaded ==
  \A c \in Calls :
    /\ Delivered(c) /\ ~IsReview(request[c])
    /\ \A g \in seen[c] : KubeRules(g, Meant(request[c])) # {}
    => asked[c] # "not"
=============================================================================
