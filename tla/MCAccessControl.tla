---- MODULE MCAccessControl ----
(* Requests in and out of namespaces, for a namespace, and for             *)
(* subresources, by every method, against an API server under a prefix;    *)
(* configurations that deny and ask for different ones of them.            *)
EXTENDS AccessControl

MCSegments == STRING
MCPrefix == <<"clusters", "c1">>

Get(resource, namespace, name) ==
  [method |-> "GET", group |-> "", resource |-> resource, namespace |-> namespace,
   name |-> name, sub |-> "", inContext |-> TRUE]

MCRequests ==
  { Get("pods", "ns", ""),
    [Get("pods", "ns", "p") EXCEPT !.method = "POST", !.sub = "exec"],
    [Get("secrets", "ns", "s") EXCEPT !.method = "PUT", !.inContext = FALSE],
    Get("namespaces", "", "ns"),
    [Get("namespaces", "", "ns") EXCEPT !.method = "DELETE"],
    [Get("namespaces", "", "ns") EXCEPT !.method = "PUT", !.sub = "finalize"],
    [Get("roles", "ns", "") EXCEPT !.method = "DELETE", !.group = "rbac"],
    [Get("nodes", "", "n") EXCEPT !.method = "PATCH"],
    [Get("selfsubjectaccessreviews", "", "") EXCEPT !.method = "POST",
                                                    !.group = "authorization.k8s.io"] }

MCKnown ==
  { [group |-> "", resource |-> r] : r \in {"pods", "secrets", "namespaces", "nodes"} }
  \cup { [group |-> "rbac", resource |-> "roles"], Review }

MCTools == { [name |-> "list", destructive |-> "no"], [name |-> "drop", destructive |-> "yes"],
             [name |-> "odd", destructive |-> ""] }

Rule == [verb |-> "", group |-> "", resource |-> "", name |-> "", namespace |-> ""]

Open == [toolRules |-> {}, kubeRules |-> {}, denied |-> {}, fallback |-> "", validation |-> FALSE]

MCConfigs ==
  { Open,
    [Open EXCEPT !.toolRules = {[tool |-> "", destructive |-> "yes"]},
                 !.denied = {[group |-> "", resource |-> "namespaces"],
                             [group |-> "authorization.k8s.io", resource |-> ""]},
                 !.fallback = "allow", !.validation = TRUE],
    [Open EXCEPT !.toolRules = {[tool |-> "list", destructive |-> ""]},
                 !.kubeRules = {[Rule EXCEPT !.verb = "delete"],
                                [Rule EXCEPT !.resource = "secrets", !.namespace = "ns"]},
                 !.denied = {[group |-> "rbac", resource |-> ""]},
                 !.fallback = "deny", !.validation = TRUE],
    [Open EXCEPT !.kubeRules = {[Rule EXCEPT !.resource = "nodes"]}, !.fallback = "allow"] }
====
