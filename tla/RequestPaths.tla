----------------------------- MODULE RequestPaths -----------------------------
(***************************************************************************)
(* What the access control makes of the path and the method of an API      *)
(* request.  A path is the sequence of its segments.                       *)
(***************************************************************************)
EXTENDS Integers, Sequences

CONSTANTS
  Segments,   \* what a segment of a path may be
  Prefix      \* the path of the API server's own URL

Unset == ""   \* a name, or a setting, that is not given

ASSUME PathAssumption ==
  {Unset, "api", "apis", "v1", "namespaces"} \subseteq Segments /\ Prefix \in Seq(Segments)

\* stripAPIPathPrefix.
Stripped(path) ==
  LET n == Len(Prefix)
  IN IF n > 0 /\ Len(path) >= n /\ SubSeq(path, 1, n) = Prefix
     THEN SubSeq(path, n + 1, Len(path)) ELSE path

\* Where the resource or the "namespaces" before it is; 0 in no API path.
RootIndex(p) ==
  IF Len(p) >= 3 /\ p[1] = "api" THEN 3
  ELSE IF Len(p) >= 4 /\ p[1] = "apis" THEN 4
  ELSE 0

\* findResourceTypeIndex, and parseURLToGVR's choice of the resource.
ResourceIndex(p) ==
  LET i == RootIndex(p)
  IN IF i > 0 /\ p[i] = "namespaces" /\ Len(p) > i + 1 THEN i + 2 ELSE i

IsResource(p) == RootIndex(p) > 0

Resource(p) == [group |-> IF p[1] = "api" THEN Unset ELSE p[2], resource |-> p[ResourceIndex(p)]]

\* parseURLToNamespaceAndName.
Name(p) == LET i == ResourceIndex(p) IN IF i > 0 /\ i < Len(p) THEN p[i + 1] ELSE Unset

Namespace(p) ==
  LET marks == {i \in 1 .. (Len(p) - 1) : p[i] = "namespaces"}
  IN IF marks = {} THEN Unset ELSE p[(CHOOSE i \in marks : \A j \in marks : i <= j) + 1]

\* A defect: one segment after the resource still makes a collection.
IsCollectionLong(p) == IsResource(p) /\ ResourceIndex(p) >= Len(p) - 1

\* isCollectionPath and httpMethodToVerb.
IsCollection(p) == IsResource(p) /\ ResourceIndex(p) = Len(p)

Verb(method, p) ==
  CASE method = "GET"    -> IF IsCollection(p) THEN "list" ELSE "get"
    [] method = "DELETE" -> IF IsCollection(p) THEN "deletecollection" ELSE "delete"
    [] method = "POST"   -> "create"
    [] method = "PUT"    -> "update"
    [] method = "PATCH"  -> "patch"

-----------------------------------------------------------------------------

Given(segment) == IF segment = Unset THEN <<>> ELSE <<segment>>

\* The path client-go makes for an object, a collection, or a subresource.
ApiPath(q) ==
  (IF q.group = Unset THEN <<"api", "v1">> ELSE <<"apis", q.group, "v1">>)
  \o (IF q.namespace = Unset THEN <<>> ELSE <<"namespaces", q.namespace>>)
  \o <<q.resource>> \o Given(q.name) \o Given(q.sub)

PathOf(q) == Prefix \o ApiPath(q)

\* The requests client-go can make: nothing but a resource is called
\* "namespaces", and neither namespaces nor collections have what is under them.
Methods == {"GET", "POST", "PUT", "PATCH", "DELETE"}

WellFormed(q) ==
  /\ q \in [method: Methods, group: Segments, resource: Segments, namespace: Segments,
            name: Segments, sub: Segments, inContext: BOOLEAN]
  /\ q.resource # Unset /\ (q.resource = "namespaces" => q.namespace = Unset)
  /\ "namespaces" \notin {q.group, q.name, q.namespace}
  /\ q.sub # Unset => q.name # Unset
=============================================================================
