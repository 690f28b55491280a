---- MODULE ApiServer ----
(***************************************************************************)
(* The Kubernetes API server, as the tools under pkg/toolsets and their    *)
(* helpers in pkg/kubernetes and pkg/kubevirt use it: objects under a kind,*)
(* a namespace and a name, each with a resource version; a discovery that  *)
(* learns of a kind some time after its definition was stored; and the     *)
(* log of the changes made, by whom and over what, that the properties     *)
(* speak of.                                                               *)
(***************************************************************************)
EXTENDS Naturals, Sequences, FiniteSets, TLC

CONSTANTS
  ClusterKinds,       \* kinds whose objects live outside of namespaces
  Defines             \* name of a CustomResourceDefinition |-> the kind it defines

VARIABLES
  objects,            \* key |-> object, for the objects that exist
  served,             \* kinds discovery tells of
  changes             \* the changes to objects so far, in order

serverVars == <<objects, served, changes>>

Key(kind, ns, name) == [kind |-> kind, ns |-> ns, name |-> name]

NoObject == [version |-> 0, label |-> "", mode |-> "", body |-> <<>>]

Object(k) == IF k \in DOMAIN objects THEN objects[k] ELSE NoObject

(* An object's content: all but its version. label is the value of its     *)
(* app.kubernetes.io/name label when this server manages it, else "";      *)
(* mode a run strategy, a scale or the phase of a pod; body the rest, as a *)
(* sequence.                                                               *)
Content(o) == [label |-> o.label, mode |-> o.mode, body |-> o.body]

(* Requests that name an object reach it only on the path of its scope.    *)
OnPath(k) == (k.kind \in ClusterKinds) <=> (k.ns = "")

Change(by, k, was, now) == [by |-> by, key |-> k, was |-> was, now |-> now]

(* An object with a content, under a version.                              *)
Versioned(content, version) ==
  [version |-> version, label |-> content.label, mode |-> content.mode, body |-> content.body]

(* A change that changes nothing leaves the version alone.                 *)
Put(by, k, content) ==
  IF k \in DOMAIN objects /\ Content(objects[k]) = content
  THEN UNCHANGED <<objects, changes>>
  ELSE LET now == Versioned(content, Len(changes) + 2)
       IN /\ objects' = [x \in DOMAIN objects \cup {k} |-> IF x = k THEN now ELSE objects[x]]
          /\ changes' = Append(changes, Change(by, k, Object(k), now))

Erase(by, k) ==
  /\ objects' = [x \in DOMAIN objects \ {k} |-> objects[x]]
  /\ changes' = Append(changes, Change(by, k, objects[k], NoObject))

(* A name no object has: what generateName gives.                          *)
Fresh(kind, ns) == Key(kind, ns, "g" \o ToString(Len(changes) + 1))

(* Discovery tells of the kind of a definition some time after it was      *)
(* stored.                                                                 *)
Establish ==
  \E k \in DOMAIN objects :
    /\ k.kind = "CustomResourceDefinition" /\ k.name \in DOMAIN Defines
    /\ Defines[k.name] \notin served
    /\ served' = served \cup {Defines[k.name]}
    /\ UNCHANGED <<objects, changes>>
====
