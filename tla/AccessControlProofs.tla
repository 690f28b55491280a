------------------------- MODULE AccessControlProofs -------------------------
(* Safety of the access control, for any requests client-go can make, any   *)
(* prefix of the server, rules, denied resources and number of calls.       *)
EXTENDS AccessControl, Integers, SequenceTheorems, TLAPS

-----------------------------------------------------------------------------
(* Paths                                                                    *)

\* Where the namespace and the resource of a request are in its path.
Root(q) == IF q.group = Unset THEN 2 ELSE 3
Mark(q) == IF q.namespace = Unset THEN Root(q) ELSE Root(q) + 2
Size(q) == Mark(q) + 1 + (IF q.name = Unset THEN 0 ELSE 1) + (IF q.sub = Unset THEN 0 ELSE 1)

Shape(p, q) ==
  /\ p \in Seq(Segments) /\ Len(p) = Size(q)
  /\ IF q.group = Unset THEN p[1] = "api" /\ p[2] = "v1"
     ELSE p[1] = "apis" /\ p[2] = q.group /\ p[3] = "v1"
  /\ q.namespace # Unset => p[Root(q) + 1] = "namespaces" /\ p[Root(q) + 2] = q.namespace
  /\ p[Mark(q) + 1] = q.resource
  /\ q.name # Unset => p[Mark(q) + 2] = q.name
  /\ q.sub # Unset => p[Mark(q) + 3] = q.sub

\* Short tuples are sequences.
LEMMA NoSegments ==
  ASSUME NEW S
  PROVE  <<>> \in Seq(S) /\ Len(<<>>) = 0
OBVIOUS

LEMMA OneSegment ==
  ASSUME NEW S, NEW a \in S
  PROVE  <<a>> \in Seq(S) /\ Len(<<a>>) = 1 /\ <<a>>[1] = a
OBVIOUS

LEMMA TwoSegments ==
  ASSUME NEW S, NEW a \in S, NEW b \in S
  PROVE  /\ <<a, b>> \in Seq(S) /\ Len(<<a, b>>) = 2
         /\ <<a, b>>[1] = a /\ <<a, b>>[2] = b
OBVIOUS

LEMMA ThreeSegments ==
  ASSUME NEW S, NEW a \in S, NEW b \in S, NEW c \in S
  PROVE  /\ <<a, b, c>> \in Seq(S) /\ Len(<<a, b, c>>) = 3
         /\ <<a, b, c>>[1] = a /\ <<a, b, c>>[2] = b /\ <<a, b, c>>[3] = c
OBVIOUS

LEMMA Joined ==
  ASSUME NEW S, NEW s \in Seq(S), NEW t \in Seq(S)
  PROVE  /\ s \o t \in Seq(S) /\ Len(s \o t) = Len(s) + Len(t)
         /\ \A i \in 1 .. Len(s) : (s \o t)[i] = s[i]
         /\ \A i \in 1 .. Len(t) : (s \o t)[Len(s) + i] = t[i]
OBVIOUS

LEMMA GivenSegment ==
  ASSUME NEW s \in Segments
  PROVE  /\ Given(s) \in Seq(Segments)
         /\ s = Unset => Len(Given(s)) = 0
         /\ s # Unset => Len(Given(s)) = 1 /\ Given(s)[1] = s
<1>1. CASE s = Unset
  <2>1. Given(s) = <<>>
    BY <1>1 DEF Given
  <2> QED
    BY <1>1, <2>1, NoSegments
<1>2. CASE s # Unset
  <2>1. Given(s) = <<s>>
    BY <1>2 DEF Given
  <2> QED
    BY <1>2, <2>1, OneSegment
<1> QED
  BY <1>1, <1>2

LEMMA ShapeOfPath ==
  ASSUME NEW q, WellFormed(q)
  PROVE  Shape(ApiPath(q), q)
<1> DEFINE root == IF q.group = Unset THEN <<"api", "v1">> ELSE <<"apis", q.group, "v1">>
           scope == IF q.namespace = Unset THEN <<>> ELSE <<"namespaces", q.namespace>>
           object == <<q.resource>>
           name == Given(q.name)
           sub == Given(q.sub)
<1>0. Root(q) \in Nat /\ Mark(q) \in Nat
  BY DEF Root, Mark
<1>1. /\ q.group \in Segments /\ q.namespace \in Segments /\ q.resource \in Segments
      /\ q.name \in Segments /\ q.sub \in Segments
      /\ "api" \in Segments /\ "apis" \in Segments /\ "v1" \in Segments
      /\ "namespaces" \in Segments
  BY PathAssumption DEF WellFormed
<1>2. /\ root \in Seq(Segments) /\ Len(root) = Root(q)
      /\ IF q.group = Unset THEN root[1] = "api" /\ root[2] = "v1"
         ELSE root[1] = "apis" /\ root[2] = q.group /\ root[3] = "v1"
  <2>1. CASE q.group = Unset
    <3>1. root = <<"api", "v1">>
      BY <2>1
    <3> HIDE DEF root
    <3> QED
      BY <1>1, <2>1, <3>1, TwoSegments DEF Root
  <2>2. CASE q.group # Unset
    <3>1. root = <<"apis", q.group, "v1">>
      BY <2>2
    <3> HIDE DEF root
    <3> QED
      BY <1>1, <2>2, <3>1, ThreeSegments DEF Root
  <2> QED
    BY <2>1, <2>2
<1>3. /\ scope \in Seq(Segments) /\ Len(scope) = Mark(q) - Root(q)
      /\ q.namespace # Unset => scope[1] = "namespaces" /\ scope[2] = q.namespace
  <2>1. CASE q.namespace = Unset
    <3>1. scope = <<>>
      BY <2>1
    <3>3. scope \in Seq(Segments) /\ Len(scope) = 0
      BY <3>1, NoSegments
    <3> HIDE DEF scope
    <3> QED
      BY <1>0, <2>1, <3>3 DEF Mark
  <2>2. CASE q.namespace # Unset
    <3>1. scope = <<"namespaces", q.namespace>>
      BY <2>2
    <3>3. /\ scope \in Seq(Segments) /\ Len(scope) = 2
          /\ scope[1] = "namespaces" /\ scope[2] = q.namespace
      BY <1>1, <3>1, TwoSegments
    <3> HIDE DEF scope
    <3> QED
      BY <1>0, <2>2, <3>3 DEF Mark
  <2> QED
    BY <2>1, <2>2
<1>4. /\ object \in Seq(Segments) /\ Len(object) = 1 /\ object[1] = q.resource
  BY <1>1, OneSegment
<1>5. /\ name \in Seq(Segments)
      /\ q.name = Unset => Len(name) = 0
      /\ q.name # Unset => Len(name) = 1 /\ name[1] = q.name
  BY <1>1, GivenSegment
<1>6. /\ sub \in Seq(Segments)
      /\ q.sub = Unset => Len(sub) = 0
      /\ q.sub # Unset => Len(sub) = 1 /\ sub[1] = q.sub
  BY <1>1, GivenSegment
<1>7. ApiPath(q) = root \o scope \o object \o name \o sub
  BY DEF ApiPath
<1> HIDE DEF root, scope, object, name, sub
<1> DEFINE p2 == root \o scope
           p3 == p2 \o object
           p4 == p3 \o name
           p5 == p4 \o sub
<1>8. /\ root \in Seq(Segments) /\ scope \in Seq(Segments) /\ object \in Seq(Segments)
      /\ name \in Seq(Segments) /\ sub \in Seq(Segments)
  BY <1>2, <1>3, <1>4, <1>5, <1>6
<1>9. p2 \in Seq(Segments) /\ p3 \in Seq(Segments) /\ p4 \in Seq(Segments)
  <2>1. p2 \in Seq(Segments)
    BY <1>8
  <2>2. p3 \in Seq(Segments)
    BY <1>8, <2>1
  <2> QED
    BY <1>8, <2>1, <2>2
<1>10. /\ Len(p2) = Len(root) + Len(scope)
       /\ \A i \in 1 .. Len(root) : p2[i] = root[i]
       /\ \A i \in 1 .. Len(scope) : p2[Len(root) + i] = scope[i]
  BY <1>8, Joined
<1> HIDE DEF p2
<1>11. /\ Len(p3) = Len(p2) + Len(object)
       /\ \A i \in 1 .. Len(p2) : p3[i] = p2[i]
       /\ \A i \in 1 .. Len(object) : p3[Len(p2) + i] = object[i]
  BY <1>8, <1>9, Joined
<1> HIDE DEF p3
<1>12. /\ Len(p4) = Len(p3) + Len(name)
       /\ \A i \in 1 .. Len(p3) : p4[i] = p3[i]
       /\ \A i \in 1 .. Len(name) : p4[Len(p3) + i] = name[i]
  BY <1>8, <1>9, Joined
<1> HIDE DEF p4
<1>13. /\ p5 \in Seq(Segments) /\ Len(p5) = Len(p4) + Len(sub)
       /\ \A i \in 1 .. Len(p4) : p5[i] = p4[i]
       /\ \A i \in 1 .. Len(sub) : p5[Len(p4) + i] = sub[i]
  BY <1>8, <1>9, Joined
<1>14. ApiPath(q) = p5
  BY <1>7 DEF p2, p3, p4
<1> HIDE DEF p5
<1>15. q.sub # Unset => q.name # Unset
  BY DEF WellFormed
<1>16. /\ Len(p2) = Mark(q) /\ Len(p3) = Mark(q) + 1
       /\ q.name # Unset => Len(p4) = Mark(q) + 2
       /\ Len(p3) <= Len(p4)
       /\ Len(p5) = Size(q)
  <2>1. Len(p2) = Mark(q)
    BY <1>0, <1>2, <1>3, <1>10
  <2>2. Len(p3) = Mark(q) + 1
    BY <1>0, <1>4, <1>11, <2>1
  <2>3. /\ q.name # Unset => Len(p4) = Mark(q) + 2
        /\ q.name = Unset => Len(p4) = Mark(q) + 1
    BY <1>0, <1>5, <1>12, <2>2
  <2>4. Len(p5) = Size(q)
    <3>1. Len(p5) = Len(p4) + Len(sub)
      BY <1>13
    <3>2. /\ q.sub = Unset => Len(sub) = 0
          /\ q.sub # Unset => Len(sub) = 1
      BY <1>6
    <3>3. Mark(q) \in Nat
      BY <1>0
    <3>4. CASE q.name = Unset
      <4>1. Len(p4) = Mark(q) + 1 /\ Len(sub) = 0 /\ q.sub = Unset
        BY <1>15, <2>3, <3>2, <3>4
      <4>2. Size(q) = Mark(q) + 1 + 0 + 0
        BY <3>4, <4>1 DEF Size
      <4> QED
        BY <3>1, <3>3, <4>1, <4>2
    <3>5. CASE q.name # Unset
      <4>1. Len(p4) = Mark(q) + 2
        BY <2>3, <3>5
      <4>2. CASE q.sub = Unset
        <5>1. Len(sub) = 0 /\ Size(q) = Mark(q) + 1 + 1 + 0
          BY <3>2, <3>5, <4>2 DEF Size
        <5> QED
          BY <3>1, <3>3, <4>1, <5>1
      <4>3. CASE q.sub # Unset
        <5>1. Len(sub) = 1 /\ Size(q) = Mark(q) + 1 + 1 + 1
          BY <3>2, <3>5, <4>3 DEF Size
        <5> QED
          BY <3>1, <3>3, <4>1, <5>1
      <4> QED
        BY <4>2, <4>3
    <3> QED
      BY <3>4, <3>5
  <2> QED
    BY <1>0, <2>1, <2>2, <2>3, <2>4
<1>17. \A i \in 1 .. Mark(q) : p5[i] = p2[i]
  <2>1. \A i \in 1 .. Mark(q) : i \in 1 .. Len(p2) /\ i \in 1 .. Len(p3) /\ i \in 1 .. Len(p4)
    <3>1. Len(p4) \in Nat
      BY <1>9
    <3> QED
      BY <1>0, <1>16, <3>1
  <2> QED
    BY <1>11, <1>12, <1>13, <2>1
<1>18. \A i \in 1 .. Root(q) : p5[i] = root[i]
  <2>1. Len(root) = Root(q) /\ Root(q) <= Mark(q)
    BY <1>0, <1>2 DEF Mark
  <2>2. \A i \in 1 .. Root(q) : i \in 1 .. Mark(q)
    BY <1>0, <2>1
  <2> QED
    BY <1>10, <1>17, <2>1, <2>2
<1>19. q.namespace # Unset => p5[Root(q) + 1] = "namespaces" /\ p5[Root(q) + 2] = q.namespace
  <2> SUFFICES ASSUME q.namespace # Unset
               PROVE  p5[Root(q) + 1] = "namespaces" /\ p5[Root(q) + 2] = q.namespace
    OBVIOUS
  <2>1. Mark(q) = Root(q) + 2
    BY DEF Mark
  <2>2. Len(root) = Root(q) /\ Len(scope) = 2
    BY <1>0, <1>2, <1>3, <2>1
  <2>3. 1 \in 1 .. 2 /\ 2 \in 1 .. 2
    OBVIOUS
  <2>4. p2[Root(q) + 1] = scope[1] /\ p2[Root(q) + 2] = scope[2]
    BY <1>10, <2>2, <2>3
  <2>5. Root(q) + 1 \in 1 .. Mark(q) /\ Root(q) + 2 \in 1 .. Mark(q)
    BY <1>0, <2>1
  <2> QED
    BY <1>3, <1>17, <2>4, <2>5
<1>20. p5[Mark(q) + 1] = q.resource
  BY <1>0, <1>4, <1>5, <1>11, <1>12, <1>13, <1>16
<1>21. q.name # Unset => p5[Mark(q) + 2] = q.name
  <2> SUFFICES ASSUME q.name # Unset
               PROVE  p5[Mark(q) + 2] = q.name
    OBVIOUS
  <2>1. Len(p4) = Mark(q) + 2 /\ Len(p3) = Mark(q) + 1
    BY <1>16
  <2>2. p4[Len(p3) + 1] = name[1]
    <3>1. 1 \in 1 .. Len(name)
      BY <1>5
    <3> QED
      BY <1>12, <3>1
  <2>3. Len(p3) + 1 = Mark(q) + 2 /\ Mark(q) + 2 \in 1 .. Len(p4)
    BY <1>0, <2>1
  <2> QED
    BY <1>5, <1>13, <2>2, <2>3
<1>22. q.sub # Unset => p5[Mark(q) + 3] = q.sub
  BY <1>0, <1>6, <1>13, <1>15, <1>16
<1> QED
  BY <1>2, <1>13, <1>14, <1>16, <1>18, <1>20, <1>21, <1>22, <1>19 DEF Shape, Root

\* What is stripped is the prefix, whatever it is.
LEMMA PrefixStripped ==
  ASSUME NEW q, WellFormed(q)
  PROVE  Stripped(PathOf(q)) = ApiPath(q)
<1> DEFINE a == ApiPath(q)
           p == Prefix \o a
           n == Len(Prefix)
<1>1. a \in Seq(Segments) /\ Prefix \in Seq(Segments) /\ n \in Nat
  BY ShapeOfPath, PathAssumption DEF Shape
<1>2. PathOf(q) = p
  BY DEF PathOf
<1> HIDE DEF a
<1>3. /\ p \in Seq(Segments) /\ Len(p) = n + Len(a) /\ Len(a) \in Nat
      /\ \A i \in 1 .. n + Len(a) : p[i] = IF i <= n THEN Prefix[i] ELSE a[i - n]
  BY <1>1, ConcatProperties
<1>4. CASE n = 0
  <2>1. Prefix = <<>>
    BY <1>1, <1>4, EmptySeq
  <2> QED
    BY <1>1, <1>2, <1>4, <2>1, ConcatEmptySeq DEF Stripped, a
<1>5. CASE n > 0
  <2>1. SubSeq(p, 1, n) = Prefix
    <3>1. SubSeq(p, 1, n) \in Seq(Segments) /\ Len(SubSeq(p, 1, n)) = n
          /\ \A i \in 1 .. n : SubSeq(p, 1, n)[i] = p[i]
      BY <1>1, <1>3, <1>5, ElementOfSeq, SubSeqProperties
    <3> QED
      BY <1>1, <1>3, <3>1, SeqEqual
  <2>2. SubSeq(p, n + 1, Len(p)) = a
    <3>1. SubSeq(p, n + 1, Len(p)) \in Seq(Segments)
          /\ Len(SubSeq(p, n + 1, Len(p))) = Len(a)
          /\ \A i \in 1 .. Len(a) : SubSeq(p, n + 1, Len(p))[i] = p[n + i]
      BY <1>1, <1>3, <1>5, ElementOfSeq, SubSeqProperties
    <3>2. \A i \in 1 .. Len(a) : p[n + i] = a[i]
      BY <1>1, <1>3
    <3> QED
      BY <1>1, <3>1, <3>2, SeqEqual
  <2> QED
    BY <1>2, <1>3, <1>5, <2>1, <2>2 DEF Stripped, a
<1> QED
  BY <1>1, <1>4, <1>5

\* Where the parser looks for the resource.
LEMMA IndexOfResource ==
  ASSUME NEW q, WellFormed(q), NEW p, Shape(p, q)
  PROVE  /\ Root(q) \in {2, 3} /\ Mark(q) \in Nat /\ Len(p) = Size(q)
         /\ RootIndex(p) = Root(q) + 1
         /\ q.resource = "namespaces" /\ q.sub # Unset => ResourceIndex(p) = Mark(q) + 3
         /\ ~(q.resource = "namespaces" /\ q.sub # Unset) => ResourceIndex(p) = Mark(q) + 1
<1>0. q.sub # Unset => q.name # Unset
  BY DEF WellFormed
<1>1. /\ Root(q) \in {2, 3} /\ Mark(q) \in Nat /\ Mark(q) >= Root(q)
      /\ Len(p) = Size(q) /\ Size(q) \in Nat /\ Size(q) > Mark(q)
  BY DEF Shape, Root, Mark, Size
<1>2. RootIndex(p) = Root(q) + 1
  <2>1. CASE q.group = Unset
    <3>1. p[1] = "api" /\ Root(q) = 2
      BY <2>1 DEF Shape, Root
    <3> QED
      BY <1>1, <3>1 DEF RootIndex
  <2>2. CASE q.group # Unset
    <3>1. p[1] = "apis" /\ Root(q) = 3
      BY <2>2 DEF Shape, Root
    <3> QED
      BY <1>1, <3>1 DEF RootIndex
  <2> QED
    BY <2>1, <2>2
<1>3. CASE q.namespace # Unset
  <2>1. Mark(q) = Root(q) + 2 /\ p[Root(q) + 1] = "namespaces" /\ q.resource # "namespaces"
    BY <1>3 DEF Mark, Shape, WellFormed
  <2> QED
    BY <1>1, <1>2, <2>1 DEF ResourceIndex
<1>4. CASE q.namespace = Unset
  <2>1. Mark(q) = Root(q) /\ p[Root(q) + 1] = q.resource
    BY <1>4 DEF Mark, Shape
  <2>2. CASE q.resource # "namespaces"
    BY <1>1, <1>2, <2>1, <2>2 DEF ResourceIndex
  <2>3. CASE q.resource = "namespaces" /\ q.sub # Unset
    <3>1. Len(p) = Root(q) + 3
      BY <1>0, <1>1, <2>1, <2>3 DEF Size
    <3> QED
      BY <1>1, <1>2, <2>1, <2>3, <3>1 DEF ResourceIndex
  <2>4. CASE q.resource = "namespaces" /\ q.sub = Unset
    <3>1. Len(p) <= Root(q) + 2
      BY <1>1, <2>1, <2>4 DEF Size
    <3> QED
      BY <1>1, <1>2, <2>1, <2>4, <3>1 DEF ResourceIndex
  <2> QED
    BY <2>2, <2>3, <2>4
<1> QED
  BY <1>1, <1>2, <1>3, <1>4

\* A request for a subresource of a namespace is taken for one that no cluster
\* knows; of any other the group and resource are found.
LEMMA ResourceFound ==
  ASSUME NEW q, WellFormed(q), NEW p, Shape(p, q)
  PROVE  /\ IsResource(p)
         /\ q.resource = "namespaces" /\ q.sub # Unset =>
              Resource(p) = [group |-> q.group, resource |-> q.sub]
         /\ ~(q.resource = "namespaces" /\ q.sub # Unset) =>
              Resource(p) = [group |-> q.group, resource |-> q.resource]
<1>1. IsResource(p)
  BY IndexOfResource DEF IsResource
<1>2. (IF p[1] = "api" THEN Unset ELSE p[2]) = q.group
  BY DEF Shape
<1>3. p[Mark(q) + 1] = q.resource /\ (q.sub # Unset => p[Mark(q) + 3] = q.sub)
  BY DEF Shape
<1> QED
  BY <1>1, <1>2, <1>3, IndexOfResource DEF Resource

LEMMA NameFound ==
  ASSUME NEW q, WellFormed(q), ~(q.resource = "namespaces" /\ q.sub # Unset),
         NEW p, Shape(p, q)
  PROVE  Name(p) = q.name /\ (IsCollection(p) <=> q.name = Unset)
<1>1. /\ ResourceIndex(p) = Mark(q) + 1 /\ Mark(q) \in Nat /\ Len(p) = Size(q)
      /\ IsResource(p)
  BY IndexOfResource, ResourceFound
<1>2. CASE q.name = Unset
  <2>1. Len(p) = Mark(q) + 1
    BY <1>1, <1>2 DEF Size, WellFormed
  <2> QED
    BY <1>1, <1>2, <2>1 DEF Name, IsCollection
<1>3. CASE q.name # Unset
  <2>1. Len(p) > Mark(q) + 1 /\ p[Mark(q) + 2] = q.name
    BY <1>1, <1>3 DEF Size, Shape
  <2> QED
    BY <1>1, <1>3, <2>1 DEF Name, IsCollection
<1> QED
  BY <1>2, <1>3

LEMMA NamespaceFound ==
  ASSUME NEW q, WellFormed(q), ~(q.resource = "namespaces" /\ q.sub # Unset),
         NEW p, Shape(p, q)
  PROVE  Namespace(p) = IF q.resource = "namespaces" THEN q.name ELSE q.namespace
<1> DEFINE marks == {i \in 1 .. (Len(p) - 1) : p[i] = "namespaces"}
           first == CHOOSE i \in marks : \A j \in marks : i <= j
<1>1. Root(q) \in {2, 3} /\ Len(p) = Size(q) /\ Mark(q) \in Nat /\ Size(q) \in Nat
  BY IndexOfResource DEF Size
<1>2. \A i \in 1 .. Root(q) : p[i] # "namespaces"
  <2>1. CASE q.group = Unset
    <3>1. Root(q) = 2 /\ p[1] = "api" /\ p[2] = "v1"
      BY <2>1 DEF Shape, Root
    <3> QED
      BY <3>1
  <2>2. CASE q.group # Unset
    <3>1. Root(q) = 3 /\ p[1] = "apis" /\ p[2] # "namespaces" /\ p[3] = "v1"
      BY <2>2 DEF Shape, Root, WellFormed
    <3> QED
      BY <3>1
  <2> QED
    BY <2>1, <2>2
<1>3. ASSUME p[Root(q) + 1] = "namespaces", Len(p) > Root(q) + 1
      PROVE  Namespace(p) = p[Root(q) + 2]
  <2>1. Root(q) + 1 \in marks
    BY <1>1, <1>3
  <2>2. \A j \in marks : j \in Int /\ Root(q) + 1 <= j
    BY <1>1, <1>2
  <2>3. first \in marks /\ \A j \in marks : first <= j
    BY <2>1, <2>2
  <2>4. first = Root(q) + 1
    <3> HIDE DEF marks, first
    <3> QED
      BY <1>1, <2>1, <2>2, <2>3
  <2>5. marks # {}
    BY <2>1
  <2>6. Namespace(p) = p[first + 1]
    BY <2>5 DEF Namespace
  <2> HIDE DEF first
  <2> QED
    BY <1>1, <2>4, <2>6
<1>4. ASSUME marks = {}
      PROVE  Namespace(p) = Unset
  BY <1>4 DEF Namespace
<1>5. CASE q.namespace # Unset
  <2>1. /\ p[Root(q) + 1] = "namespaces" /\ p[Root(q) + 2] = q.namespace
        /\ q.resource # "namespaces" /\ Mark(q) = Root(q) + 2
    BY <1>5 DEF Shape, WellFormed, Mark
  <2>2. Len(p) > Root(q) + 1
    BY <1>1, <2>1 DEF Size
  <2> QED
    BY <1>3, <2>1, <2>2
<1>6. CASE q.resource = "namespaces"
  <2>1. q.namespace = Unset /\ Mark(q) = Root(q) /\ p[Root(q) + 1] = "namespaces"
    BY <1>6 DEF Shape, WellFormed, Mark
  <2>2. CASE q.name # Unset
    <3>1. Len(p) > Root(q) + 1 /\ p[Root(q) + 2] = q.name
      BY <1>1, <2>1, <2>2 DEF Size, Shape
    <3> QED
      BY <1>3, <1>6, <2>1, <3>1
  <2>3. CASE q.name = Unset
    <3>1. Len(p) = Root(q) + 1
      BY <1>1, <1>6, <2>1, <2>3 DEF Size
    <3>2. marks = {}
      BY <1>1, <1>2, <3>1
    <3> QED
      BY <1>4, <1>6, <2>3, <3>2
  <2> QED
    BY <2>2, <2>3
<1>7. CASE q.namespace = Unset /\ q.resource # "namespaces"
  <2>1. Mark(q) = Root(q) /\ p[Root(q) + 1] = q.resource
    BY <1>7 DEF Shape, Mark
  <2>2. q.name # Unset => p[Root(q) + 2] = q.name /\ q.name # "namespaces"
    BY <2>1 DEF Shape, WellFormed
  <2>3. /\ Len(p) <= Root(q) + 3
        /\ q.name = Unset => Len(p) = Root(q) + 1
    BY <1>1, <2>1 DEF Size, WellFormed
  <2>4. \A i \in 1 .. (Len(p) - 1) : p[i] # "namespaces"
    <3> TAKE i \in 1 .. (Len(p) - 1)
    <3>1. CASE i <= Root(q)
      BY <1>1, <1>2, <3>1
    <3>2. CASE i = Root(q) + 1
      BY <1>7, <2>1, <3>2
    <3>3. CASE i = Root(q) + 2
      BY <1>1, <2>2, <2>3, <3>3
    <3> QED
      BY <1>1, <2>3, <3>1, <3>2, <3>3
  <2>5. marks = {}
    BY <2>4
  <2> QED
    BY <1>4, <1>7, <2>5
<1> QED
  BY <1>5, <1>6, <1>7

\* What the round tripper reads off a path is what the request is about.
LEMMA ParsedIsMeant ==
  ASSUME NEW q \in Requests, ~(q.resource = "namespaces" /\ q.sub # Unset)
  PROVE  Parsed(q) = Meant(q)
<1>1. WellFormed(q)
  BY AccessAssumption
<1> DEFINE p == ApiPath(q)
<1>2. Stripped(PathOf(q)) = p /\ Shape(p, q)
  BY <1>1, PrefixStripped, ShapeOfPath
<1>3. Verb(q.method, p) = Meant(q).verb
  <2>1. IsCollection(p) <=> q.name = Unset
    BY <1>1, <1>2, NameFound
  <2>2. q.method \in Methods
    BY <1>1 DEF WellFormed
  <2> HIDE DEF p
  <2> QED
    BY <2>1, <2>2 DEF Verb, Meant, Methods
<1>4. /\ Resource(p).group = q.group /\ Resource(p).resource = q.resource
      /\ Name(p) = q.name
      /\ Namespace(p) = IF q.resource = "namespaces" THEN q.name ELSE q.namespace
  BY <1>1, <1>2, ResourceFound, NameFound, NamespaceFound
<1> HIDE DEF p
<1> QED
  BY <1>2, <1>3, <1>4 DEF Parsed, Meant

-----------------------------------------------------------------------------
(* Steps                                                                    *)

LEMMA FallbackType ==
  ASSUME NEW g \in Configs
  PROVE  g.fallback \in {Unset, "allow", "deny"}
BY AccessAssumption

LEMMA InitialTypes == Init => TypeOK
<1> SUFFICES ASSUME Init
             PROVE  TypeOK
  OBVIOUS
<1>1. (CHOOSE q \in Requests : TRUE) \in Requests
  BY AccessAssumption
<1> QED
  BY <1>1, AccessAssumption DEF Init, TypeOK, Places, Outcomes

\* Every variable keeps its type, and the provider its configuration.
THEOREM AccessTypeOK == Spec => []TypeOK
<1>1. Init => TypeOK
  BY InitialTypes
<1>2. TypeOK /\ [Next]_vars => TypeOK'
  <2> SUFFICES ASSUME TypeOK, [Next]_vars
               PROVE  TypeOK'
    OBVIOUS
  <2> USE DEF TypeOK, Places, Outcomes, configs
  <2>1. CASE Reload
    BY <2>1, AccessAssumption DEF Reload
  <2>2. ASSUME NEW c \in Calls, NEW t \in Tools, CallTool(c, t)
        PROVE  TypeOK'
    BY <2>2, AccessAssumption DEF CallTool, Go
  <2>3. ASSUME NEW c \in Calls, MatchTool(c)
        PROVE  TypeOK'
    BY <2>3 DEF MatchTool, Go
  <2>4. ASSUME NEW c \in Calls, MergeTool(c)
        PROVE  TypeOK'
    <3>1. live.fallback \in {Unset, "allow", "deny"}
      BY FallbackType
    <3> QED
      BY <2>4, <3>1 DEF MergeTool, Go
  <2>5. ASSUME NEW c \in Calls, ElicitTool(c)
        PROVE  TypeOK'
    BY <2>5 DEF ElicitTool, Elicit, Answer, End
  <2>6. ASSUME NEW c \in Calls, Return(c)
        PROVE  TypeOK'
    BY <2>6 DEF Return, End
  <2>7. ASSUME NEW c \in Calls, NEW q \in Requests, MakeRequest(c, q)
        PROVE  TypeOK'
    <3>1. made[c] + 1 \in 0 .. MaxRequests
      BY <2>7, AccessAssumption DEF MakeRequest
    <3> QED
      BY <2>7, <3>1 DEF MakeRequest, Go
  <2>8. ASSUME NEW c \in Calls, CheckPath(c)
        PROVE  TypeOK'
    BY <2>8 DEF CheckPath, End, Go
  <2>9. ASSUME NEW c \in Calls, Validate(c)
        PROVE  TypeOK'
    BY <2>9 DEF Validate, End, Go
  <2>10. ASSUME NEW c \in Calls, Confirm(c)
         PROVE  TypeOK'
    <3>1. base.fallback \in {Unset, "allow", "deny"}
      BY FallbackType
    <3> QED
      BY <2>10, <3>1 DEF Confirm, End, Go
  <2>11. ASSUME NEW c \in Calls, ElicitRequest(c)
         PROVE  TypeOK'
    BY <2>11 DEF ElicitRequest, Elicit, Answer, End
  <2>12. CASE UNCHANGED vars
    BY <2>12 DEF vars
  <2> QED
    BY <2>1, <2>2, <2>3, <2>4, <2>5, <2>6, <2>7, <2>8, <2>9, <2>10, <2>11, <2>12 DEF Next
<1> QED
  BY <1>1, <1>2, PTL DEF Spec

-----------------------------------------------------------------------------
(* What each call has behind it, by the place where it stands               *)

Cleared(q) ==
  /\ ~(q.resource = "namespaces" /\ q.sub # Unset)
  /\ ~\E d \in base.denied : d.group = q.group /\ d.resource \in {Unset, q.resource}

\* Consent given, or not needed, in the sense of a configuration's fallback.
Consent(c, deny) ==
  \/ asked[c] = "accepted" /\ able
  \/ asked[c] = "fallback" /\ ~able /\ ~deny

ProgressOK(c) ==
  /\ at[c] \in {"match", "merge", "askTool"} => made[c] = 0 /\ asked[c] = "not"
  /\ at[c] \in {"path", "validate", "confirm"} => asked[c] = "not"
  /\ at[c] \in {"path", "validate", "confirm", "askRequest"} => made[c] > 0
  /\ at[c] \notin {"idle", "handler"} => outcome[c] = "none"
  /\ outcome[c] = "invalid" => asked[c] = "not"

ToolOK(c) ==
  /\ at[c] # "idle" => live \in seen[c]
  /\ at[c] = "askTool" => \E g \in seen[c] : g.fallback = fallback[c]
  /\ at[c] = "handler" /\ made[c] = 0 =>
       \/ \E g \in seen[c] : ToolRules(g, tool[c]) = {}
       \/ Consent(c, \A g \in seen[c] : g.fallback = "deny")

RequestOK(c) ==
  /\ at[c] \in {"validate", "confirm", "askRequest"} => Cleared(request[c])
  /\ at[c] = "askRequest" =>
       /\ fallback[c] = base.fallback
       /\ asked[c] # "not" => Consent(c, base.fallback = "deny")
  /\ Delivered(c) =>
       /\ ~\E d \in base.denied :
            d.group = request[c].group /\ d.resource \in {Unset, request[c].resource}
       /\ \/ IsReview(request[c])
          \/ KubeRules(base, Meant(request[c])) = {}
          \/ Consent(c, base.fallback = "deny")

CallOK(c) == ProgressOK(c) /\ ToolOK(c) /\ RequestOK(c)

Inv == TypeOK /\ \A c \in Calls : CallOK(c)

\* A known resource is the one the request is for, however its path is written.
LEMMA KnownIsMeant ==
  ASSUME NEW q \in Requests, Resource(Stripped(PathOf(q))) \in Known
  PROVE  /\ ~(q.resource = "namespaces" /\ q.sub # Unset)
         /\ Resource(Stripped(PathOf(q))) = [group |-> q.group, resource |-> q.resource]
<1>1. WellFormed(q)
  BY AccessAssumption
<1>2. Shape(Stripped(PathOf(q)), q)
  BY <1>1, PrefixStripped, ShapeOfPath
<1> QED
  BY <1>1, <1>2, ResourceFound, AccessAssumption

\* Every API request of client-go names a resource.
LEMMA AlwaysResource ==
  ASSUME NEW q \in Requests
  PROVE  IsResource(Stripped(PathOf(q)))
<1>1. WellFormed(q)
  BY AccessAssumption
<1> QED
  BY <1>1, PrefixStripped, ShapeOfPath, ResourceFound

\* The answer to a question, asked of the user or of the fallback.
LEMMA Answered ==
  ASSUME TypeOK, NEW c \in Calls, NEW session \in BOOLEAN, NEW yes \in Places,
         NEW no \in Places, asked[c] = "not", Elicit(c, session, yes, no)
  PROVE  /\ UNCHANGED <<configs, tool, seen, fallback, request, made>>
         /\ \/ /\ at'[c] = yes /\ outcome'[c] = outcome[c]
               /\ \/ asked'[c] = "accepted" /\ able
                  \/ asked'[c] = "fallback" /\ ~able /\ fallback[c] # "deny"
            \/ at'[c] = no /\ outcome'[c] \in {"declined", "failed"} /\ asked'[c] = "not"
<1> USE DEF TypeOK, configs
<1>1. CASE able /\ session /\ Answer(c, "accepted", yes)
  BY <1>1 DEF Answer
<1>2. CASE ~able /\ session /\ fallback[c] # "deny" /\ Answer(c, "fallback", yes)
  BY <1>2 DEF Answer
<1>3. CASE End(c, no, "declined") \/ End(c, no, "failed")
  BY <1>3 DEF End
<1> QED
  BY <1>1, <1>2, <1>3 DEF Elicit

\* A step of a call is its own affair.
CallStep(c) ==
  \/ \E t \in Tools : CallTool(c, t)
  \/ MatchTool(c) \/ MergeTool(c) \/ ElicitTool(c) \/ Return(c)
  \/ \E q \in Requests : MakeRequest(c, q)
  \/ CheckPath(c) \/ Validate(c) \/ Confirm(c) \/ ElicitRequest(c)

LEMMA Elsewhere ==
  ASSUME TypeOK, NEW c \in Calls, NEW d \in Calls, d # c, CallStep(c)
  PROVE  /\ UNCHANGED <<base, live, able>>
         /\ at'[d] = at[d] /\ tool'[d] = tool[d] /\ seen'[d] = seen[d]
         /\ fallback'[d] = fallback[d] /\ request'[d] = request[d] /\ made'[d] = made[d]
         /\ asked'[d] = asked[d] /\ outcome'[d] = outcome[d]
<1> USE DEF TypeOK, Go, Answer, End, configs
<1>1. CASE \E t \in Tools : CallTool(c, t)
  BY <1>1 DEF CallTool
<1>2. CASE MatchTool(c) \/ MergeTool(c) \/ Return(c)
  BY <1>2 DEF MatchTool, MergeTool, Return
<1>3. CASE ElicitTool(c)
  BY <1>3 DEF ElicitTool, Elicit
<1>4. CASE \E q \in Requests : MakeRequest(c, q)
  BY <1>4 DEF MakeRequest
<1>5. CASE CheckPath(c)
  BY <1>5 DEF CheckPath
<1>6. CASE Validate(c)
  BY <1>6 DEF Validate
<1>7. CASE Confirm(c)
  BY <1>7 DEF Confirm
<1>8. CASE ElicitRequest(c)
  BY <1>8 DEF ElicitRequest, Elicit
<1> QED
  BY <1>1, <1>2, <1>3, <1>4, <1>5, <1>6, <1>7, <1>8 DEF CallStep

-----------------------------------------------------------------------------
(* The steps of a call keep what it has behind it                           *)

LEMMA ProgressStep ==
  ASSUME TypeOK, NEW c \in Calls, ProgressOK(c), CallStep(c)
  PROVE  ProgressOK(c)'
<1> USE DEF TypeOK, ProgressOK, Go, End, configs
<1>1. CASE \E t \in Tools : CallTool(c, t)
  BY <1>1 DEF CallTool
<1>2. CASE MatchTool(c)
  BY <1>2 DEF MatchTool
<1>3. CASE MergeTool(c)
  BY <1>3 DEF MergeTool
<1>4. CASE ElicitTool(c)
  <2>1. asked[c] = "not" /\ outcome[c] = "none" /\ Elicit(c, TRUE, "handler", "idle")
    BY <1>4 DEF ElicitTool
  <2>2. "handler" \in Places /\ "idle" \in Places
    BY DEF Places
  <2> HIDE DEF TypeOK, End
  <2>3. \/ at'[c] = "handler" /\ outcome'[c] = outcome[c] /\ asked'[c] \in {"accepted", "fallback"}
        \/ at'[c] = "idle" /\ asked'[c] = "not"
    BY <2>1, <2>2, Answered
  <2> QED
    BY <2>1, <2>3
<1>5. CASE Return(c)
  BY <1>5 DEF Return
<1>6. CASE \E q \in Requests : MakeRequest(c, q)
  BY <1>6, AccessAssumption DEF MakeRequest
<1>7. CASE CheckPath(c)
  BY <1>7 DEF CheckPath
<1>8. CASE Validate(c)
  BY <1>8 DEF Validate
<1>9. CASE Confirm(c)
  BY <1>9 DEF Confirm
<1>10. CASE ElicitRequest(c)
  <2>1. CASE asked[c] # "not"
    BY <1>10, <2>1 DEF ElicitRequest
  <2>2. CASE asked[c] = "not"
    <3>1. outcome[c] = "none" /\ Elicit(c, request[c].inContext, "askRequest", "handler")
      BY <1>10, <2>2 DEF ElicitRequest
    <3>2. "handler" \in Places /\ "askRequest" \in Places /\ request[c].inContext \in BOOLEAN
      BY AccessAssumption DEF Places, WellFormed
    <3>3. made[c] > 0
      BY <1>10 DEF ElicitRequest
    <3> HIDE DEF End
    <3> QED
      BY <2>2, <3>1, <3>2, <3>3, Answered
  <2> QED
    BY <2>1, <2>2
<1> QED
  BY <1>1, <1>2, <1>3, <1>4, <1>5, <1>6, <1>7, <1>8, <1>9, <1>10 DEF CallStep

LEMMA ToolStep ==
  ASSUME TypeOK, NEW c \in Calls, ProgressOK(c), ToolOK(c), CallStep(c)
  PROVE  ToolOK(c)'
<1> USE DEF TypeOK, ToolOK, Go, End, configs
<1>1. CASE \E t \in Tools : CallTool(c, t)
  BY <1>1 DEF CallTool
<1>2. CASE MatchTool(c)
  <2>1. ToolRules(live, tool[c]) = {} => ToolRules(live, tool[c])' = {}
    BY <1>2 DEF MatchTool, ToolRules
  <2> QED
    BY <1>2, <2>1 DEF MatchTool
<1>3. CASE MergeTool(c)
  BY <1>3 DEF MergeTool
<1>4. CASE ElicitTool(c)
  <2>1. /\ asked[c] = "not" /\ Elicit(c, TRUE, "handler", "idle")
        /\ live \in seen[c] /\ \E g \in seen[c] : g.fallback = fallback[c]
    BY <1>4 DEF ElicitTool, ProgressOK
  <2>2. "handler" \in Places /\ "idle" \in Places
    BY DEF Places
  <2> HIDE DEF End
  <2>3. /\ UNCHANGED <<configs, tool, seen, fallback, request, made>>
        /\ \/ /\ at'[c] = "handler"
              /\ \/ asked'[c] = "accepted" /\ able
                 \/ asked'[c] = "fallback" /\ ~able /\ fallback[c] # "deny"
           \/ at'[c] = "idle"
    BY <2>1, <2>2, Answered
  <2> QED
    BY <2>1, <2>3 DEF Consent
<1>5. CASE Return(c)
  BY <1>5 DEF Return
<1>6. CASE \E q \in Requests : MakeRequest(c, q)
  BY <1>6 DEF MakeRequest
<1>7. CASE CheckPath(c) \/ Validate(c) \/ Confirm(c) \/ ElicitRequest(c)
  <2>1. at[c] \in {"path", "validate", "confirm", "askRequest"} /\ UNCHANGED <<live, seen, made>>
    BY <1>7 DEF CheckPath, Validate, Confirm, ElicitRequest, Elicit, Answer
  <2>2. at'[c] \in {"handler", "validate", "confirm", "askRequest"}
    <3>1. CASE CheckPath(c)
      BY <3>1 DEF CheckPath
    <3>2. CASE Validate(c)
      BY <3>2 DEF Validate
    <3>3. CASE Confirm(c)
      BY <3>3 DEF Confirm
    <3>4. CASE ElicitRequest(c)
      BY <3>4 DEF ElicitRequest, Elicit, Answer
    <3> QED
      BY <1>7, <3>1, <3>2, <3>3, <3>4
  <2>3. made[c] # 0 /\ live \in seen[c]
    BY <2>1 DEF ProgressOK
  <2> HIDE DEF TypeOK
  <2>4. live' \in seen'[c] /\ made'[c] # 0
    BY <2>1, <2>3
  <2> QED
    BY <2>2, <2>4
<1> QED
  BY <1>1, <1>2, <1>3, <1>4, <1>5, <1>6, <1>7 DEF CallStep

LEMMA RequestStep ==
  ASSUME TypeOK, NEW c \in Calls, ProgressOK(c), RequestOK(c), CallStep(c)
  PROVE  RequestOK(c)'
<1> USE DEF TypeOK, RequestOK, Delivered, Go, End, configs
<1>1. CASE \E t \in Tools : CallTool(c, t)
  BY <1>1 DEF CallTool
<1>2. CASE MatchTool(c) \/ MergeTool(c)
  BY <1>2 DEF MatchTool, MergeTool, ProgressOK
<1>3. CASE ElicitTool(c)
  <2>1. made[c] = 0 /\ UNCHANGED made /\ at'[c] \in {"handler", "idle"}
    BY <1>3 DEF ElicitTool, Elicit, Answer, ProgressOK
  <2> QED
    BY <2>1
<1>4. CASE Return(c)
  BY <1>4 DEF Return
<1>5. CASE \E q \in Requests : MakeRequest(c, q)
  BY <1>5 DEF MakeRequest
<1>6. CASE CheckPath(c)
  <2> DEFINE q == request[c]
             p == Stripped(PathOf(q))
  <2>1. q \in Requests /\ UNCHANGED <<base, able, fallback, request>>
    BY <1>6 DEF CheckPath
  <2>2. CASE Resource(p) \in Known /\ ~IsDenied(base, Resource(p))
    <3>1. /\ ~(q.resource = "namespaces" /\ q.sub # Unset)
          /\ Resource(p) = [group |-> q.group, resource |-> q.resource]
      BY <2>1, <2>2, KnownIsMeant
    <3>2. Cleared(q)
      BY <2>2, <3>1 DEF Cleared, IsDenied, Fits
    <3>3. IsReview(Resource(p)) <=> IsReview(q)
      BY <3>1 DEF IsReview
    <3>4. at'[c] = "validate" \/ (at'[c] = "handler" /\ IsReview(q))
      <4>1. IsResource(p)
        BY <2>1, AlwaysResource
      <4> HIDE DEF p
      <4> QED
        BY <1>6, <2>2, <3>3, <4>1 DEF CheckPath, p
    <3> HIDE DEF p
    <3> QED
      BY <2>1, <3>2, <3>4 DEF Cleared, IsReview
  <2>3. CASE ~(Resource(p) \in Known /\ ~IsDenied(base, Resource(p)))
    <3>1. IsResource(p)
      BY <2>1, AlwaysResource
    <3>2. at'[c] = "handler" /\ outcome'[c] \in {"unknown", "denied"}
      BY <1>6, <2>3, <3>1 DEF CheckPath
    <3> QED
      BY <3>2
  <2> QED
    BY <2>2, <2>3
<1>7. CASE Validate(c)
  <2>1. /\ UNCHANGED <<base, able, fallback, request>> /\ at[c] = "validate"
        /\ at'[c] = "confirm" \/ (at'[c] = "handler" /\ outcome'[c] = "invalid")
    BY <1>7 DEF Validate
  <2> QED
    BY <2>1 DEF Cleared
<1>8. CASE Confirm(c)
  <2>1. /\ UNCHANGED <<base, able, request, asked>> /\ at[c] = "confirm"
        /\ Cleared(request[c]) /\ asked[c] = "not"
    BY <1>8 DEF Confirm, ProgressOK
  <2>2. Parsed(request[c]) = Meant(request[c])
    BY <2>1, ParsedIsMeant DEF Cleared
  <2>3. CASE KubeRules(base, Parsed(request[c])) = {}
    <3>1. at'[c] = "handler" /\ KubeRules(base, Meant(request[c])) = {}
      BY <1>8, <2>2, <2>3 DEF Confirm
    <3>2. KubeRules(base, Meant(request[c]))' = {}
      BY <2>1, <3>1 DEF KubeRules, Meant
    <3> QED
      BY <2>1, <3>1, <3>2 DEF Cleared
  <2>4. CASE KubeRules(base, Parsed(request[c])) # {}
    <3>1. at'[c] = "askRequest" /\ fallback'[c] = base.fallback
      BY <1>8, <2>4 DEF Confirm
    <3> QED
      BY <2>1, <3>1 DEF Cleared
  <2> QED
    BY <2>3, <2>4
<1>9. CASE ElicitRequest(c)
  <2>1. at[c] = "askRequest" /\ Cleared(request[c]) /\ fallback[c] = base.fallback
    BY <1>9 DEF ElicitRequest
  <2>2. CASE asked[c] # "not"
    <3>1. /\ UNCHANGED <<base, able, request, asked>> /\ at'[c] = "handler"
          /\ Consent(c, base.fallback = "deny")
      BY <1>9, <2>2 DEF ElicitRequest
    <3> QED
      BY <2>1, <3>1 DEF Cleared, Consent
  <2>3. CASE asked[c] = "not"
    <3>1. Elicit(c, request[c].inContext, "askRequest", "handler")
      BY <1>9, <2>3 DEF ElicitRequest
    <3>2. "handler" \in Places /\ "askRequest" \in Places /\ request[c].inContext \in BOOLEAN
      BY AccessAssumption DEF Places, WellFormed
    <3> HIDE DEF End
    <3>3. /\ UNCHANGED <<configs, tool, seen, fallback, request, made>>
          /\ \/ /\ at'[c] = "askRequest"
                /\ \/ asked'[c] = "accepted" /\ able
                   \/ asked'[c] = "fallback" /\ ~able /\ fallback[c] # "deny"
             \/ at'[c] = "handler" /\ outcome'[c] \in {"declined", "failed"}
      BY <2>3, <3>1, <3>2, Answered
    <3> QED
      BY <2>1, <3>3 DEF Cleared, Consent
  <2> QED
    BY <2>2, <2>3
<1> QED
  BY <1>1, <1>2, <1>3, <1>4, <1>5, <1>6, <1>7, <1>8, <1>9 DEF CallStep

\* A reload changes what is in force, and no call.
LEMMA ReloadStep ==
  ASSUME TypeOK, NEW c \in Calls, CallOK(c), Reload
  PROVE  CallOK(c)'
<1>1. /\ UNCHANGED <<base, able, at, tool, fallback, request, made, asked, outcome>>
      /\ seen'[c] = IF at[c] = "idle" THEN seen[c] ELSE seen[c] \cup {live'}
  BY DEF Reload
<1>2. ProgressOK(c)'
  BY <1>1 DEF CallOK, ProgressOK
<1>3. ToolOK(c)'
  <2>1. CASE at[c] = "handler" /\ made[c] = 0
    <3>1. \/ \E g \in seen[c] : ToolRules(g, tool[c]) = {}
          \/ Consent(c, \A g \in seen[c] : g.fallback = "deny")
      BY <2>1 DEF CallOK, ToolOK
    <3>2. \A g \in seen[c] : g \in seen'[c]
      BY <1>1
    <3>3. \A g : ToolRules(g, tool[c])' = ToolRules(g, tool[c])
      BY <1>1 DEF ToolRules
    <3> QED
      BY <1>1, <2>1, <3>1, <3>2, <3>3 DEF ToolOK, Consent, ToolRules
  <2>2. CASE ~(at[c] = "handler" /\ made[c] = 0)
    BY <1>1, <2>2 DEF CallOK, ToolOK
  <2> QED
    BY <2>1, <2>2
<1>4. RequestOK(c)'
  BY <1>1 DEF CallOK, RequestOK, Delivered, Cleared, Consent, KubeRules, IsReview
<1> QED
  BY <1>2, <1>3, <1>4 DEF CallOK

LEMMA SameCall ==
  ASSUME NEW c, CallOK(c), UNCHANGED <<base, live, able>>,
         at'[c] = at[c], tool'[c] = tool[c], seen'[c] = seen[c],
         fallback'[c] = fallback[c], request'[c] = request[c], made'[c] = made[c],
         asked'[c] = asked[c], outcome'[c] = outcome[c]
  PROVE  CallOK(c)'
<1>1. ProgressOK(c)'
  BY DEF CallOK, ProgressOK
<1>2. ToolOK(c)'
  BY DEF CallOK, ToolOK, Consent, ToolRules
<1>3. RequestOK(c)'
  BY DEF CallOK, RequestOK, Delivered, Cleared, Consent, KubeRules, IsReview, Meant
<1> QED
  BY <1>1, <1>2, <1>3 DEF CallOK

LEMMA InvStep == Inv /\ TypeOK' /\ [Next]_vars => Inv'
<1> SUFFICES ASSUME Inv, TypeOK', [Next]_vars, NEW c \in Calls
             PROVE  CallOK(c)'
  BY DEF Inv
<1>1. CASE Reload
  BY <1>1, ReloadStep DEF Inv
<1>2. ASSUME NEW d \in Calls, CallStep(d)
      PROVE  CallOK(c)'
  <2>1. CASE d = c
    BY <1>2, <2>1, ProgressStep, ToolStep, RequestStep DEF Inv, CallOK
  <2>2. CASE d # c
    BY <1>2, <2>2, Elsewhere, SameCall DEF Inv
  <2> QED
    BY <2>1, <2>2
<1>3. CASE UNCHANGED vars
  BY <1>3, SameCall DEF Inv, vars
<1> QED
  BY <1>1, <1>2, <1>3 DEF Next, CallStep

LEMMA InvInit == Init => Inv
<1> SUFFICES ASSUME Init
             PROVE  Inv
  OBVIOUS
<1>1. TypeOK
  BY InitialTypes
<1>2. \A c \in Calls : CallOK(c)
  BY DEF Init, CallOK, ProgressOK, ToolOK, RequestOK, Delivered
<1> QED
  BY <1>1, <1>2 DEF Inv

LEMMA InvHolds == Spec => []Inv
<1>1. Inv /\ TypeOK' /\ [Next]_vars => Inv'
  BY InvStep
<1> QED
  BY <1>1, InvInit, AccessTypeOK, PTL DEF Spec

\* No request for a denied resource reaches the cluster, whatever the prefix of
\* the server, the namespace, the name and the subresource in its path.
THEOREM AccessNothingDeniedDelivered == Spec => []NothingDeniedDelivered
<1>1. Inv => NothingDeniedDelivered
  BY DEF Inv, CallOK, RequestOK, NothingDeniedDelivered
<1> QED
  BY <1>1, InvHolds, PTL

\* Where a kube-level rule is about a request, it reaches the cluster with the
\* consent of the user, or of the fallback for a client that cannot ask.
THEOREM AccessRequestsConfirmed == Spec => []RequestsConfirmed
<1>1. Inv => RequestsConfirmed
  BY DEF Inv, CallOK, RequestOK, RequestsConfirmed, Consent
<1> QED
  BY <1>1, InvHolds, PTL

\* The handler of a tool runs without a rule for it, or with consent, by some
\* configuration in force during the call, however often it is reloaded.
THEOREM AccessToolsConfirmed == Spec => []ToolsConfirmed
<1>1. Inv => ToolsConfirmed
  BY DEF Inv, CallOK, ToolOK, ToolsConfirmed, Consent
<1> QED
  BY <1>1, InvHolds, PTL

\* Nobody is asked about a request that a validator then refuses.
THEOREM AccessNotAskedInVain == Spec => []NotAskedInVain
<1>1. Inv => NotAskedInVain
  BY DEF Inv, CallOK, ProgressOK, NotAskedInVain
<1> QED
  BY <1>1, InvHolds, PTL
=============================================================================
