---- MODULE ToolProofs ----
(* Safety of the tools that change a cluster, for any requests, any cluster   *)
(* and any number of calls and of changes by other clients; and, from "The    *)
(* mesh graph" on, what the answers put together from several reads say.      *)
EXTENDS Operations, Diagnostics, SequenceTheorems, FiniteSetTheorems, WellFoundedInduction, TLAPS

----
(* Sequences *)

\* A sequence is one of its own elements.
LEMMA SequenceOfOwn ==
  ASSUME NEW S, NEW s \in Seq(S)
  PROVE  IsSequence(s)
<1>1. Len(s) \in Nat /\ s \in [1..Len(s) -> S] /\ DOMAIN s = 1..Len(s)
  BY LenProperties
<1>2. s \in [1..Len(s) -> {s[i] : i \in DOMAIN s}]
  BY <1>1
<1>3. s \in Seq({s[i] : i \in DOMAIN s})
  BY <1>1, <1>2, SeqDef
<1> QED
  BY <1>3 DEF IsSequence

LEMMA SequenceLen ==
  ASSUME NEW s, IsSequence(s)
  PROVE  /\ Len(s) \in Nat /\ DOMAIN s = 1..Len(s)
         /\ s = <<>> <=> Len(s) = 0
<1>1. s \in Seq({s[i] : i \in DOMAIN s})
  BY DEF IsSequence
<1>2. Len(s) \in Nat /\ DOMAIN s = 1..Len(s)
  BY <1>1, LenProperties
<1>3. s # <<>> => Len(s) \in Nat \ {0}
  BY <1>1, EmptySeq
<1>4. Len(<<>>) = 0
  BY EmptySeq
<1> QED
  BY <1>2, <1>3, <1>4

\* What is left of a sequence when its first element is done with.
LEMMA SequenceTail ==
  ASSUME NEW s, IsSequence(s), s # <<>>
  PROVE  /\ IsSequence(Tail(s)) /\ Len(Tail(s)) = Len(s) - 1
         /\ Head(s) = s[1]
         /\ \A i \in 1..(Len(s) - 1) : Tail(s)[i] = s[i + 1]
         /\ Tail(s) = <<>> <=> Len(s) = 1
<1> DEFINE S == {s[i] : i \in DOMAIN s}
<1>1. s \in Seq(S)
  BY DEF IsSequence
<1> HIDE DEF S
<1>2. /\ Tail(s) \in Seq(S) /\ Len(Tail(s)) = Len(s) - 1
      /\ \A i \in 1..Len(Tail(s)) : Tail(s)[i] = s[i + 1]
  BY <1>1, HeadTailProperties
<1>3. IsSequence(Tail(s))
  BY <1>2, SequenceOfOwn
<1>4. Head(s) = s[1]
  BY <1>1
<1>5. Len(s) \in Nat
  BY SequenceLen
<1>6. Tail(s) = <<>> <=> Len(Tail(s)) = 0
  BY <1>3, SequenceLen
<1> QED
  BY <1>2, <1>3, <1>4, <1>5, <1>6

\* A sequence with another first element, if it has one.
LEMMA SequenceExcept ==
  ASSUME NEW s, IsSequence(s), NEW e
  PROVE  /\ IsSequence([s EXCEPT ![1] = e])
         /\ Len([s EXCEPT ![1] = e]) = Len(s)
         /\ s # <<>> => [s EXCEPT ![1] = e][1] = e
         /\ \A i \in 2..Len(s) : [s EXCEPT ![1] = e][i] = s[i]
<1> DEFINE S == {s[i] : i \in DOMAIN s} \cup {e}
           t == [s EXCEPT ![1] = e]
<1>1. Len(s) \in Nat /\ DOMAIN s = 1..Len(s) /\ (s = <<>> <=> Len(s) = 0)
  BY SequenceLen
<1>2. /\ t \in [1..Len(s) -> S]
      /\ \A j \in 1..Len(s) : t[j] = IF j = 1 THEN e ELSE s[j]
  BY <1>1
<1> HIDE DEF S, t
<1>3. t \in Seq(S)
  BY <1>1, <1>2, SeqDef
<1>4. IsSequence(t)
  BY <1>3, SequenceOfOwn
<1>5. Len(t) \in Nat /\ DOMAIN t = 1..Len(t)
  BY <1>4, SequenceLen
<1>6. Len(t) = Len(s)
  BY <1>1, <1>2, <1>5
<1> QED
  BY <1>1, <1>2, <1>4, <1>6 DEF t

\* A sequence with one more element.
LEMMA SequenceAppend ==
  ASSUME NEW s, IsSequence(s), NEW e
  PROVE  /\ IsSequence(Append(s, e))
         /\ Len(Append(s, e)) = Len(s) + 1
         /\ DOMAIN Append(s, e) = 1..(Len(s) + 1)
         /\ Append(s, e)[Len(s) + 1] = e
         /\ \A i \in DOMAIN s : Append(s, e)[i] = s[i]
<1> DEFINE S == {s[i] : i \in DOMAIN s} \cup {e}
           t == Append(s, e)
<1>1. s \in Seq({s[i] : i \in DOMAIN s})
  BY DEF IsSequence
<1>2. s \in Seq(S)
  BY <1>1, SeqMonotonic
<1>3. Len(s) \in Nat /\ DOMAIN s = 1..Len(s)
  BY SequenceLen
<1>4. e \in S
  OBVIOUS
<1> HIDE DEF S
<1>5. /\ t \in Seq(S) /\ Len(t) = Len(s) + 1
      /\ \A i \in 1..Len(s) : t[i] = s[i]
      /\ t[Len(s) + 1] = e
  BY <1>2, <1>4, AppendProperties
<1>6. IsSequence(t)
  BY <1>5, SequenceOfOwn
<1>7. DOMAIN t = 1..(Len(s) + 1)
  BY <1>5, <1>6, SequenceLen
<1> QED
  BY <1>3, <1>5, <1>6, <1>7

----
(* What a step does to its call *)

\* A call goes on with a plan, and other calls do not.
LEMMA GoesDoes ==
  ASSUME DOMAIN call = Calls, NEW c \in Calls, NEW next, DOMAIN next = DOMAIN NoCall,
         NEW plan, Goes(c, next, plan)
  PROVE  /\ DOMAIN call' = Calls /\ DOMAIN call'[c] = DOMAIN NoCall
         /\ \A d \in Calls \ {c} : call'[d] = call[d]
         /\ call'[c].plan = plan
         /\ call'[c].ended = IF plan = <<>> THEN Len(changes') ELSE next.ended
         /\ call'[c].request = next.request /\ call'[c].docs = next.docs
         /\ call'[c].read = next.read /\ call'[c].answer = next.answer
         /\ call'[c].began = next.began /\ call'[c].kinds = next.kinds
         /\ call'[c].found = next.found /\ call'[c].missed = next.missed
  BY DEF Goes, NoCall

Keeps(c) ==
  /\ DOMAIN call' = Calls /\ DOMAIN call'[c] = DOMAIN NoCall
  /\ \A d \in Calls \ {c} : call'[d] = call[d]
  /\ call'[c].request = call[c].request /\ call'[c].began = call[c].began
  /\ call'[c].kinds = call[c].kinds
  /\ call'[c].ended = IF call'[c].plan = <<>> THEN Len(changes') ELSE call[c].ended

LEMMA AnswersDoes ==
  ASSUME CallsShaped, NEW c \in Calls, NEW answer, Answers(c, answer)
  PROVE  /\ Keeps(c) /\ call'[c].plan = <<>> /\ call'[c].answer = answer
         /\ call'[c].docs = call[c].docs /\ call'[c].read = call[c].read
         /\ call'[c].found = call[c].found /\ call'[c].missed = call[c].missed
<1> DEFINE next == [call[c] EXCEPT !.answer = answer]
<1>1. DOMAIN call = Calls /\ DOMAIN call[c] = DOMAIN NoCall
  BY DEF CallsShaped
<1>2. /\ DOMAIN next = DOMAIN NoCall
      /\ next.request = call[c].request /\ next.docs = call[c].docs
      /\ next.read = call[c].read /\ next.answer = answer
      /\ next.began = call[c].began /\ next.kinds = call[c].kinds
      /\ next.found = call[c].found /\ next.missed = call[c].missed
      /\ next.ended = call[c].ended
  BY <1>1 DEF NoCall
<1>3. Goes(c, next, <<>>)
  BY DEF Answers
<1> HIDE DEF next
<1> QED
  BY <1>1, <1>2, <1>3, GoesDoes DEF Keeps

\* What a step leaves alone in its call.
Carries(next, c) ==
  /\ DOMAIN next = DOMAIN NoCall
  /\ next.request = call[c].request /\ next.began = call[c].began
  /\ next.kinds = call[c].kinds /\ next.ended = call[c].ended

\* A call goes on with a step that leaves its answer open.
LEMMA NextDoes ==
  ASSUME CallsShaped, NEW c \in Calls, NEW next, Carries(next, c),
         NEW plan, Goes(c, next, plan)
  PROVE  /\ Keeps(c) /\ call'[c].plan = plan /\ call'[c].docs = next.docs
         /\ call'[c].read = next.read /\ call'[c].answer = next.answer
         /\ call'[c].found = next.found /\ call'[c].missed = next.missed
<1>1. DOMAIN call = Calls
  BY DEF CallsShaped
<1> QED
  BY <1>1, GoesDoes DEF Keeps, Carries

\* Where the plan of a call goes in a step that is not of a manifest.
PlanGoes(c) ==
  \/ call'[c].plan = Tail(call[c].plan)
  \/ call'[c].plan = <<>>
  \/ call'[c].plan = <<"list">> /\ Tool(c) = "resources_list"
  \/ Tool(c) = "pods_delete"

LEMMA FailsDoes ==
  ASSUME CallsShaped, NEW c \in Calls, Fails(c)
  PROVE  /\ Keeps(c) /\ UNCHANGED <<objects, changes>>
         /\ call'[c].plan = <<>> /\ call'[c].answer = "error"
         /\ call'[c].docs = call[c].docs /\ call'[c].read = call[c].read
  BY AnswersDoes DEF Fails

\* The namespace a step leaves the document of a call in.
LEMMA DocMoves ==
  ASSUME CallsShaped, NEW c \in Calls, NEW ns
  PROVE  LET next == [call[c] EXCEPT !.docs[1].ns = ns]
         IN /\ Carries(next, c)
            /\ next.docs = [call[c].docs EXCEPT ![1] = [call[c].docs[1] EXCEPT !.ns = ns]]
            /\ next.plan = call[c].plan /\ next.read = call[c].read
            /\ next.answer = call[c].answer
            /\ next.found = call[c].found /\ next.missed = call[c].missed
<1>1. DOMAIN call[c] = DOMAIN NoCall
  BY DEF CallsShaped
<1> QED
  BY <1>1 DEF NoCall, Carries

\* The mapper is filled, if it was not, and tells the kind of the document or
\* does not; or discovery fails.
LEMMA MapKindDoes ==
  ASSUME CallsShaped, NEW c \in Calls, MapKind(c)
  PROVE  /\ At(c, "map") /\ Keeps(c) /\ UNCHANGED serverVars /\ PlanGoes(c)
         /\ call'[c].read = call[c].read /\ call'[c].found = call[c].found
         /\ call'[c].missed = call[c].missed
         /\ mapper' \in {mapper, served} /\ (mapper # Unfilled => mapper' = mapper)
         /\ \/ call'[c].plan = <<>> /\ call'[c].answer = "error" /\ call'[c].docs = call[c].docs
            \/ /\ mapper' = IF mapper = Unfilled THEN served ELSE mapper
               /\ Doc(c).kind \notin mapper'
               /\ call'[c].plan = <<>> /\ call'[c].answer = "noMatch"
               /\ call'[c].docs = call[c].docs
            \/ /\ Tool(c) # "resources_list" => call'[c].plan = Tail(call[c].plan)
               /\ call'[c].answer = call[c].answer
               /\ \E ns \in {call[c].docs[1].ns, NamespaceOrDefault(call[c].docs[1].ns)} :
                    call'[c].docs = [call[c].docs EXCEPT ![1] = [call[c].docs[1] EXCEPT !.ns = ns]]
<1>1. /\ At(c, "map") /\ UNCHANGED serverVars
      /\ mapper' \in {mapper, served} /\ (mapper # Unfilled => mapper' = mapper)
  BY DEF MapKind
<1>2. CASE mapper = Unfilled /\ Answers(c, "error") /\ UNCHANGED mapper
  BY <1>1, <1>2, AnswersDoes DEF PlanGoes
<1>3. CASE /\ mapper' = IF mapper = Unfilled THEN served ELSE mapper
           /\ Doc(c).kind \notin mapper'
           /\ Answers(c, "noMatch")
  BY <1>1, <1>3, AnswersDoes DEF PlanGoes
<1>4. ASSUME NEW ns \in {call[c].docs[1].ns, NamespaceOrDefault(call[c].docs[1].ns)},
             \/ /\ Tool(c) = "resources_list"
                /\ Goes(c, [call[c] EXCEPT !.docs[1].ns = ns], <<"list">>)
             \/ GoesOn(c, [call[c] EXCEPT !.docs[1].ns = ns])
      PROVE  /\ Keeps(c) /\ PlanGoes(c) /\ call'[c].read = call[c].read
             /\ call'[c].found = call[c].found /\ call'[c].missed = call[c].missed
             /\ Tool(c) # "resources_list" => call'[c].plan = Tail(call[c].plan)
             /\ call'[c].answer = call[c].answer
             /\ call'[c].docs = [call[c].docs EXCEPT ![1] = [call[c].docs[1] EXCEPT !.ns = ns]]
  <2> DEFINE next == [call[c] EXCEPT !.docs[1].ns = ns]
  <2>1. /\ Carries(next, c)
        /\ next.docs = [call[c].docs EXCEPT ![1] = [call[c].docs[1] EXCEPT !.ns = ns]]
        /\ next.plan = call[c].plan /\ next.read = call[c].read
        /\ next.answer = call[c].answer
        /\ next.found = call[c].found /\ next.missed = call[c].missed
    BY DocMoves
  <2>2. \/ Tool(c) = "resources_list" /\ Goes(c, next, <<"list">>)
        \/ Goes(c, next, Tail(call[c].plan))
    BY <1>4, <2>1 DEF GoesOn
  <2> HIDE DEF next
  <2> QED
    BY <2>1, <2>2, NextDoes DEF PlanGoes
<1>5. CASE /\ mapper' = IF mapper = Unfilled THEN served ELSE mapper
           /\ Doc(c).kind \in mapper'
           /\ \E told \in BOOLEAN :
                   LET defaults == told /\ Doc(c).kind \notin ClusterKinds
                                        /\ Tool(c) # "resources_list"
                       narrows == told /\ Doc(c).kind \notin ClusterKinds /\ Doc(c).ns = ""
                       next == [call[c] EXCEPT !.docs[1].ns =
                                  IF defaults THEN NamespaceOrDefault(@) ELSE @]
                   IN IF Tool(c) = "resources_list" /\ ~narrows
                      THEN Goes(c, next, <<"list">>)
                      ELSE GoesOn(c, next)
  <2>1. \E ns \in {call[c].docs[1].ns, NamespaceOrDefault(call[c].docs[1].ns)} :
           \/ /\ Tool(c) = "resources_list"
              /\ Goes(c, [call[c] EXCEPT !.docs[1].ns = ns], <<"list">>)
           \/ GoesOn(c, [call[c] EXCEPT !.docs[1].ns = ns])
    BY <1>5
  <2> QED
    BY <1>1, <1>4, <2>1
<1> QED
  BY <1>2, <1>3, <1>5 DEF MapKind

\* The object is read, and kept for what comes next.
LEMMA ReadDoes ==
  ASSUME CallsShaped, NEW c \in Calls, Read(c)
  PROVE  /\ At(c, "get") /\ Keeps(c) /\ UNCHANGED <<serverVars, mapper>> /\ PlanGoes(c)
         /\ call'[c].docs = call[c].docs
         /\ \/ call'[c].plan = <<>>
            \/ /\ KeyOf(Doc(c)) \in DOMAIN objects
               /\ call'[c].read = objects[KeyOf(Doc(c))]
<1>1. At(c, "get") /\ UNCHANGED <<serverVars, mapper>> /\ DOMAIN call[c] = DOMAIN NoCall
  BY DEF Read, CallsShaped
<1>2. CASE Fails(c)
  BY <1>1, <1>2, FailsDoes DEF PlanGoes
<1>3. CASE KeyOf(Doc(c)) \in DOMAIN objects /\ AfterRead(c, objects[KeyOf(Doc(c))])
  <2> DEFINE o == objects[KeyOf(Doc(c))]
             next == [call[c] EXCEPT !.read = o]
  <2>1. /\ Carries(next, c)
        /\ next.docs = call[c].docs /\ next.read = o
    BY <1>1 DEF NoCall, Carries
  <2>2. \/ Tool(c) = "pods_delete" /\ Goes(c, next, ResourcesDelete)
        \/ \E answer \in {"error", "unchanged"} : Answers(c, answer)
        \/ Goes(c, next, Tail(call[c].plan))
    BY <1>3 DEF AfterRead
  <2> HIDE DEF next, o
  <2>3. CASE Tool(c) = "pods_delete" /\ Goes(c, next, ResourcesDelete)
    BY <1>1, <1>3, <2>1, <2>3, NextDoes DEF PlanGoes, o
  <2>4. CASE \E answer \in {"error", "unchanged"} : Answers(c, answer)
    BY <1>1, <2>4, AnswersDoes DEF PlanGoes
  <2>5. CASE Goes(c, next, Tail(call[c].plan))
    BY <1>1, <1>3, <2>1, <2>5, NextDoes DEF PlanGoes, o
  <2> QED
    BY <2>2, <2>3, <2>4, <2>5
<1> QED
  BY <1>2, <1>3 DEF Read

\* The call goes on as it is.
LEMMA GoesOnDoes ==
  ASSUME CallsShaped, NEW c \in Calls, GoesOn(c, call[c])
  PROVE  /\ Keeps(c) /\ call'[c].plan = Tail(call[c].plan) /\ call'[c].docs = call[c].docs
         /\ call'[c].read = call[c].read /\ call'[c].answer = call[c].answer
<1>1. DOMAIN call[c] = DOMAIN NoCall
  BY DEF CallsShaped
<1> QED
  BY <1>1, NextDoes DEF GoesOn, Carries

\* The other requests that read, and the lists of vm_create.
LEMMA OtherReadsDo ==
  ASSUME CallsShaped, NEW c \in Calls,
         Review(c) \/ List(c) \/ Discover(c) \/ Stream(c) \/ Search(c)
  PROVE  /\ \E step \in {"review", "list", "discover", "stream", "search"} : At(c, step)
         /\ Keeps(c) /\ UNCHANGED <<serverVars, mapper>> /\ PlanGoes(c)
<1>1. DOMAIN call[c] = DOMAIN NoCall
  BY DEF CallsShaped
<1>2. CASE Review(c)
  <2>1. PICK ns : GoesOn(c, [call[c] EXCEPT !.docs[1].ns = ns])
    BY <1>2 DEF Review
  <2> DEFINE next == [call[c] EXCEPT !.docs[1].ns = ns]
  <2>2. /\ Carries(next, c)
        /\ next.plan = call[c].plan
    BY DocMoves
  <2>3. Goes(c, next, Tail(call[c].plan))
    BY <2>1, <2>2 DEF GoesOn
  <2> HIDE DEF next
  <2> QED
    BY <1>2, <2>2, <2>3, NextDoes DEF Review, PlanGoes
<1>3. CASE List(c) \/ Discover(c) \/ Stream(c)
  <2>1. Fails(c) \/ GoesOn(c, call[c])
    BY <1>3 DEF List, Discover, Stream
  <2>2. Keeps(c) /\ PlanGoes(c)
    BY <2>1, FailsDoes, GoesOnDoes DEF PlanGoes
  <2> QED
    BY <1>3, <2>2 DEF List, Discover, Stream
<1>4. CASE Search(c)
  <2>1. PICK vm, missed :
          GoesOn(c, [call[c] EXCEPT !.docs[1].content.body = <<vm>>, !.missed = missed])
    BY <1>4 DEF Search
  <2> DEFINE next == [call[c] EXCEPT !.docs[1].content.body = <<vm>>, !.missed = missed]
  <2>2. /\ Carries(next, c)
        /\ next.plan = call[c].plan
    BY <1>1 DEF NoCall, Carries
  <2>3. Goes(c, next, Tail(call[c].plan))
    BY <2>1, <2>2 DEF GoesOn
  <2> HIDE DEF next
  <2>4. Keeps(c) /\ call'[c].plan = Tail(call[c].plan)
    BY <2>2, <2>3, NextDoes
  <2>5. At(c, "search") /\ UNCHANGED <<serverVars, mapper>>
    BY <1>4 DEF Search
  <2> QED
    BY <2>4, <2>5 DEF PlanGoes
<1> QED
  BY <1>2, <1>3, <1>4

\* A document of a manifest is stored where the mapper put it.
LEMMA ApplyDoes ==
  ASSUME CallsShaped, NEW c \in Calls, Apply(c)
  PROVE  /\ At(c, "apply") /\ Keeps(c) /\ served' = served /\ PlanGoes(c)
         /\ mapper' \in {mapper, Unfilled} /\ call'[c].read = call[c].read
         /\ \/ /\ UNCHANGED <<objects, changes, mapper>>
               /\ call'[c].plan = <<>> /\ call'[c].answer = "error"
               /\ call'[c].docs = call[c].docs
            \/ /\ OnPath(KeyOf(Doc(c))) /\ Put(c, KeyOf(Doc(c)), Doc(c).content)
               /\ Doc(c).kind = "CustomResourceDefinition" => mapper' = Unfilled
               /\ call'[c].plan = Tail(call[c].plan) /\ call'[c].answer = call[c].answer
               /\ call'[c].docs = Tail(call[c].docs)
<1>1. At(c, "apply") /\ served' = served
  BY DEF Apply
<1>2. CASE Fails(c) /\ UNCHANGED mapper
  BY <1>1, <1>2, FailsDoes DEF PlanGoes
<1>3. CASE /\ OnPath(KeyOf(Doc(c)))
           /\ Put(c, KeyOf(Doc(c)), Doc(c).content)
           /\ mapper' = IF Doc(c).kind = "CustomResourceDefinition" THEN Unfilled ELSE mapper
           /\ GoesOn(c, [call[c] EXCEPT !.docs = Tail(@)])
  <2> DEFINE next == [call[c] EXCEPT !.docs = Tail(@)]
  <2>1. DOMAIN call[c] = DOMAIN NoCall
    BY DEF CallsShaped
  <2>2. /\ Carries(next, c)
        /\ next.plan = call[c].plan /\ next.docs = Tail(call[c].docs)
        /\ next.read = call[c].read /\ next.answer = call[c].answer
    BY <2>1 DEF NoCall, Carries
  <2>3. Goes(c, next, Tail(call[c].plan))
    BY <1>3, <2>2 DEF GoesOn
  <2> HIDE DEF next
  <2> QED
    BY <1>1, <1>3, <2>2, <2>3, NextDoes DEF PlanGoes
<1> QED
  BY <1>2, <1>3 DEF Apply

\* An update is stored over the version that was read, and its answer read in
\* the place of that.
LEMMA UpdateDoes ==
  ASSUME CallsShaped, NEW c \in Calls, Update(c)
  PROVE  /\ \E step \in Updates : At(c, step)
         /\ Keeps(c) /\ UNCHANGED <<served, mapper>> /\ PlanGoes(c)
         /\ call'[c].docs = call[c].docs
         /\ \/ UNCHANGED <<objects, changes>> /\ call'[c].plan = <<>>
            \/ /\ KeyOf(Doc(c)) \in DOMAIN objects
               /\ objects[KeyOf(Doc(c))].version = call[c].read.version
               /\ \E mode : Put(c, KeyOf(Doc(c)), [Content(call[c].read) EXCEPT !.mode = mode])
               /\ call'[c].read = objects'[KeyOf(Doc(c))]
<1> DEFINE k == KeyOf(Doc(c))
<1>1. (\E step \in Updates : At(c, step)) /\ UNCHANGED <<served, mapper>>
  BY DEF Update, Updates
<1>2. CASE Fails(c)
  BY <1>1, <1>2, FailsDoes DEF PlanGoes
<1>3. CASE /\ k \in DOMAIN objects
           /\ objects[k].version = call[c].read.version
           /\ Put(c, k, [Content(call[c].read) EXCEPT !.mode = Wanted(c)])
           /\ GoesOn(c, [call[c] EXCEPT !.read = objects'[k]])
  <2> HIDE DEF k
  <2> DEFINE next == [call[c] EXCEPT !.read = objects'[k]]
  <2>1. DOMAIN call[c] = DOMAIN NoCall
    BY DEF CallsShaped
  <2>2. /\ Carries(next, c)
        /\ next.plan = call[c].plan /\ next.docs = call[c].docs
        /\ next.read = objects'[k]
    BY <2>1 DEF NoCall, Carries
  <2>3. Goes(c, next, Tail(call[c].plan))
    BY <1>3, <2>2 DEF GoesOn
  <2> HIDE DEF next
  <2>4. /\ Keeps(c) /\ call'[c].plan = Tail(call[c].plan)
        /\ call'[c].docs = call[c].docs /\ call'[c].read = objects'[k]
    BY <2>2, <2>3, NextDoes
  <2>5. PlanGoes(c)
    BY <2>4 DEF PlanGoes
  <2>6. \E mode : Put(c, k, [Content(call[c].read) EXCEPT !.mode = mode])
    BY <1>3
  <2> QED
    BY <1>1, <1>3, <2>4, <2>5, <2>6 DEF k
<1> QED
  BY <1>2, <1>3 DEF Update

\* The other requests that change the cluster.
LEMMA OtherChangesDo ==
  ASSUME CallsShaped, NEW c \in Calls,
         Delete(c) \/ ListManaged(c) \/ RemoveManaged(c) \/ Create(c)
  PROVE  /\ \E step \in {"delete", "services", "routes", "remove", "create"} : At(c, step)
         /\ Keeps(c) /\ UNCHANGED <<served, mapper>>
         /\ PlanGoes(c) \/ (At(c, "remove") /\ call'[c].plan = call[c].plan)
         /\ \/ UNCHANGED <<objects, changes>>
            \/ ~ At(c, "create") /\ \E k \in DOMAIN objects : Erase(c, k)
            \/ At(c, "create") /\ \E k, content : k \notin DOMAIN objects /\ Put(c, k, content)
<1>1. DOMAIN call[c] = DOMAIN NoCall
  BY DEF CallsShaped
<1>2. CASE Delete(c)
  <2>1. /\ At(c, "delete") /\ UNCHANGED <<served, mapper>>
        /\ \/ Fails(c)
           \/ (\E k \in DOMAIN objects : Erase(c, k)) /\ GoesOn(c, call[c])
    BY <1>2 DEF Delete
  <2>2. ~ At(c, "create")
    BY <2>1 DEF At
  <2> QED
    BY <2>1, <2>2, FailsDoes, GoesOnDoes DEF PlanGoes
<1>3. ASSUME NEW next, Carries(next, c), next.plan = call[c].plan, GoesOn(c, next)
      PROVE  Keeps(c) /\ PlanGoes(c)
  BY <1>3, NextDoes DEF GoesOn, PlanGoes
<1>4. CASE ListManaged(c)
  <2>1. /\ At(c, "services") \/ At(c, "routes")
        /\ UNCHANGED <<serverVars, mapper>>
        /\ \/ GoesOn(c, [call[c] EXCEPT !.missed = TRUE])
           \/ \E found : GoesOn(c, [call[c] EXCEPT !.found = found])
           \/ GoesOn(c, call[c])
    BY <1>4 DEF ListManaged
  <2>2. ASSUME NEW found PROVE LET next == [call[c] EXCEPT !.found = found] IN
             /\ Carries(next, c)
             /\ next.plan = call[c].plan
    BY <1>1 DEF NoCall, Carries
  <2>3. LET next == [call[c] EXCEPT !.missed = TRUE] IN
             /\ Carries(next, c)
             /\ next.plan = call[c].plan
    BY <1>1 DEF NoCall, Carries
  <2>4. Keeps(c) /\ PlanGoes(c)
    BY <1>1, <1>3, <2>1, <2>2, <2>3 DEF Carries
  <2> QED
    BY <2>1, <2>4 DEF serverVars
<1>5. CASE RemoveManaged(c)
  <2>1. /\ At(c, "remove") /\ UNCHANGED <<served, mapper>>
        /\ \/ UNCHANGED <<objects, changes>>
           \/ \E k \in DOMAIN objects : Erase(c, k)
        /\ \/ GoesOn(c, call[c])
           \/ \E found, missed :
                Goes(c, [call[c] EXCEPT !.found = found, !.missed = missed], call[c].plan)
           \/ \E found : Goes(c, [call[c] EXCEPT !.found = found], call[c].plan)
    BY <1>5 DEF RemoveManaged
  <2>2. ~ At(c, "create")
    BY <2>1 DEF At
  <2>3. Keeps(c) /\ (PlanGoes(c) \/ call'[c].plan = call[c].plan)
    <3>1. CASE GoesOn(c, call[c])
      BY <3>1, GoesOnDoes DEF PlanGoes
    <3>2. ASSUME NEW found, NEW missed,
                 Goes(c, [call[c] EXCEPT !.found = found, !.missed = missed], call[c].plan)
          PROVE  Keeps(c) /\ call'[c].plan = call[c].plan
      <4> DEFINE next == [call[c] EXCEPT !.found = found, !.missed = missed]
      <4>1. Carries(next, c)
        BY <1>1 DEF NoCall, Carries
      <4>2. Goes(c, next, call[c].plan)
        BY <3>2
      <4> HIDE DEF next
      <4> QED
        BY <4>1, <4>2, NextDoes
    <3>3. ASSUME NEW found, Goes(c, [call[c] EXCEPT !.found = found], call[c].plan)
          PROVE  Keeps(c) /\ call'[c].plan = call[c].plan
      <4> DEFINE next == [call[c] EXCEPT !.found = found]
      <4>1. Carries(next, c)
        BY <1>1 DEF NoCall, Carries
      <4>2. Goes(c, next, call[c].plan)
        BY <3>3
      <4> HIDE DEF next
      <4> QED
        BY <4>1, <4>2, NextDoes
    <3> QED
      BY <2>1, <3>1, <3>2, <3>3
  <2> QED
    BY <2>1, <2>2, <2>3
<1>6. CASE Create(c)
  <2>1. /\ At(c, "create") /\ UNCHANGED <<served, mapper>>
        /\ \/ Fails(c)
           \/ /\ \E k, content : k \notin DOMAIN objects /\ Put(c, k, content)
              /\ GoesOn(c, call[c])
    BY <1>6 DEF Create
  <2> QED
    BY <2>1, FailsDoes, GoesOnDoes DEF PlanGoes
<1> QED
  BY <1>2, <1>4, <1>5, <1>6

----
(* The log of changes *)

\* A set of numbers has a least one: induction, without an operator.
LEMMA Least ==
  ASSUME NEW M \in SUBSET Nat, M # {}
  PROVE  \E i \in M : \A j \in M : i <= j
<1>1. PICK i \in M : \A j \in M : ~ (<<j, i>> \in OpToRel(<, Nat))
  BY WFMin, NatLessThanWellFounded, Zenon
<1>2. OpToRel(<, Nat) = {ss \in Nat \X Nat : ss[1] < ss[2]}
  BY Zenon DEF OpToRel
<1>3. ASSUME NEW j \in M PROVE i <= j
  <2>1. ~ (<<j, i>> \in {ss \in Nat \X Nat : ss[1] < ss[2]})
    BY <1>1, <1>2, Zenon
  <2> QED
    BY <2>1
<1> QED
  BY <1>3

\* Induction over an interval, for a set of the numbers that have a property.
LEMMA Stepwise ==
  ASSUME NEW m \in Nat, NEW n \in Nat, NEW P, m \in P,
         \A i \in m .. n : i # m /\ i - 1 \in P => i \in P
  PROVE  m .. n \subseteq P
<1> DEFINE Bad == {i \in m .. n : i \notin P}
<1>1. SUFFICES ASSUME Bad # {}
               PROVE  FALSE
  OBVIOUS
<1>2. PICK i \in Bad : \A k \in Bad : i <= k
  <2>1. Bad \in SUBSET Nat
    OBVIOUS
  <2> HIDE DEF Bad
  <2> QED
    BY <1>1, <2>1, Least
<1>3. i \in m .. n /\ i # m /\ i - 1 \in m .. n /\ i - 1 \notin Bad
  BY <1>2
<1> QED
  BY <1>2, <1>3

\* ContentAfter, of a log and of what there is after all of it.
Later(log, n, k) == {i \in DOMAIN log : i > n /\ log[i].key = k}

After(log, n, k, o) ==
  LET later == Later(log, n, k)
  IN IF later = {} THEN Content(o)
     ELSE Content(log[CHOOSE i \in later : \A j \in later : i <= j].was)

Under(store, k) == IF k \in DOMAIN store THEN store[k] ELSE NoObject

LEMMA AfterIs ==
  ASSUME NEW n, NEW k
  PROVE  /\ ContentAfter(n, k) = After(changes, n, k, Under(objects, k))
         /\ ContentAfter(n, k)' = After(changes', n, k, Under(objects', k))
  BY DEF ContentAfter, After, Later, Object, Under

\* The first change after n is over what there was then.
LEMMA AfterLeast ==
  ASSUME NEW log, NEW n, NEW k, NEW o, DOMAIN log \subseteq Nat,
         NEW m \in Later(log, n, k), \A j \in Later(log, n, k) : m <= j
  PROVE  After(log, n, k, o) = Content(log[m].was)
<1> DEFINE later == Later(log, n, k)
           first == CHOOSE i \in later : \A j \in later : i <= j
<1>1. later \subseteq Nat
  BY DEF Later
<1>2. first \in later /\ \A j \in later : first <= j
  BY Zenon
<1>3. first = m
  <2>1. first <= m /\ m <= first
    BY <1>2
  <2>2. first \in Nat /\ m \in Nat
    BY <1>1, <1>2
  <2> HIDE DEF first
  <2> QED
    BY <2>1, <2>2
<1>4. later # {}
  OBVIOUS
<1> QED
  BY <1>3, <1>4 DEF After

\* A change leaves alone what there was before it.
LEMMA AfterAppend ==
  ASSUME NEW log, IsSequence(log), NEW e, NEW k, NEW o, NEW p, NEW n \in 0..Len(log),
         \/ e.key # k /\ p = o
         \/ e.key = k /\ e.was = o
  PROVE  After(Append(log, e), n, k, p) = After(log, n, k, o)
<1> DEFINE L == Append(log, e)
           l == Len(log)
<1>1. /\ l \in Nat /\ DOMAIN log = 1..l /\ DOMAIN L = 1..(l + 1)
      /\ L[l + 1] = e /\ \A i \in DOMAIN log : L[i] = log[i]
  BY SequenceLen, SequenceAppend
<1> HIDE DEF L, l
<1>2. /\ n \in Nat /\ n <= l
      /\ DOMAIN L \subseteq Nat /\ DOMAIN log \subseteq Nat
  BY <1>1 DEF l
<1>3. Later(L, n, k) = Later(log, n, k) \cup {i \in {l + 1} : e.key = k}
  BY <1>1, <1>2 DEF Later
<1>4. CASE Later(log, n, k) # {}
  <2>1. Later(log, n, k) \in SUBSET Nat
    BY <1>2 DEF Later
  <2>2. PICK m \in Later(log, n, k) : \A j \in Later(log, n, k) : m <= j
    BY <1>4, <2>1, Least
  <2>3. m \in 1..l /\ m \in DOMAIN log
    BY <1>1 DEF Later
  <2>4. m \in Later(L, n, k) /\ \A j \in Later(L, n, k) : m <= j
    BY <1>1, <1>3, <2>2, <2>3
  <2>5. After(log, n, k, o) = Content(log[m].was)
    BY <1>2, <2>2, AfterLeast
  <2>6. After(L, n, k, p) = Content(L[m].was)
    BY <1>2, <2>4, AfterLeast
  <2> QED
    BY <1>1, <2>3, <2>5, <2>6 DEF L
<1>5. CASE Later(log, n, k) = {} /\ e.key # k
  <2>1. Later(L, n, k) = {}
    BY <1>3, <1>5
  <2> QED
    BY <1>5, <2>1 DEF After, L
<1>6. CASE Later(log, n, k) = {} /\ e.key = k
  <2>1. l + 1 \in Later(L, n, k) /\ \A j \in Later(L, n, k) : l + 1 <= j
    BY <1>1, <1>3, <1>6
  <2>2. After(L, n, k, p) = Content(L[l + 1].was)
    BY <1>2, <2>1, AfterLeast
  <2>3. e.was = o
    BY <1>6
  <2> QED
    BY <1>1, <1>6, <2>2, <2>3 DEF After, L
<1> QED
  BY <1>4, <1>5, <1>6

\* After all changes there is what there is.
LEMMA AfterAll ==
  ASSUME NEW log, IsSequence(log), NEW k, NEW o
  PROVE  After(log, Len(log), k, o) = Content(o)
<1>1. Len(log) \in Nat /\ DOMAIN log = 1..Len(log)
  BY SequenceLen
<1>2. Later(log, Len(log), k) = {}
  BY <1>1 DEF Later
<1> QED
  BY <1>2 DEF After

----
(* What a step does to the cluster *)

\* A change of what there is under a key.
Writes(by, k, o) ==
  /\ changes' = Append(changes, Change(by, k, Under(objects, k), o))
  /\ Under(objects', k) = o
  /\ \A q : q # k => Under(objects', q) = Under(objects, q)
  /\ \A q \in DOMAIN objects' :
       \/ q # k /\ q \in DOMAIN objects /\ objects'[q] = objects[q]
       \/ q = k /\ objects'[q] = o /\ o.version = Len(changes) + 2

LEMMA PutDoes ==
  ASSUME NEW by, NEW k, NEW content, Put(by, k, content)
  PROVE  \/ /\ UNCHANGED <<objects, changes>>
            /\ k \in DOMAIN objects /\ Content(objects[k]) = content
         \/ /\ Writes(by, k, Versioned(content, Len(changes) + 2))
            /\ k \in DOMAIN objects'
<1> DEFINE now == Versioned(content, Len(changes) + 2)
<1>1. CASE k \in DOMAIN objects /\ Content(objects[k]) = content
  BY <1>1 DEF Put
<1>2. CASE ~ (k \in DOMAIN objects /\ Content(objects[k]) = content)
  <2>1. /\ objects' = [x \in DOMAIN objects \cup {k} |-> IF x = k THEN now ELSE objects[x]]
        /\ changes' = Append(changes, Change(by, k, Object(k), now))
    BY <1>2 DEF Put
  <2>0. Object(k) = Under(objects, k)
    BY DEF Object, Under
  <2>2. now.version = Len(changes) + 2
    BY DEF Versioned
  <2> HIDE DEF now
  <2>3. DOMAIN objects' = DOMAIN objects \cup {k} /\ objects'[k] = now
    BY <2>1
  <2>4. \A q \in DOMAIN objects : q # k => objects'[q] = objects[q]
    BY <2>1
  <2>5. Under(objects', k) = now
    BY <2>3 DEF Under
  <2>6. \A q : q # k => Under(objects', q) = Under(objects, q)
    BY <2>3, <2>4 DEF Under
  <2>7. Writes(by, k, now)
    BY <2>0, <2>1, <2>2, <2>3, <2>4, <2>5, <2>6 DEF Writes
  <2> QED
    BY <2>3, <2>7 DEF now
<1> QED
  BY <1>1, <1>2

LEMMA EraseDoes ==
  ASSUME NEW by, NEW k \in DOMAIN objects, Erase(by, k)
  PROVE  Writes(by, k, NoObject)
<1>1. /\ objects' = [x \in DOMAIN objects \ {k} |-> objects[x]]
      /\ changes' = Append(changes, Change(by, k, objects[k], NoObject))
  BY DEF Erase
<1>2. DOMAIN objects' = DOMAIN objects \ {k}
  BY <1>1
<1>3. \A q \in DOMAIN objects' : objects'[q] = objects[q]
  BY <1>1
<1>4. Under(objects', k) = NoObject
  BY <1>2 DEF Under
<1>5. \A q : q # k => Under(objects', q) = Under(objects, q)
  BY <1>2, <1>3 DEF Under
<1>6. Under(objects, k) = objects[k]
  BY DEF Under
<1> QED
  BY <1>1, <1>2, <1>3, <1>4, <1>5, <1>6 DEF Writes

\* The change a step of a call, or of another client, makes, if it makes any.
Logged(by) == UNCHANGED <<objects, changes>> \/ \E k, o : Writes(by, k, o)

LEMMA PutLogs ==
  ASSUME NEW by, NEW k, NEW content, Put(by, k, content)
  PROVE  Logged(by)
  BY PutDoes DEF Logged

LEMMA EraseLogs ==
  ASSUME NEW by, NEW k \in DOMAIN objects, Erase(by, k)
  PROVE  Logged(by)
  BY EraseDoes DEF Logged

LEMMA LogGrows ==
  ASSUME CallsShaped, NEW by, Logged(by)
  PROVE  /\ IsSequence(changes') /\ Len(changes) \in Nat /\ Len(changes') \in Nat
         /\ DOMAIN changes = 1..Len(changes) /\ DOMAIN changes' = 1..Len(changes')
         /\ Len(changes') \in {Len(changes), Len(changes) + 1}
         /\ \A i \in DOMAIN changes : changes'[i] = changes[i]
         /\ \A i \in DOMAIN changes' \ DOMAIN changes :
              i = Len(changes) + 1 /\ changes'[i].by = by
<1>1. IsSequence(changes)
  BY DEF CallsShaped
<1>2. Len(changes) \in Nat /\ DOMAIN changes = 1..Len(changes)
  BY <1>1, SequenceLen
<1>3. CASE UNCHANGED <<objects, changes>>
  BY <1>1, <1>2, <1>3
<1>4. ASSUME NEW k, NEW o, Writes(by, k, o)
      PROVE  /\ IsSequence(changes') /\ Len(changes') = Len(changes) + 1
             /\ DOMAIN changes' = 1..Len(changes')
             /\ \A i \in DOMAIN changes : changes'[i] = changes[i]
             /\ changes'[Len(changes) + 1].by = by
  <2>1. changes' = Append(changes, Change(by, k, Under(objects, k), o))
    BY <1>4 DEF Writes
  <2>2. Change(by, k, Under(objects, k), o).by = by
    BY DEF Change
  <2> QED
    BY <1>1, <2>1, <2>2, SequenceAppend
<1> QED
  BY <1>2, <1>3, <1>4 DEF Logged

\* A call begins with the documents and the plan of a request.
Begins(c, r, routes) ==
  /\ call'[c].request = r /\ call'[c].docs = Documents(r, routes)
  /\ call'[c].began = Len(changes) /\ call'[c].kinds = served
  /\ \/ /\ call'[c].plan = Plan(r, Documents(r, routes)) /\ call'[c].plan # Invalid
        /\ call'[c].answer = "ok"
        /\ call'[c].ended = IF call'[c].plan = <<>> THEN Len(changes) ELSE 0
     \/ /\ call'[c].plan = <<>> /\ call'[c].answer = "invalid"
        /\ call'[c].ended = Len(changes)

LEMMA BeginDoes ==
  ASSUME CallsShaped, NEW c \in Calls, Begin(c)
  PROVE  /\ call[c] = NoCall /\ UNCHANGED <<serverVars, mapper>>
         /\ DOMAIN call' = Calls /\ DOMAIN call'[c] = DOMAIN NoCall
         /\ \A d \in Calls \ {c} : call'[d] = call[d]
         /\ \E r \in Requests, routes \in BOOLEAN : Begins(c, r, routes)
<1>1. call[c] = NoCall /\ UNCHANGED <<serverVars, mapper>> /\ DOMAIN call = Calls
  BY DEF Begin, CallsShaped
<1>2. PICK r \in Requests, routes \in {OpenShift, FALSE} :
        LET docs == Documents(r, routes)
            plan == Plan(r, docs)
            next == [NoCall EXCEPT !.request = r, !.docs = docs, !.kinds = served,
                       !.began = Len(changes),
                       !.ended = IF plan \in {<<>>, Invalid} THEN Len(changes) ELSE 0]
        IN call' = [call EXCEPT ![c] =
             IF plan # Invalid THEN [next EXCEPT !.plan = plan, !.answer = "ok"]
             ELSE [next EXCEPT !.answer = "invalid"]]
  BY DEF Begin
<1>3. routes \in BOOLEAN
  BY OperationsAssumption
<1> DEFINE docs == Documents(r, routes)
           plan == Plan(r, docs)
           next == [NoCall EXCEPT !.request = r, !.docs = docs, !.kinds = served,
                      !.began = Len(changes),
                      !.ended = IF plan \in {<<>>, Invalid} THEN Len(changes) ELSE 0]
           new == IF plan # Invalid THEN [next EXCEPT !.plan = plan, !.answer = "ok"]
                  ELSE [next EXCEPT !.answer = "invalid"]
<1>4. call' = [call EXCEPT ![c] = new]
  BY <1>2
<1>5. /\ DOMAIN new = DOMAIN NoCall /\ new.request = r /\ new.docs = docs
      /\ new.began = Len(changes) /\ new.kinds = served
      /\ \/ /\ new.plan = plan /\ plan # Invalid /\ new.answer = "ok"
            /\ new.ended = IF new.plan = <<>> THEN Len(changes) ELSE 0
         \/ new.plan = <<>> /\ new.answer = "invalid" /\ new.ended = Len(changes)
  <2> HIDE DEF docs, plan
  <2> QED
    BY DEF NoCall
<1> HIDE DEF new
<1>6. DOMAIN call' = Calls /\ call'[c] = new /\ \A d \in Calls \ {c} : call'[d] = call[d]
  BY <1>1, <1>4
<1>7. Begins(c, r, routes)
  BY <1>5, <1>6 DEF Begins
<1> QED
  BY <1>1, <1>3, <1>5, <1>6, <1>7

LEMMA NoCallIs ==
  /\ NoCall.plan = <<>> /\ NoCall.request.tool = "" /\ NoCall.answer = ""
  /\ NoCall.kinds = {} /\ NoCall.docs = <<>> /\ NoCall.ended = 0
  BY DEF NoCall

\* The steps of a call that is under way.
Works(c) ==
  \/ MapKind(c) \/ Read(c) \/ Apply(c) \/ Update(c)
  \/ Review(c) \/ List(c) \/ Discover(c) \/ Stream(c) \/ Search(c)
  \/ Delete(c) \/ ListManaged(c) \/ RemoveManaged(c) \/ Create(c)

LEMMA WorksDoes ==
  ASSUME CallsShaped, NEW c \in Calls, Works(c)
  PROVE  /\ call[c].plan # <<>> /\ Keeps(c) /\ Logged(c) /\ served' = served
         /\ mapper' \in {mapper, Unfilled, served}
<1>1. CASE MapKind(c)
  BY <1>1, MapKindDoes DEF At, Logged, serverVars
<1>2. CASE Read(c)
  BY <1>2, ReadDoes DEF At, Logged, serverVars
<1>3. CASE Apply(c)
  <2>1. Logged(c)
    BY <1>3, ApplyDoes, PutLogs DEF Logged
  <2> QED
    BY <1>3, <2>1, ApplyDoes DEF At
<1>4. CASE Update(c)
  <2>1. Logged(c)
    BY <1>4, UpdateDoes, PutLogs DEF Logged
  <2> QED
    BY <1>4, <2>1, UpdateDoes DEF At
<1>5. CASE Review(c) \/ List(c) \/ Discover(c) \/ Stream(c) \/ Search(c)
  BY <1>5, OtherReadsDo DEF At, Logged, serverVars
<1>6. CASE Delete(c) \/ ListManaged(c) \/ RemoveManaged(c) \/ Create(c)
  <2>1. Logged(c)
    BY <1>6, OtherChangesDo, PutLogs, EraseLogs DEF Logged
  <2> QED
    BY <1>6, <2>1, OtherChangesDo DEF At
<1> QED
  BY <1>1, <1>2, <1>3, <1>4, <1>5, <1>6 DEF Works

\* Who makes a step, and what it leaves alone.
Acts(by) ==
  /\ Logged(by) /\ DOMAIN call' = Calls
  /\ \A c \in Calls \ {by} : call'[c] = call[c]
  /\ served \subseteq served' /\ mapper' \in {mapper, Unfilled, served}

LEMMA NextActs ==
  ASSUME CallsShaped, [Next]_vars
  PROVE  \E by \in Calls \cup {Elsewhere} :
           Acts(by) /\ (by \in Calls => Begin(by) \/ Works(by))
<1>1. DOMAIN call = Calls /\ Elsewhere \notin Calls
  BY OperationsAssumption DEF CallsShaped
<1>2. ASSUME NEW c \in Calls, Step(c)
      PROVE  Acts(c) /\ (Begin(c) \/ Works(c))
  <2>1. CASE Begin(c)
    BY <2>1, BeginDoes DEF Acts, Logged, serverVars
  <2>2. CASE Works(c)
    BY <2>2, WorksDoes DEF Acts, Keeps
  <2> QED
    BY <1>2, <2>1, <2>2 DEF Step, Works
<1>3. CASE Otherwise
  <2>1. Logged(Elsewhere)
    BY <1>3, PutLogs, EraseLogs DEF Otherwise
  <2> QED
    BY <1>1, <1>3, <2>1 DEF Otherwise, Acts, callVars
<1>4. CASE Establish /\ UNCHANGED callVars
  BY <1>1, <1>4 DEF Establish, Acts, Logged, callVars
<1>5. CASE UNCHANGED vars
  BY <1>1, <1>5 DEF vars, Acts, Logged, callVars, serverVars
<1> QED
  BY <1>2, <1>3, <1>4, <1>5 DEF Next

----
(* The calls and the objects *)

LEMMA ShapedHolds ==
  ASSUME CallsShaped, [Next]_vars
  PROVE  CallsShaped'
<1>1. PICK by \in Calls \cup {Elsewhere} :
        Acts(by) /\ (by \in Calls => Begin(by) \/ Works(by))
  BY NextActs
<1>2. /\ IsSequence(changes') /\ Len(changes) \in Nat /\ Len(changes') \in Nat
      /\ Len(changes) <= Len(changes')
  BY <1>1, LogGrows DEF Acts
<1>3. DOMAIN call' = Calls
  BY <1>1 DEF Acts
<1>4. ASSUME NEW c \in Calls
      PROVE  /\ DOMAIN call'[c] = DOMAIN NoCall
             /\ call'[c] = NoCall \/ call'[c].request \in Requests
             /\ call'[c].began \in 0..Len(changes') /\ call'[c].ended \in 0..Len(changes')
  <2>1. /\ DOMAIN call[c] = DOMAIN NoCall
        /\ call[c] = NoCall \/ call[c].request \in Requests
        /\ call[c].began \in 0..Len(changes) /\ call[c].ended \in 0..Len(changes)
    BY DEF CallsShaped
  <2>2. CASE c # by
    BY <1>1, <1>2, <2>1, <2>2 DEF Acts
  <2>3. CASE c = by /\ Begin(c)
    <3>1. PICK r \in Requests, routes \in BOOLEAN : Begins(c, r, routes)
      BY <2>3, BeginDoes
    <3>2. DOMAIN call'[c] = DOMAIN NoCall
      BY <2>3, BeginDoes
    <3> QED
      BY <1>2, <3>1, <3>2 DEF Begins
  <2>4. CASE c = by /\ Works(c)
    <3>1. Keeps(c) /\ call[c].plan # <<>>
      BY <2>4, WorksDoes
    <3>2. call[c] # NoCall
      BY <3>1, NoCallIs
    <3>3. /\ DOMAIN call'[c] = DOMAIN NoCall /\ call'[c].request = call[c].request
          /\ call'[c].began = call[c].began
          /\ call'[c].ended \in {Len(changes'), call[c].ended}
      BY <3>1 DEF Keeps
    <3> QED
      BY <1>2, <2>1, <3>2, <3>3
  <2> QED
    BY <1>1, <2>2, <2>3, <2>4
<1> QED
  BY <1>2, <1>3, <1>4 DEF CallsShaped

\* The version of an object tells it, in a log of changes.
Told(log, k, o) ==
  \/ o.version = 1 /\ k \in DOMAIN InitialObjects /\ o = InitialObjects[k]
  \/ o.version - 1 \in DOMAIN log /\ o = log[o.version - 1].now

LEMMA ToldIs ==
  /\ VersionsTell <=> \A k \in DOMAIN objects : Told(changes, k, objects[k])
  /\ VersionsTell' <=> \A k \in DOMAIN objects' : Told(changes', k, objects'[k])
  BY DEF VersionsTell, Recorded, Told

LEMMA ToldStays ==
  ASSUME CallsShaped, NEW by, Logged(by), NEW k, NEW o, Told(changes, k, o)
  PROVE  Told(changes', k, o)
  BY LogGrows DEF Told

LEMMA VersionsHold ==
  ASSUME CallsShaped, VersionsTell, NEW by, Logged(by)
  PROVE  VersionsTell'
<1>1. CASE UNCHANGED <<objects, changes>>
  BY <1>1, ToldIs
<1>2. ASSUME NEW k, NEW o, Writes(by, k, o) PROVE VersionsTell'
  <2>1. /\ IsSequence(changes)
        /\ changes' = Append(changes, Change(by, k, Under(objects, k), o))
    BY <1>2 DEF Writes, CallsShaped
  <2>2. /\ Len(changes) \in Nat /\ Len(changes) + 1 \in DOMAIN changes'
        /\ changes'[Len(changes) + 1].now = o
    BY <2>1, SequenceLen, SequenceAppend DEF Change
  <2>3. ASSUME o.version = Len(changes) + 2 PROVE Told(changes', k, o)
    BY <2>2, <2>3 DEF Told
  <2>4. ASSUME NEW q \in DOMAIN objects' PROVE Told(changes', q, objects'[q])
    <3>1. \/ q # k /\ q \in DOMAIN objects /\ objects'[q] = objects[q]
          \/ q = k /\ objects'[q] = o /\ o.version = Len(changes) + 2
      BY <1>2 DEF Writes
    <3>2. CASE q # k /\ q \in DOMAIN objects /\ objects'[q] = objects[q]
      BY <3>2, ToldIs, ToldStays
    <3> QED
      BY <2>3, <3>1, <3>2
  <2> QED
    BY <2>4, ToldIs
<1> QED
  BY <1>1, <1>2 DEF Logged

----
(* The plans of the tools *)

\* What is left of a sequence that is not empty.
LEMMA TailOf ==
  ASSUME NEW S, NEW s \in Seq(S), s # <<>>
  PROVE  /\ Tail(s) \in Seq(S) /\ Len(s) \in Nat \ {0} /\ Len(Tail(s)) = Len(s) - 1
         /\ DOMAIN s = 1..Len(s) /\ DOMAIN Tail(s) = 1..(Len(s) - 1)
         /\ Head(s) = s[1] /\ s[1] \in S
         /\ \A i \in 1..(Len(s) - 1) : Tail(s)[i] = s[i + 1]
         /\ Tail(s) = <<>> <=> Len(s) = 1
<1>1. /\ Tail(s) \in Seq(S) /\ Len(Tail(s)) = Len(s) - 1
      /\ \A i \in 1..Len(Tail(s)) : Tail(s)[i] = s[i + 1]
  BY HeadTailProperties
<1>2. Len(s) \in Nat \ {0} /\ DOMAIN s = 1..Len(s)
  BY EmptySeq, LenProperties
<1>3. DOMAIN Tail(s) = 1..(Len(s) - 1)
  BY <1>1, LenProperties
<1>4. Tail(s) = <<>> <=> Len(Tail(s)) = 0
  BY <1>1, EmptySeq
<1>5. Head(s) = s[1] /\ s[1] \in S
  BY <1>2
<1> QED
  BY <1>1, <1>2, <1>3, <1>4, <1>5

\* Sequences of one, two and three elements.
LEMMA Tuples ==
  ASSUME NEW S, NEW a \in S, NEW b \in S, NEW d \in S
  PROVE  <<a>> \in Seq(S) /\ <<a, b>> \in Seq(S) /\ <<a, b, d>> \in Seq(S)
  OBVIOUS

ReadSteps == {"map", "review", "list", "get", "stream", "discover"}

\* The plans of tools that only read, and of those that only add.
LEMMA ReadingPlans ==
  ASSUME NEW r, NEW docs, r.tool \in Reading, Plan(r, docs) # Invalid
  PROVE  Plan(r, docs) \in Seq(ReadSteps)
<1>1. CASE r.tool = "resources_get"
  BY <1>1 DEF Plan, resourcesGet, Asked, ResourcesGet, ReadSteps
<1>2. CASE r.tool = "resources_list"
  <2>1. Plan(r, docs) = <<"map", "review", "list">>
    BY <1>2 DEF Plan, resourcesList, Asked, ResourcesList
  <2> QED
    BY <2>1 DEF ReadSteps
<1>3. CASE r.tool = "pods_list"
  <2>1. Plan(r, docs) = <<"map", "review", "list">>
    BY <1>3 DEF Plan, podsListInAllNamespaces, Asked, ResourcesList
  <2> QED
    BY <2>1 DEF ReadSteps
<1>4. CASE r.tool = "pods_list_in_namespace"
  <2>1. Plan(r, docs) = <<"map", "review", "list">>
    BY <1>4 DEF Plan, podsListInNamespace, Asked, ResourcesList
  <2> QED
    BY <2>1 DEF ReadSteps
<1>5. CASE r.tool = "pods_get"
  <2>1. Plan(r, docs) = <<"map", "get">>
    BY <1>5 DEF Plan, podsGet, PodsGet, Asked, ResourcesGet
  <2> QED
    BY <2>1 DEF ReadSteps
<1>6. CASE r.tool = "pods_top"
  <2>1. Plan(r, docs) = <<"discover", IF r.doc.name = "" THEN "list" ELSE "stream">>
    BY <1>6 DEF Plan, podsTop, PodsTop, Asked
  <2>2. (IF r.doc.name = "" THEN "list" ELSE "stream") \in ReadSteps /\ "discover" \in ReadSteps
    BY DEF ReadSteps
  <2> HIDE DEF ReadSteps
  <2> QED
    BY <2>1, <2>2, Tuples
<1>7. CASE r.tool = "pods_log"
  <2>1. Plan(r, docs) \in {<<"stream">>, <<"get", "stream">>}
    BY <1>7 DEF Plan, podsLog, Asked, PodsLog
  <2>2. "get" \in ReadSteps /\ "stream" \in ReadSteps
    BY DEF ReadSteps
  <2> HIDE DEF ReadSteps
  <2> QED
    BY <2>1, <2>2, Tuples
<1>8. CASE r.tool = "nodes_log"
  <2>1. Plan(r, docs) = <<"get", "stream">>
    BY <1>8 DEF Plan, nodesLog, Asked, NodesLog
  <2> QED
    BY <2>1 DEF ReadSteps
<1>9. CASE r.tool = "nodes_stats_summary"
  BY <1>9 DEF Plan, nodesStatsSummary, Asked, NodesStatsSummary, ReadSteps
<1>10. CASE r.tool = "nodes_top"
  <2>1. NodesTop(r.doc.name) \in Seq(ReadSteps)
    BY DEF NodesTop, ReadSteps
  <2>2. <<"list">> \in Seq(ReadSteps)
    BY DEF ReadSteps
  <2>3. Plan(r, docs) = NodesTop(r.doc.name) \o <<"list">>
    BY <1>10 DEF Plan, nodesTop
  <2> QED
    BY <2>1, <2>2, <2>3, ConcatProperties
<1>11. CASE r.tool = "events_list"
  <2>1. Plan(r, docs) = <<"map", "review", "list">>
    BY <1>11 DEF Plan, eventsList, Asked, EventsList, ResourcesList
  <2> QED
    BY <2>1 DEF ReadSteps
<1>12. CASE r.tool = "namespaces_list"
  BY <1>12 DEF Plan, namespacesList, NamespacesList, ResourcesList, ReadSteps
<1>13. CASE r.tool = "projects_list"
  BY <1>13 DEF Plan, projectsList, ProjectsList, ResourcesList, ReadSteps
<1>14. CASE r.tool = "tekton_taskrun_logs"
  BY <1>14 DEF Plan, getTaskRunLogs, Asked, ReadSteps
<1> QED
  BY <1>1, <1>2, <1>3, <1>4, <1>5, <1>6, <1>7, <1>8, <1>9, <1>10, <1>11, <1>12, <1>13,
     <1>14 DEF Reading

LEMMA AdditivePlans ==
  ASSUME NEW r, NEW docs, r.tool \in Additive, Plan(r, docs) # Invalid
  PROVE  Plan(r, docs) \in Seq({"get", "create"})
<1>1. Plan(r, docs) = <<"get", "create">>
  BY DEF Plan, Additive, Asked, startPipeline, restartPipelineRun, startTask, restartTaskRun
<1> QED
  BY <1>1

\* The plans of tools that update an object they have read.
LEMMA ReplacingPlans ==
  ASSUME NEW r, NEW docs, r.tool \in Replacing, Plan(r, docs) # Invalid
  PROVE  ReadsThenUpdates(Plan(r, docs)) /\ Head(Plan(r, docs)) \in {"map", "get"}
<1> DEFINE S == {"map", "get"} \cup Updates
<1>1. "map" \in S /\ "get" \in S /\ "halt" \in S /\ "start" \in S /\ "scale" \in S
  BY DEF Updates
<1> HIDE DEF S
<1>2. /\ <<"map", "get">> \in Seq(S) /\ <<"map", "get", "scale">> \in Seq(S)
      /\ <<"get", "start">> \in Seq(S) /\ <<"get", "halt">> \in Seq(S)
      /\ <<"get", "halt", "start">> \in Seq(S)
  BY <1>1, Tuples
<1>3. CASE Plan(r, docs) = <<"map", "get">>
  BY <1>2, <1>3 DEF ReadsThenUpdates, Updates, S
<1>4. CASE Plan(r, docs) = <<"map", "get", "scale">>
  BY <1>2, <1>4 DEF ReadsThenUpdates, Updates, S
<1>5. CASE Plan(r, docs) = <<"get", "start">>
  BY <1>2, <1>5 DEF ReadsThenUpdates, Updates, S
<1>6. CASE Plan(r, docs) = <<"get", "halt">>
  BY <1>2, <1>6 DEF ReadsThenUpdates, Updates, S
<1>7. CASE Plan(r, docs) = <<"get", "halt", "start">>
  BY <1>2, <1>7 DEF ReadsThenUpdates, Updates, S
<1>8. CASE r.tool = "resources_scale"
  BY <1>3, <1>4, <1>8 DEF Plan, resourcesScale, Asked, ResourcesScale
<1>9. CASE r.tool \in {"vm_start", "vm_stop", "vm_restart"}
  BY <1>5, <1>6, <1>7, <1>9 DEF Plan, lifecycle, Asked, StartVM, StopVM, RestartVM
<1> QED
  BY <1>8, <1>9 DEF Replacing

\* The documents of a run are a pod and what exposes it, a route last.
LEMMA RunDocuments ==
  ASSUME NEW r \in Requests, NEW routes \in BOOLEAN
  PROVE  /\ IsSequence(PodsRun(r, routes))
         /\ \A i \in DOMAIN PodsRun(r, routes) :
              /\ IsDocument(PodsRun(r, routes)[i])
              /\ i \in DOMAIN PodsRun(r, FALSE) => PodsRun(r, FALSE)[i] = PodsRun(r, routes)[i]
         /\ DOMAIN PodsRun(r, FALSE) \subseteq DOMAIN PodsRun(r, routes)
<1> DEFINE labelled(kind) == [r.doc EXCEPT !.kind = kind, !.ns = NamespaceOrDefault(@),
                                           !.content.label = r.doc.name]
           kinds(told) == CASE ~r.option -> <<"Pod">>
                            [] r.option /\ ~told -> <<"Pod", "Service">>
                            [] r.option /\ told -> <<"Pod", "Service", "Route">>
<1>1. r.option \in BOOLEAN /\ IsDocument(r.doc)
  BY OperationsAssumption
<1>2. ASSUME NEW kind PROVE IsDocument(labelled(kind))
  <2> DEFINE d == labelled(kind)
  <2>1. /\ DOMAIN r.doc = {"kind", "ns", "name", "content"}
        /\ DOMAIN r.doc.content = {"label", "mode", "body"}
    BY <1>1 DEF IsDocument, Content
  <2>2. /\ DOMAIN d = {"kind", "ns", "name", "content"}
        /\ d.content = [r.doc.content EXCEPT !.label = r.doc.name]
    BY <2>1
  <2>3. d = [kind |-> d.kind, ns |-> d.ns, name |-> d.name, content |-> d.content]
    <3>1. d = [x \in {"kind", "ns", "name", "content"} |-> d[x]]
      BY <2>1
    <3> HIDE DEF d
    <3> QED
      BY <3>1
  <2> HIDE DEF d
  <2>5. d.content = Content(d.content)
    BY <2>1, <2>2 DEF Content
  <2>6. IsDocument(d)
    BY <2>3, <2>5 DEF IsDocument
  <2> QED
    BY <2>6 DEF d
<1>3. \A told : PodsRun(r, told) = [i \in DOMAIN kinds(told) |-> labelled(kinds(told)[i])]
  BY DEF PodsRun
<1>4. \A told \in BOOLEAN :
        kinds(told) \in {<<"Pod">>, <<"Pod", "Service">>, <<"Pod", "Service", "Route">>}
  BY <1>1
<1>5. \A told \in BOOLEAN : \E n \in Nat : DOMAIN kinds(told) = 1..n
  <2>1. /\ DOMAIN <<"Pod">> = 1..1 /\ DOMAIN <<"Pod", "Service">> = 1..2
        /\ DOMAIN <<"Pod", "Service", "Route">> = 1..3
    OBVIOUS
  <2> HIDE DEF kinds
  <2>2. \A told \in BOOLEAN : DOMAIN kinds(told) \in {1..1, 1..2, 1..3}
    BY <1>4, <2>1
  <2> QED
    BY <2>2
<1>6. /\ DOMAIN kinds(FALSE) \subseteq DOMAIN kinds(routes)
      /\ \A i \in DOMAIN kinds(FALSE) : kinds(FALSE)[i] = kinds(routes)[i]
  <2>1. CASE ~ r.option
    BY <2>1
  <2>2. CASE r.option /\ ~ routes
    BY <2>2
  <2>3. CASE r.option /\ routes
    <3>1. /\ kinds(FALSE) = <<"Pod", "Service">>
          /\ kinds(routes) = <<"Pod", "Service", "Route">>
      BY <2>3
    <3> QED
      BY <3>1
  <2> QED
    BY <1>1, <2>1, <2>2, <2>3
<1> HIDE DEF kinds, labelled
<1>7. IsSequence(PodsRun(r, routes))
  <2> DEFINE p == PodsRun(r, routes)
             S == {labelled(kinds(routes)[i]) : i \in DOMAIN kinds(routes)}
  <2>1. PICK n \in Nat : DOMAIN kinds(routes) = 1..n
    BY <1>5
  <2>2. p \in [1..n -> S]
    BY <1>3, <2>1
  <2>3. p \in Seq(S)
    BY <2>2, SeqDef
  <2> QED
    BY <2>3, SequenceOfOwn
<1>8. DOMAIN PodsRun(r, FALSE) = DOMAIN kinds(FALSE)
      /\ DOMAIN PodsRun(r, routes) = DOMAIN kinds(routes)
  BY <1>3
<1>9. ASSUME NEW i \in DOMAIN PodsRun(r, routes)
      PROVE  /\ IsDocument(PodsRun(r, routes)[i])
             /\ i \in DOMAIN PodsRun(r, FALSE) => PodsRun(r, FALSE)[i] = PodsRun(r, routes)[i]
  <2>1. PodsRun(r, routes)[i] = labelled(kinds(routes)[i])
    BY <1>3, <1>8
  <2>2. i \in DOMAIN PodsRun(r, FALSE) => PodsRun(r, FALSE)[i] = labelled(kinds(FALSE)[i])
    BY <1>3, <1>8
  <2> QED
    BY <1>2, <1>6, <1>8, <2>1, <2>2
<1> QED
  BY <1>6, <1>7, <1>8, <1>9

LEMMA ApplyingDocuments ==
  ASSUME NEW r \in Requests, r.tool \in Applying, NEW routes \in BOOLEAN
  PROVE  /\ IsSequence(Documents(r, routes))
         /\ \A i \in DOMAIN Documents(r, routes) : IsDocument(Documents(r, routes)[i])
         /\ r.tool = "resources_create_or_update" => Documents(r, routes) = r.docs
         /\ r.tool = "pods_run" => Documents(r, routes) = PodsRun(r, routes)
<1>1. r.tool = "resources_create_or_update" => Documents(r, routes) = r.docs
  BY DEF Documents, Namespaced
<1>2. r.tool = "pods_run" => Documents(r, routes) = PodsRun(r, routes)
  BY DEF Documents, Namespaced
<1>3. IsSequence(r.docs) /\ \A i \in DOMAIN r.docs : IsDocument(r.docs[i])
  BY OperationsAssumption
<1> QED
  BY <1>1, <1>2, <1>3, RunDocuments DEF Applying

\* The plans of the tools that store the documents of a manifest.
LEMMA ApplyingPlans ==
  ASSUME NEW r, NEW docs, IsSequence(docs), r.tool \in Applying, Plan(r, docs) # Invalid
  PROVE  /\ MapsAndApplies(Plan(r, docs), docs)
         /\ Plan(r, docs) = <<>> => docs = <<>>
<1> DEFINE p == ApplyAll(docs)
           l == Len(docs)
<1>1. Plan(r, docs) = p
  <2>1. CASE r.tool = "resources_create_or_update"
    BY <2>1 DEF Plan, resourcesCreateOrUpdate, Asked, ResourcesCreateOrUpdate
  <2>2. CASE r.tool = "pods_run"
    BY <2>2 DEF Plan, podsRun, Asked
  <2> QED
    BY <2>1, <2>2 DEF Applying
<1>2. l \in Nat /\ (docs = <<>> <=> l = 0)
  BY SequenceLen
<1>3. p = [i \in 1 .. 2 * l |-> IF i % 2 = 1 THEN "map" ELSE "apply"]
  BY DEF ApplyAll
<1> HIDE DEF p, l
<1>4. p \in [1 .. 2 * l -> {"map", "apply"}] /\ 2 * l \in Nat
  BY <1>2, <1>3
<1>5. p \in Seq({"map", "apply"})
  BY <1>4, SeqDef
<1>6. Len(p) = 2 * l /\ DOMAIN p = 1 .. 2 * l
  BY <1>4, <1>5, LenProperties
<1>7. \A i \in DOMAIN p : p[i] = IF (Len(p) - i) % 2 = 0 THEN "apply" ELSE "map"
  BY <1>2, <1>3, <1>6
<1>8. p = <<>> => l = 0
  BY <1>2, <1>5, <1>6, EmptySeq
<1> QED
  BY <1>1, <1>2, <1>5, <1>6, <1>7, <1>8 DEF MapsAndApplies, l

\* A step of a plan leaves the rest of it.
LEMMA ReplacingGoes ==
  ASSUME NEW p, ReadsThenUpdates(p), p # <<>>
  PROVE  /\ Head(p) \in {"map", "get"} \cup Updates
         /\ ReadsThenUpdates(Tail(p))
         /\ Head(p) = "map" => Tail(p) # <<>> /\ Head(Tail(p)) = "get"
<1> DEFINE S == {"map", "get"} \cup Updates
           t == Tail(p)
<1>1. p \in Seq(S)
  BY DEF ReadsThenUpdates
<1> HIDE DEF S, t
<1>2. /\ t \in Seq(S) /\ Len(p) \in Nat \ {0} /\ Len(t) = Len(p) - 1
      /\ Head(p) = p[1] /\ p[1] \in S
      /\ \A i \in 1..(Len(p) - 1) : t[i] = p[i + 1]
      /\ t = <<>> <=> Len(p) = 1
  BY <1>1, TailOf DEF t
<1>3. /\ \A i \in 2..Len(p) : p[i] \in Updates \/ (p[i] = "get" /\ i = 2 /\ p[1] = "map")
      /\ p[1] = "map" => Len(p) > 1 /\ p[2] = "get"
  BY DEF ReadsThenUpdates
<1>4. \A i \in 2..Len(t) : t[i] \in Updates
  BY <1>2, <1>3
<1>5. t # <<>> => t[1] = p[2] /\ 2 \in 2..Len(p) /\ Head(t) = t[1]
  BY <1>2
<1>6. t # <<>> => t[1] # "map"
  BY <1>3, <1>5 DEF Updates
<1>7. ReadsThenUpdates(t)
  BY <1>2, <1>4, <1>6 DEF ReadsThenUpdates, S
<1>8. Head(p) = "map" => t # <<>> /\ Head(t) = "get"
  BY <1>2, <1>3, <1>5
<1> QED
  BY <1>2, <1>7, <1>8 DEF S, t

LEMMA ApplyingGoes ==
  ASSUME NEW p, NEW docs, MapsAndApplies(p, docs), p # <<>>
  PROVE  /\ Head(p) \in {"map", "apply"} /\ docs # <<>>
         /\ Head(p) = "map" => /\ Tail(p) # <<>>
                               /\ \A e : MapsAndApplies(Tail(p), [docs EXCEPT ![1] = e])
         /\ Head(p) = "apply" => /\ MapsAndApplies(Tail(p), Tail(docs))
                                 /\ Tail(p) = <<>> => Tail(docs) = <<>>
<1> DEFINE S == {"map", "apply"}
           t == Tail(p)
           n == Len(p)
           l == Len(docs)
<1>1. /\ p \in Seq(S) /\ IsSequence(docs)
      /\ \A i \in DOMAIN p : p[i] = IF (n - i) % 2 = 0 THEN "apply" ELSE "map"
      /\ n \in {2 * l, 2 * l - 1}
  BY DEF MapsAndApplies
<1> HIDE DEF S, t, n, l
<1>2. /\ t \in Seq(S) /\ n \in Nat \ {0} /\ Len(t) = n - 1
      /\ DOMAIN p = 1..n /\ DOMAIN t = 1..(n - 1)
      /\ Head(p) = p[1] /\ p[1] \in S
      /\ \A i \in 1..(n - 1) : t[i] = p[i + 1]
      /\ t = <<>> <=> n = 1
  BY <1>1, TailOf DEF t, n
<1>3. l \in Nat /\ (docs = <<>> <=> l = 0)
  BY <1>1, SequenceLen DEF l
<1>4. l # 0
  BY <1>1, <1>2, <1>3
<1>5. \A i \in DOMAIN t : t[i] = IF (Len(t) - i) % 2 = 0 THEN "apply" ELSE "map"
  <2>1. ASSUME NEW i \in 1..(n - 1) PROVE t[i] = IF (Len(t) - i) % 2 = 0 THEN "apply" ELSE "map"
    <3>1. i + 1 \in DOMAIN p /\ n - (i + 1) = Len(t) - i
      BY <1>2
    <3> QED
      BY <1>1, <1>2, <3>1
  <2> QED
    BY <1>2, <2>1
<1>0. 1 \in DOMAIN p /\ p[1] = IF (n - 1) % 2 = 0 THEN "apply" ELSE "map"
  BY <1>1, <1>2
<1>9. n = 2 * l => (n - 1) % 2 = 1
  BY <1>3
<1>10. n = 2 * l - 1 => (n - 1) % 2 = 0
  BY <1>3
<1>6. CASE Head(p) = "map"
  <2>1. (n - 1) % 2 # 0
    BY <1>0, <1>2, <1>6
  <2>2. n = 2 * l
    BY <1>1, <1>10, <2>1
  <2>3. ASSUME NEW e PROVE MapsAndApplies(t, [docs EXCEPT ![1] = e])
    <3>1. IsSequence([docs EXCEPT ![1] = e]) /\ Len([docs EXCEPT ![1] = e]) = l
      BY <1>1, SequenceExcept DEF l
    <3>2. Len(t) = 2 * l - 1
      BY <1>2, <1>3, <2>2
    <3> QED
      BY <1>2, <1>5, <3>1, <3>2 DEF MapsAndApplies, S
  <2>4. t # <<>>
    BY <1>2, <1>3, <1>4, <2>2
  <2> QED
    BY <1>3, <1>4, <1>6, <2>3, <2>4 DEF t
<1>7. CASE Head(p) = "apply"
  <2>1. (n - 1) % 2 = 0
    BY <1>0, <1>2, <1>7
  <2>2. n = 2 * l - 1
    BY <1>1, <1>9, <2>1
  <2>3. /\ IsSequence(Tail(docs)) /\ Len(Tail(docs)) = l - 1
        /\ Tail(docs) = <<>> <=> l = 1
    BY <1>1, <1>3, <1>4, SequenceTail DEF l
  <2>4. Len(t) = 2 * (l - 1)
    BY <1>2, <1>3, <2>2
  <2>5. MapsAndApplies(t, Tail(docs))
    BY <1>2, <1>5, <2>3, <2>4 DEF MapsAndApplies, S
  <2>6. t = <<>> => l = 1
    BY <1>2, <1>3, <2>2
  <2> QED
    BY <1>3, <1>4, <1>7, <2>3, <2>5, <2>6 DEF t
<1> QED
  BY <1>2, <1>6, <1>7 DEF S

\* The classes of tools have no tool in common, and no call has no tool.
LEMMA Classes ==
  /\ Reading \cap (Additive \cup Replacing \cup Applying) = {}
  /\ Additive \cap (Replacing \cup Applying) = {} /\ Replacing \cap Applying = {}
  /\ "" \notin Reading \cup Additive \cup Replacing \cup Applying \cup Changing
  /\ "resources_list" \in Reading /\ Reading \cap Changing = {}
  /\ "pods_delete" \notin Reading \cup Additive \cup Replacing \cup Applying
  /\ Additive \cup Applying \cup Replacing \subseteq Changing
  BY DEF Reading, Additive, Replacing, Applying, Changing

\* The next step of a call, by the class of its tool.
LEMMA NextStep ==
  ASSUME PlansKept, NEW c \in Calls, call[c].plan # <<>>
  PROVE  /\ Tool(c) \in Reading => Head(call[c].plan) \in ReadSteps
         /\ Tool(c) \in Additive => Head(call[c].plan) \in {"get", "create"}
         /\ Tool(c) \in Replacing => Head(call[c].plan) \in {"map", "get"} \cup Updates
         /\ Tool(c) \in Applying => Head(call[c].plan) \in {"map", "apply"}
<1> DEFINE p == call[c].plan
<1>1. /\ Tool(c) \in Reading => p \in Seq(ReadSteps)
      /\ Tool(c) \in Additive => p \in Seq({"get", "create"})
      /\ Tool(c) \in Replacing => ReadsThenUpdates(p)
      /\ Tool(c) \in Applying => MapsAndApplies(p, call[c].docs)
  BY DEF PlansKept, ReadSteps
<1>2. p # <<>>
  OBVIOUS
<1> HIDE DEF p
<1>3. Tool(c) \in Reading => Head(p) \in ReadSteps
  BY <1>1, <1>2, TailOf
<1>4. Tool(c) \in Additive => Head(p) \in {"get", "create"}
  BY <1>1, <1>2, TailOf
<1>5. Tool(c) \in Replacing => Head(p) \in {"map", "get"} \cup Updates
  BY <1>1, <1>2, ReplacingGoes
<1>6. Tool(c) \in Applying => Head(p) \in {"map", "apply"}
  BY <1>1, <1>2, ApplyingGoes
<1> QED
  BY <1>3, <1>4, <1>5, <1>6 DEF p

LEMMA WorksBy ==
  ASSUME CallsShaped, PlansKept, NEW c \in Calls, Works(c)
  PROVE  /\ Tool(c) \in Reading => UNCHANGED <<objects, changes>>
         /\ Tool(c) \in Additive => Read(c) \/ Create(c)
         /\ Tool(c) \in Replacing => MapKind(c) \/ Read(c) \/ Update(c)
         /\ Tool(c) \in Applying => MapKind(c) \/ Apply(c)
         /\ \/ PlanGoes(c)
            \/ At(c, "remove") /\ call'[c].plan = call[c].plan
<1>1. call[c].plan # <<>>
  BY WorksDoes
<1>2. CASE MapKind(c)
  BY <1>1, <1>2, NextStep, MapKindDoes DEF At, Updates, serverVars
<1>3. CASE Read(c)
  BY <1>1, <1>3, NextStep, ReadDoes DEF At, Updates, serverVars
<1>4. CASE Apply(c)
  BY <1>1, <1>4, NextStep, ApplyDoes DEF At, Updates, ReadSteps
<1>5. CASE Update(c)
  BY <1>1, <1>5, NextStep, UpdateDoes DEF At, Updates, ReadSteps
<1>6. CASE Review(c) \/ List(c) \/ Discover(c) \/ Stream(c) \/ Search(c)
  BY <1>1, <1>6, NextStep, OtherReadsDo DEF At, Updates, serverVars
<1>7. CASE Delete(c) \/ ListManaged(c) \/ RemoveManaged(c) \/ Create(c)
  <2>1. PICK step \in {"delete", "services", "routes", "remove", "create"} : At(c, step)
    BY <1>7, OtherChangesDo
  <2>2. PlanGoes(c) \/ (At(c, "remove") /\ call'[c].plan = call[c].plan)
    BY <1>7, OtherChangesDo
  <2>3. Create(c) \/ step # "create"
    BY <1>7, <2>1 DEF At, Delete, ListManaged, RemoveManaged
  <2> QED
    BY <1>1, <2>1, <2>2, <2>3, NextStep DEF At, Updates, ReadSteps
<1> QED
  BY <1>2, <1>3, <1>4, <1>5, <1>6, <1>7 DEF Works

PlanKept(tool, p, docs, answer) ==
  /\ tool \in Reading => p \in Seq(ReadSteps)
  /\ tool \in Additive => p \in Seq({"get", "create"})
  /\ tool \in Replacing => ReadsThenUpdates(p)
  /\ tool \in Applying =>
       /\ MapsAndApplies(p, docs)
       /\ IF p # <<>> THEN answer = "ok" ELSE answer = "ok" => docs = <<>>

LEMMA PlanKeptIs ==
  /\ PlansKept <=> \A c \in Calls :
       PlanKept(call[c].request.tool, call[c].plan, call[c].docs, call[c].answer)
  /\ PlansKept' <=> \A c \in Calls :
       PlanKept(call'[c].request.tool, call'[c].plan, call'[c].docs, call'[c].answer)
  BY DEF PlansKept, PlanKept, ReadSteps, Tool

\* A plan with nothing left to do.
LEMMA PlanOver ==
  ASSUME NEW tool, NEW docs, NEW answer,
         tool \in Applying => IsSequence(docs) /\ (answer = "ok" => docs = <<>>)
  PROVE  PlanKept(tool, <<>>, docs, answer)
<1>1. \A S : <<>> \in Seq(S)
  OBVIOUS
<1>2. Len(<<>>) = 0 /\ DOMAIN <<>> = {}
  OBVIOUS
<1>3. ReadsThenUpdates(<<>>)
  BY <1>1, <1>2 DEF ReadsThenUpdates
<1>4. tool \in Applying => MapsAndApplies(<<>>, docs)
  BY <1>1, <1>2 DEF MapsAndApplies
<1> QED
  BY <1>1, <1>3, <1>4 DEF PlanKept

LEMMA PlansBegin ==
  ASSUME CallsShaped, NEW c \in Calls, Begin(c)
  PROVE  PlanKept(call'[c].request.tool, call'[c].plan, call'[c].docs, call'[c].answer)
<1>1. PICK r \in Requests, routes \in BOOLEAN : Begins(c, r, routes)
  BY BeginDoes
<1> DEFINE docs == Documents(r, routes)
<1>2. call'[c].request = r /\ call'[c].docs = docs
  BY <1>1 DEF Begins
<1>3. r.tool \in Applying => IsSequence(docs)
  BY ApplyingDocuments
<1> HIDE DEF docs
<1>4. CASE call'[c].plan = <<>> /\ call'[c].answer = "invalid"
  BY <1>2, <1>3, <1>4, PlanOver
<1>5. CASE call'[c].plan = Plan(r, docs) /\ Plan(r, docs) # Invalid /\ call'[c].answer = "ok"
  BY <1>2, <1>3, <1>5, ReadingPlans, AdditivePlans, ReplacingPlans, ApplyingPlans DEF PlanKept
<1> QED
  BY <1>1, <1>4, <1>5 DEF Begins, docs

LEMMA PlansHold ==
  ASSUME CallsShaped, PlansKept, [Next]_vars
  PROVE  PlansKept'
<1>1. PICK by \in Calls \cup {Elsewhere} :
        Acts(by) /\ (by \in Calls => Begin(by) \/ Works(by))
  BY NextActs
<1>2. ASSUME NEW c \in Calls
      PROVE  PlanKept(call'[c].request.tool, call'[c].plan, call'[c].docs, call'[c].answer)
  <2>1. CASE c # by
    BY <1>1, <2>1, PlanKeptIs DEF Acts
  <2>2. CASE c = by /\ Begin(c)
    BY <2>2, PlansBegin
  <2>3. CASE c = by /\ Works(c)
    <3> DEFINE tool == call[c].request.tool
               p == call[c].plan
               docs == call[c].docs
               q == call'[c].plan
    <3>1. PlanKept(tool, p, docs, call[c].answer) /\ p # <<>> /\ call'[c].request = call[c].request
      BY <2>3, PlanKeptIs, WorksDoes DEF Keeps
    <3>2. CASE tool \in Applying
      <4>1. MapsAndApplies(p, docs) /\ call[c].answer = "ok" /\ IsSequence(docs)
        BY <3>1, <3>2 DEF PlanKept, MapsAndApplies
      <4>2. /\ tool # "resources_list"
            /\ tool \notin Reading /\ tool \notin Additive /\ tool \notin Replacing
        BY <3>2, Classes
      <4>3. MapsAndApplies(q, call'[c].docs)
            /\ IF q # <<>> THEN call'[c].answer = "ok"
               ELSE call'[c].answer = "ok" => call'[c].docs = <<>>
        <5>1. CASE q = <<>> /\ call'[c].docs = docs /\ call'[c].answer # "ok"
          BY <4>1, <5>1, PlanOver, <3>2 DEF PlanKept
        <5>2. CASE MapKind(c)
          <6>1. At(c, "map") /\ Head(p) = "map"
            BY <5>2 DEF MapKind, At
          <6>2. CASE /\ q = Tail(p) /\ call'[c].answer = call[c].answer
                     /\ \E e : call'[c].docs = [docs EXCEPT ![1] = e]
            <7>1. PICK e : call'[c].docs = [docs EXCEPT ![1] = e]
              BY <6>2
            <7> HIDE DEF p, q, docs
            <7>2. Tail(p) # <<>> /\ MapsAndApplies(Tail(p), [docs EXCEPT ![1] = e])
              BY <3>1, <4>1, <6>1, ApplyingGoes
            <7> QED
              BY <4>1, <6>2, <7>1, <7>2
          <6> QED
            BY <4>2, <5>1, <5>2, <6>2, MapKindDoes DEF Tool
        <5>3. CASE Apply(c)
          <6>1. At(c, "apply") /\ Head(p) = "apply"
            BY <5>3 DEF Apply, At
          <6>2. CASE /\ q = Tail(p) /\ call'[c].answer = call[c].answer
                     /\ call'[c].docs = Tail(docs)
            BY <3>1, <4>1, <6>1, <6>2, ApplyingGoes
          <6> QED
            BY <5>1, <5>3, <6>2, ApplyDoes
        <5> QED
          BY <2>3, <3>2, <5>2, <5>3, WorksBy DEF Tool
      <4> QED
        BY <3>1, <4>2, <4>3 DEF PlanKept
    <3>3. CASE tool \notin Applying
      <4>1. CASE q = <<>>
        BY <3>1, <3>3, <4>1, PlanOver
      <4>2. CASE q = p
        BY <3>1, <3>3, <4>2 DEF PlanKept
      <4>3. CASE q = Tail(p)
        BY <3>1, <3>3, <4>3, TailOf, ReplacingGoes DEF PlanKept
      <4>4. CASE q = <<"list">> /\ tool = "resources_list"
        BY <3>1, <4>4, Classes, Tuples DEF PlanKept, ReadSteps
      <4>5. CASE tool = "pods_delete"
        BY <3>1, <4>5, Classes DEF PlanKept
      <4> QED
        BY <2>3, <4>1, <4>2, <4>3, <4>4, <4>5, WorksBy DEF PlanGoes, Tool
    <3> QED
      BY <3>2, <3>3
  <2> QED
    BY <1>1, <2>1, <2>2, <2>3
<1> QED
  BY <1>2, PlanKeptIs

----
(* Updates *)

\* The object a call is about, under its key, is as it was told in the log.
LEMMA ReadKept ==
  /\ ReadsKept <=> \A c \in Calls :
       Tool(c) \in Replacing /\ call[c].plan # <<>> /\ Head(call[c].plan) \in Updates
         => Told(changes, KeyOf(Head(call[c].docs)), call[c].read)
  /\ ReadsKept' <=> \A c \in Calls :
       call'[c].request.tool \in Replacing /\ call'[c].plan # <<>>
         /\ Head(call'[c].plan) \in Updates
         => Told(changes', KeyOf(Head(call'[c].docs)), call'[c].read)
  BY DEF ReadsKept, Recorded, Told, Tool, Doc, KeyOf, Key

LEMMA ReadsHold ==
  ASSUME CallsShaped, VersionsTell, PlansKept, ReadsKept, [Next]_vars
  PROVE  ReadsKept'
<1>1. PICK by \in Calls \cup {Elsewhere} :
        Acts(by) /\ (by \in Calls => Begin(by) \/ Works(by))
  BY NextActs
<1>2. Logged(by)
  BY <1>1 DEF Acts
<1>3. \A k \in DOMAIN objects' : Told(changes', k, objects'[k])
  BY <1>2, VersionsHold, ToldIs
<1>4. ASSUME NEW c \in Calls, call'[c].request.tool \in Replacing, call'[c].plan # <<>>,
             Head(call'[c].plan) \in Updates
      PROVE  Told(changes', KeyOf(Head(call'[c].docs)), call'[c].read)
  <2>1. CASE c # by
    <3>1. call'[c] = call[c]
      BY <1>1, <2>1 DEF Acts
    <3> DEFINE k == KeyOf(Head(call[c].docs))
               o == call[c].read
    <3>2. Told(changes, k, o)
      BY <1>4, <3>1, ReadKept DEF Tool
    <3> HIDE DEF k, o
    <3>3. Told(changes', k, o)
      BY <1>2, <3>2, ToldStays
    <3> QED
      BY <3>1, <3>3 DEF k, o
  <2>2. CASE c = by /\ Begin(c)
    <3>1. PICK r \in Requests, routes \in BOOLEAN : Begins(c, r, routes)
      BY <2>2, BeginDoes
    <3>2. call'[c].plan = Plan(r, Documents(r, routes)) /\ r.tool \in Replacing
          /\ Plan(r, Documents(r, routes)) # Invalid
      BY <1>4, <3>1 DEF Begins
    <3>3. Head(call'[c].plan) \in {"map", "get"}
      BY <3>2, ReplacingPlans
    <3> QED
      BY <1>4, <3>3 DEF Updates
  <2>3. CASE c = by /\ Works(c)
    <3>1. Tool(c) \in Replacing /\ Keeps(c) /\ call[c].plan # <<>>
      BY <1>4, <2>3, WorksDoes DEF Keeps, Tool
    <3>2. CASE MapKind(c)
      <4>1. Tool(c) # "resources_list"
        BY <3>1, Classes
      <4>2. call'[c].plan = Tail(call[c].plan) /\ Head(call[c].plan) = "map"
        BY <1>4, <3>2, <4>1, MapKindDoes DEF At
      <4>3. ReadsThenUpdates(call[c].plan)
        BY <3>1 DEF PlansKept
      <4>4. Head(call'[c].plan) = "get"
        BY <3>1, <4>2, <4>3, ReplacingGoes
      <4> QED
        BY <1>4, <4>4 DEF Updates
    <3>3. CASE Read(c)
      <4>1. /\ UNCHANGED serverVars /\ call'[c].docs = call[c].docs
            /\ KeyOf(Doc(c)) \in DOMAIN objects /\ call'[c].read = objects[KeyOf(Doc(c))]
        BY <1>4, <3>3, ReadDoes
      <4> DEFINE k == KeyOf(Head(call[c].docs))
      <4>2. /\ objects' = objects /\ call'[c].docs = call[c].docs
            /\ k \in DOMAIN objects /\ call'[c].read = objects[k]
        BY <4>1 DEF serverVars, Doc
      <4> HIDE DEF k
      <4>3. Told(changes', k, call'[c].read)
        BY <1>3, <4>2
      <4> QED
        BY <4>2, <4>3 DEF k
    <3>4. CASE Update(c)
      <4> DEFINE k == KeyOf(Head(call[c].docs))
      <4>1. /\ call'[c].docs = call[c].docs /\ k \in DOMAIN objects
            /\ call'[c].read = objects'[k]
            /\ \E content : Put(c, k, content)
        BY <1>4, <3>4, UpdateDoes DEF Doc
      <4> HIDE DEF k
      <4>2. k \in DOMAIN objects'
        BY <4>1, PutDoes
      <4>3. Told(changes', k, call'[c].read)
        BY <1>3, <4>1, <4>2
      <4> QED
        BY <4>1, <4>3 DEF k
    <3> QED
      BY <2>3, <3>1, <3>2, <3>3, <3>4, WorksBy
  <2> QED
    BY <1>1, <2>1, <2>2, <2>3
<1> QED
  BY <1>4, ReadKept

\* What an update replaces is what its call has read.
LEMMA SeenReplaced ==
  ASSUME CallsShaped, VersionsTell, PlansKept, ReadsKept, [Next]_vars,
         NEW c \in Calls, Tool(c) \in Replacing,
         changes' # changes, changes'[Len(changes')].by = c
  PROVE  changes'[Len(changes')].was = call[c].read
<1>1. PICK by \in Calls \cup {Elsewhere} :
        Acts(by) /\ (by \in Calls => Begin(by) \/ Works(by))
  BY NextActs
<1>2. ASSUME NEW k, NEW o, Writes(by, k, o)
      PROVE  /\ changes'[Len(changes')].by = by
             /\ changes'[Len(changes')].was = Under(objects, k)
  <2>1. IsSequence(changes)
    BY DEF CallsShaped
  <2>2. changes' = Append(changes, Change(by, k, Under(objects, k), o))
    BY <1>2 DEF Writes
  <2>3. changes'[Len(changes')] = Change(by, k, Under(objects, k), o)
    BY <2>1, <2>2, SequenceAppend
  <2> QED
    BY <2>3 DEF Change
<1>3. by = c
  BY <1>1, <1>2 DEF Acts, Logged
<1>4. Works(c)
  BY <1>1, <1>3, BeginDoes DEF serverVars
<1>5. Update(c)
  BY <1>4, WorksBy, MapKindDoes, ReadDoes DEF serverVars
<1> DEFINE k == KeyOf(Head(call[c].docs))
           read == call[c].read
<1>6. /\ k \in DOMAIN objects /\ objects[k].version = read.version
      /\ \E content : Put(c, k, content)
      /\ call[c].plan # <<>> /\ Head(call[c].plan) \in Updates
  BY <1>5, UpdateDoes DEF Doc, At
<1>7. Told(changes, k, read)
  BY <1>6, ReadKept
<1>8. Told(changes, k, objects[k])
  BY <1>6, ToldIs
<1> HIDE DEF k, read
<1>9. objects[k] = read
  <2>1. DOMAIN changes = 1..Len(changes) /\ Len(changes) \in Nat
    BY SequenceLen DEF CallsShaped
  <2>2. read.version = 1 => read.version - 1 \notin DOMAIN changes
    BY <2>1
  <2> QED
    BY <1>6, <1>7, <1>8, <2>2 DEF Told
<1>10. \E o : Writes(c, k, o)
  BY <1>6, PutDoes
<1>11. changes'[Len(changes')].was = Under(objects, k)
  BY <1>2, <1>3, <1>10
<1> QED
  BY <1>6, <1>9, <1>11 DEF Under, read

----
(* Manifests *)

\* GotTo, of a log and of what there is after all of it.
Stored(log, store, d, began, until) ==
  \E n \in began..until : After(log, n, Home(d), Under(store, Home(d))) = d.content

Gone(c, log, store, full, docs, began, until) ==
  LET passed == Len(full) - Len(docs)
  IN /\ passed \in Nat
     /\ \A j \in DOMAIN docs : docs[j] \in Placed(full[passed + j])
     /\ \A i \in 1..passed :
          full[i].kind \in ClusterKinds \/ Stored(log, store, full[i], began, until)
     /\ \A i \in DOMAIN log : log[i].by = c =>
          \E j \in 1..passed : /\ log[i].key \in {KeyOf(full[j]), Home(full[j])}
                               /\ Content(log[i].now) = full[j].content

\* What other steps change in between, and what there was, is not told anew.
LEMMA AfterStays ==
  ASSUME CallsShaped, NEW by, Logged(by), NEW k, NEW n \in 0..Len(changes)
  PROVE  After(changes', n, k, Under(objects', k)) = After(changes, n, k, Under(objects, k))
<1>1. CASE UNCHANGED <<objects, changes>>
  BY <1>1
<1>2. ASSUME NEW q, NEW o, Writes(by, q, o)
      PROVE  After(changes', n, k, Under(objects', k)) = After(changes, n, k, Under(objects, k))
  <2> DEFINE e == Change(by, q, Under(objects, q), o)
             was == Under(objects, k)
             is == Under(objects', k)
  <2>1. IsSequence(changes) /\ changes' = Append(changes, e)
    BY <1>2 DEF Writes, CallsShaped
  <2>2. e.key = q /\ e.was = Under(objects, q)
    BY DEF Change
  <2>3. (e.key # k /\ is = was) \/ (e.key = k /\ e.was = was)
    <3>1. \A x : x # q => Under(objects', x) = Under(objects, x)
      BY <1>2 DEF Writes
    <3>2. q # k => is = was
      BY <3>1
    <3>3. q = k => e.was = was
      BY <2>2
    <3> HIDE DEF e, was, is
    <3> QED
      BY <2>2, <3>2, <3>3
  <2> HIDE DEF e, was, is
  <2>4. After(Append(changes, e), n, k, is) = After(changes, n, k, was)
    BY <2>1, <2>3, AfterAppend
  <2> QED
    BY <2>1, <2>4 DEF was, is
<1> QED
  BY <1>1, <1>2 DEF Logged

LEMMA StoredStays ==
  ASSUME CallsShaped, NEW by, Logged(by), NEW d, NEW began \in Nat, NEW until \in 0..Len(changes),
         NEW later \in Nat, until <= later, Stored(changes, objects, d, began, until)
  PROVE  Stored(changes', objects', d, began, later)
<1> DEFINE k == Home(d)
<1>1. PICK n \in began..until : After(changes, n, k, Under(objects, k)) = d.content
  BY DEF Stored
<1> HIDE DEF k
<1>2. Len(changes) \in Nat
  BY SequenceLen DEF CallsShaped
<1>3. n \in 0..Len(changes) /\ n \in began..later
  BY <1>2
<1>4. After(changes', n, k, Under(objects', k)) = d.content
  BY <1>1, <1>3, AfterStays
<1> QED
  BY <1>3, <1>4 DEF Stored, k

\* A step of others takes nothing from what a manifest has got to.
LEMMA GoneStays ==
  ASSUME CallsShaped, NEW c \in Calls, NEW by, Logged(by),
         by # c \/ UNCHANGED <<objects, changes>>,
         NEW full, NEW docs, NEW began \in Nat, NEW until \in 0..Len(changes),
         NEW later \in Nat, until <= later,
         Gone(c, changes, objects, full, docs, began, until)
  PROVE  Gone(c, changes', objects', full, docs, began, later)
<1> DEFINE passed == Len(full) - Len(docs)
<1>1. \A i \in DOMAIN changes' : changes'[i].by = c =>
        i \in DOMAIN changes /\ changes'[i] = changes[i]
  BY LogGrows
<1>2. /\ passed \in Nat
      /\ \A j \in DOMAIN docs : docs[j] \in Placed(full[passed + j])
      /\ \A i \in 1..passed :
           full[i].kind \in ClusterKinds \/ Stored(changes, objects, full[i], began, until)
      /\ \A i \in DOMAIN changes : changes[i].by = c =>
          \E j \in 1..passed : /\ changes[i].key \in {KeyOf(full[j]), Home(full[j])}
                               /\ Content(changes[i].now) = full[j].content
  BY DEF Gone
<1> HIDE DEF passed
<1>3. \A i \in 1..passed :
        full[i].kind \in ClusterKinds \/ Stored(changes', objects', full[i], began, later)
  BY <1>2, StoredStays
<1>4. \A i \in DOMAIN changes' : changes'[i].by = c =>
          \E j \in 1..passed : /\ changes'[i].key \in {KeyOf(full[j]), Home(full[j])}
                               /\ Content(changes'[i].now) = full[j].content
  BY <1>1, <1>2
<1> QED
  BY <1>2, <1>3, <1>4 DEF Gone, passed

\* The namespace a document is looked for in is one it may be placed in.
LEMMA PlacedAgain ==
  ASSUME NEW f, IsDocument(f), NEW d \in Placed(f),
         NEW ns \in {d.ns, NamespaceOrDefault(d.ns)}
  PROVE  [d EXCEPT !.ns = ns] \in Placed(f)
<1> DEFINE At2(n) == [f EXCEPT !.ns = n]
<1>1. DOMAIN f = {"kind", "ns", "name", "content"}
  BY DEF IsDocument
<1>2. f = At2(f.ns) /\ \A n : At2(n).ns = n /\ \A m : [At2(n) EXCEPT !.ns = m] = At2(m)
  <2>1. f = [x \in {"kind", "ns", "name", "content"} |-> f[x]]
    BY <1>1, Zenon DEF IsDocument
  <2>3. At2(f.ns) = [x \in {"kind", "ns", "name", "content"} |-> f[x]]
    BY <1>1
  <2>2. ASSUME NEW n, NEW m PROVE At2(n).ns = n /\ [At2(n) EXCEPT !.ns = m] = At2(m)
    BY <1>1
  <2> QED
    BY <2>1, <2>2, <2>3
<1>3. d = At2(f.ns) \/ d = At2(NamespaceOrDefault(f.ns))
  BY <1>2 DEF Placed
<1>4. Placed(f) = {At2(f.ns), At2(NamespaceOrDefault(f.ns))}
  BY <1>2 DEF Placed
<1> HIDE DEF At2
<1>5. NamespaceOrDefault(NamespaceOrDefault(f.ns)) = NamespaceOrDefault(f.ns)
  BY DEF NamespaceOrDefault
<1> QED
  BY <1>2, <1>3, <1>4, <1>5

LEMMA GoneMaps ==
  ASSUME NEW c, NEW log, NEW store, NEW full, NEW docs, NEW began, NEW until,
         \A i \in DOMAIN full : IsDocument(full[i]), IsSequence(full), IsSequence(docs),
         docs # <<>>, NEW ns \in {docs[1].ns, NamespaceOrDefault(docs[1].ns)},
         Gone(c, log, store, full, docs, began, until)
  PROVE  Gone(c, log, store, full, [docs EXCEPT ![1] = [docs[1] EXCEPT !.ns = ns]], began, until)
<1> DEFINE passed == Len(full) - Len(docs)
           e == [docs[1] EXCEPT !.ns = ns]
           new == [docs EXCEPT ![1] = e]
<1>1. /\ Len(docs) \in Nat \ {0} /\ DOMAIN docs = 1..Len(docs)
      /\ Len(full) \in Nat /\ DOMAIN full = 1..Len(full)
  BY SequenceLen
<1>2. passed \in Nat /\ \A j \in DOMAIN docs : docs[j] \in Placed(full[passed + j])
  BY DEF Gone
<1>3. passed + 1 \in DOMAIN full /\ 1 \in DOMAIN docs
  BY <1>1, <1>2
<1>4. e \in Placed(full[passed + 1])
  BY <1>2, <1>3, PlacedAgain
<1> HIDE DEF e
<1>5. Len(new) = Len(docs) /\ new[1] = e /\ \A j \in 2..Len(docs) : new[j] = docs[j]
  BY SequenceExcept
<1>6. DOMAIN new = DOMAIN docs
  OBVIOUS
<1> HIDE DEF new
<1>7. \A j \in DOMAIN new : new[j] \in Placed(full[passed + j])
  BY <1>1, <1>2, <1>4, <1>5, <1>6
<1>8. Gone(c, log, store, full, new, began, until)
  BY <1>5, <1>7 DEF Gone
<1> QED
  BY <1>8 DEF new, e

\* A document that is stored, where requests may reach it, is at home.
LEMMA AtHome ==
  ASSUME NEW f, IsDocument(f), NEW d \in Placed(f)
  PROVE  /\ d.kind = f.kind /\ d.content = f.content /\ f.content = Content(f.content)
         /\ KeyOf(d) \in {KeyOf(f), Home(f)}
         /\ OnPath(KeyOf(d)) /\ f.kind \notin ClusterKinds => KeyOf(d) = Home(f)
<1>1. DOMAIN f = {"kind", "ns", "name", "content"} /\ f.content = Content(f.content)
  BY DEF IsDocument
<1> DEFINE g == [f EXCEPT !.ns = NamespaceOrDefault(f.ns)]
<1>2. /\ g.kind = f.kind /\ g.name = f.name /\ g.content = f.content
      /\ g.ns = NamespaceOrDefault(f.ns)
  BY <1>1
<1>3. Home(f) = KeyOf(g) /\ (d = f \/ d = g)
  BY DEF Home, Placed
<1> HIDE DEF g
<1>4. KeyOf(d).ns = d.ns /\ KeyOf(d).kind = d.kind
  BY DEF KeyOf, Key
<1>5. CASE d = g
  BY <1>1, <1>2, <1>3, <1>5
<1>6. CASE d = f
  <2>1. KeyOf(f) = Key(f.kind, f.ns, f.name) /\ KeyOf(g) = Key(f.kind, g.ns, f.name)
    BY <1>2 DEF KeyOf
  <2>2. f.ns # "" => g.ns = f.ns
    BY <1>2 DEF NamespaceOrDefault
  <2>3. OnPath(KeyOf(d)) /\ f.kind \notin ClusterKinds => f.ns # ""
    BY <1>4, <1>6 DEF OnPath
  <2> QED
    BY <1>1, <1>3, <1>6, <2>1, <2>2, <2>3
<1> QED
  BY <1>3, <1>5, <1>6

LEMMA GoneApplies ==
  ASSUME CallsShaped, NEW c \in Calls, NEW full, NEW docs,
         \A i \in DOMAIN full : IsDocument(full[i]), IsSequence(full), IsSequence(docs),
         docs # <<>>, NEW began \in 0..Len(changes),
         Gone(c, changes, objects, full, docs, began, Len(changes)),
         NEW k, k = KeyOf(docs[1]), OnPath(k), Put(c, k, docs[1].content)
  PROVE  Gone(c, changes', objects', full, Tail(docs), began, Len(changes'))
<1> DEFINE passed == Len(full) - Len(docs)
           f == full[passed + 1]
           new == Tail(docs)
<1>1. /\ Len(docs) \in Nat \ {0} /\ DOMAIN docs = 1..Len(docs)
      /\ Len(full) \in Nat /\ DOMAIN full = 1..Len(full)
      /\ IsSequence(new) /\ Len(new) = Len(docs) - 1
      /\ \A j \in 1..(Len(docs) - 1) : new[j] = docs[j + 1]
  BY SequenceLen, SequenceTail
<1>2. DOMAIN new = 1..(Len(docs) - 1)
  BY <1>1, SequenceLen
<1>3. /\ passed \in Nat
      /\ \A j \in DOMAIN docs : docs[j] \in Placed(full[passed + j])
      /\ \A i \in 1..passed :
           full[i].kind \in ClusterKinds \/ Stored(changes, objects, full[i], began, Len(changes))
      /\ \A i \in DOMAIN changes : changes[i].by = c =>
          \E j \in 1..passed : /\ changes[i].key \in {KeyOf(full[j]), Home(full[j])}
                               /\ Content(changes[i].now) = full[j].content
  BY DEF Gone
<1>4. Len(full) - Len(new) = passed + 1
  BY <1>1
<1> HIDE DEF new
<1>5. Logged(c) /\ began \in Nat /\ Len(changes) \in Nat /\ Len(changes') \in Nat
      /\ Len(changes) <= Len(changes')
  BY PutLogs, LogGrows
<1>6. f \in {full[i] : i \in DOMAIN full} /\ docs[1] \in Placed(f) /\ IsDocument(f)
  BY <1>1, <1>3
<1> HIDE DEF passed, f
<1>7. /\ docs[1].kind = f.kind /\ docs[1].content = f.content /\ f.content = Content(f.content)
      /\ k \in {KeyOf(f), Home(f)}
      /\ f.kind \notin ClusterKinds => k = Home(f)
  BY <1>6, AtHome
<1>8. \A j \in DOMAIN new : new[j] \in Placed(full[passed + 1 + j])
  <2>1. ASSUME NEW j \in 1..(Len(docs) - 1) PROVE new[j] \in Placed(full[passed + 1 + j])
    <3>1. j + 1 \in DOMAIN docs /\ passed + (j + 1) = passed + 1 + j /\ new[j] = docs[j + 1]
      BY <1>1, <1>3
    <3> QED
      BY <1>3, <3>1
  <2> QED
    BY <1>2, <2>1
<1>9. Content(Under(objects', k)) = f.content
  <2>1. CASE /\ UNCHANGED <<objects, changes>>
             /\ k \in DOMAIN objects /\ Content(objects[k]) = docs[1].content
    BY <1>7, <2>1 DEF Under
  <2>2. CASE Writes(c, k, Versioned(docs[1].content, Len(changes) + 2))
    <3>1. Under(objects', k) = Versioned(f.content, Len(changes) + 2)
      BY <1>7, <2>2 DEF Writes
    <3>2. Content(Versioned(f.content, Len(changes) + 2)) = Content(f.content)
      BY DEF Content, Versioned
    <3> QED
      BY <1>7, <3>1, <3>2
  <2> QED
    BY <2>1, <2>2, PutDoes
<1>10. f.kind \in ClusterKinds \/ Stored(changes', objects', f, began, Len(changes'))
  <2>1. IsSequence(changes')
    BY <1>5, LogGrows
  <2>2. After(changes', Len(changes'), k, Under(objects', k)) = f.content
    BY <1>9, <2>1, AfterAll
  <2>3. Len(changes') \in began..Len(changes')
    BY <1>5
  <2> QED
    BY <1>7, <2>2, <2>3 DEF Stored
<1>11. \A i \in 1..passed + 1 :
         full[i].kind \in ClusterKinds \/ Stored(changes', objects', full[i], began, Len(changes'))
  <2>1. \A i \in 1..passed :
          full[i].kind \in ClusterKinds \/ Stored(changes', objects', full[i], began, Len(changes'))
    BY <1>3, <1>5, StoredStays
  <2>2. \A i \in 1..passed + 1 : i \in 1..passed \/ i = passed + 1
    BY <1>3
  <2> QED
    BY <1>10, <2>1, <2>2 DEF f
<1>12. ASSUME NEW i \in DOMAIN changes', changes'[i].by = c
       PROVE  \E j \in 1..passed + 1 : /\ changes'[i].key \in {KeyOf(full[j]), Home(full[j])}
                                       /\ Content(changes'[i].now) = full[j].content
  <2>1. CASE i \in DOMAIN changes
    <3>1. changes'[i] = changes[i]
      BY <1>5, <2>1, LogGrows
    <3>2. PICK j \in 1..passed : /\ changes[i].key \in {KeyOf(full[j]), Home(full[j])}
                                 /\ Content(changes[i].now) = full[j].content
      BY <1>3, <1>12, <2>1, <3>1
    <3>3. j \in 1..passed + 1
      BY <1>3
    <3> QED
      BY <3>1, <3>2, <3>3
  <2>2. CASE i \notin DOMAIN changes
    <3> DEFINE o == Versioned(docs[1].content, Len(changes) + 2)
    <3>1. i = Len(changes) + 1 /\ changes' # changes
      BY <1>5, <2>2, LogGrows
    <3>2. Writes(c, k, o)
      BY <3>1, PutDoes
    <3>3. Content(o) = f.content
      BY <1>7 DEF Content, Versioned
    <3> HIDE DEF o
    <3>4. changes' = Append(changes, Change(c, k, Under(objects, k), o)) /\ IsSequence(changes)
      BY <3>2 DEF Writes, CallsShaped
    <3>5. changes'[i] = Change(c, k, Under(objects, k), o)
      BY <3>1, <3>4, SequenceAppend
    <3>6. changes'[i].key = k /\ changes'[i].now = o
      BY <3>5 DEF Change
    <3>7. passed + 1 \in 1..passed + 1
      BY <1>3
    <3> QED
      BY <1>7, <3>3, <3>6, <3>7 DEF f
  <2> QED
    BY <2>1, <2>2
<1> QED
  BY <1>3, <1>4, <1>8, <1>11, <1>12 DEF Gone, new

\* What holds of a call that stores a manifest.
ManifestKept(c, log, store, now) ==
  now.request.tool \in Applying =>
    IF now.answer = "invalid" THEN (\A i \in DOMAIN log : log[i].by # c) /\ now.plan = <<>>
    ELSE \E routes \in BOOLEAN :
           Gone(c, log, store, Documents(now.request, routes), now.docs, now.began,
                IF now.plan = <<>> THEN now.ended ELSE Len(log))

LEMMA ManifestKeptIs ==
  /\ ManifestsGotTo <=> \A c \in Calls : ManifestKept(c, changes, objects, call[c])
  /\ ManifestsGotTo' <=> \A c \in Calls : ManifestKept(c, changes', objects', call'[c])
<1>1. ASSUME NEW c \in Calls, Tool(c) \in Applying
      PROVE  (IF call[c].answer = "invalid" THEN ChangesBy(c) = {} /\ Over(c)
              ELSE \E routes \in BOOLEAN : GotTo(c, Documents(call[c].request, routes)))
             <=> ManifestKept(c, changes, objects, call[c])
  <2>1. Over(c) <=> call[c].plan = <<>>
    BY <1>1, Classes, NoCallIs DEF Over, Tool
  <2>2. ChangesBy(c) = {} <=> \A i \in DOMAIN changes : changes[i].by # c
    BY DEF ChangesBy
  <2>3. ASSUME NEW full
        PROVE  GotTo(c, full) <=>
                 Gone(c, changes, objects, full, call[c].docs, call[c].began,
                      IF call[c].plan = <<>> THEN call[c].ended ELSE Len(changes))
    BY <2>1, AfterIs DEF GotTo, Gone, Stored, ChangesBy, Until
  <2> QED
    BY <1>1, <2>1, <2>2, <2>3 DEF ManifestKept, Tool
<1>2. ASSUME NEW c \in Calls, Tool(c)' \in Applying
      PROVE  (IF call[c].answer = "invalid" THEN ChangesBy(c) = {} /\ Over(c)
              ELSE \E routes \in BOOLEAN : GotTo(c, Documents(call[c].request, routes)))'
             <=> ManifestKept(c, changes', objects', call'[c])
  <2>1. Over(c)' <=> call'[c].plan = <<>>
    BY <1>2, Classes, NoCallIs DEF Over, Tool
  <2>2. (ChangesBy(c) = {})' <=> \A i \in DOMAIN changes' : changes'[i].by # c
    BY DEF ChangesBy
  <2>3. ASSUME NEW routes
        PROVE  GotTo(c, Documents(call[c].request, routes))' <=>
                 Gone(c, changes', objects', Documents(call'[c].request, routes), call'[c].docs,
                      call'[c].began,
                      IF call'[c].plan = <<>> THEN call'[c].ended ELSE Len(changes'))
    BY <2>1 DEF GotTo, Gone, Stored, ChangesBy, Until, ContentAfter, After, Later, Object, Under
  <2> QED
    BY <1>2, <2>1, <2>2, <2>3 DEF ManifestKept, Tool
<1> QED
  BY <1>1, <1>2 DEF ManifestsGotTo, ManifestKept, Tool

LEMMA ManifestsBegin ==
  ASSUME CallsShaped, HintsOfOne, NEW c \in Calls, Begin(c)
  PROVE  ManifestKept(c, changes', objects', call'[c])
<1>1. PICK r \in Requests, routes \in BOOLEAN : Begins(c, r, routes)
  BY BeginDoes
<1>2. call[c] = NoCall /\ UNCHANGED serverVars
  BY BeginDoes
<1>3. \A i \in DOMAIN changes' : changes'[i].by # c
  BY <1>2, NoCallIs, Classes DEF HintsOfOne, ChangesBy, Tool, serverVars
<1>4. CASE call'[c].answer = "invalid" \/ r.tool \notin Applying
  BY <1>1, <1>3, <1>4 DEF ManifestKept, Begins
<1>5. CASE call'[c].answer = "ok" /\ r.tool \in Applying
  <2> DEFINE full == Documents(r, routes)
             until == IF call'[c].plan = <<>> THEN call'[c].ended ELSE Len(changes')
  <2>1. IsSequence(full)
    BY <1>5, ApplyingDocuments
  <2>2. Len(full) \in Nat
    BY <2>1, SequenceLen
  <2>3. call'[c].docs = full /\ call'[c].request = r
    BY <1>1 DEF Begins
  <2> HIDE DEF full, until
  <2>4. Len(full) - Len(full) = 0
    BY <2>2
  <2>5. \A j \in DOMAIN full : j \in Nat /\ 0 + j = j
    BY <2>1, SequenceLen
  <2>6. \A j \in DOMAIN full : full[j] \in Placed(full[0 + j])
    BY <2>5 DEF Placed
  <2>7. Gone(c, changes', objects', full, full, call'[c].began, until)
    BY <1>3, <2>4, <2>6 DEF Gone
  <2> QED
    BY <1>5, <2>3, <2>7 DEF ManifestKept, full, until
<1> QED
  BY <1>1, <1>4, <1>5 DEF Begins

LEMMA ManifestsGoOn ==
  ASSUME CallsShaped, PlansKept, ManifestsGotTo, NEW c \in Calls, Works(c)
  PROVE  ManifestKept(c, changes', objects', call'[c])
<1>1. /\ call[c].plan # <<>> /\ Keeps(c) /\ Logged(c)
  BY WorksDoes
<1> SUFFICES ASSUME Tool(c) \in Applying
             PROVE  ManifestKept(c, changes', objects', call'[c])
  BY <1>1 DEF ManifestKept, Keeps, Tool
<1> DEFINE r == call[c].request
           docs == call[c].docs
           began == call[c].began
<1>2. /\ call[c].answer = "ok" /\ MapsAndApplies(call[c].plan, docs)
  BY <1>1, PlanKeptIs DEF PlanKept, Tool
<1>3. IsSequence(docs) /\ docs # <<>>
  BY <1>1, <1>2, ApplyingGoes DEF MapsAndApplies
<1>4. r \in Requests /\ began \in 0..Len(changes) /\ Len(changes) \in Nat
  BY <1>1, NoCallIs, LogGrows DEF CallsShaped
<1>5. PICK routes \in BOOLEAN :
        Gone(c, changes, objects, Documents(r, routes), docs, began, Len(changes))
  BY <1>1, <1>2, ManifestKeptIs DEF ManifestKept, Tool
<1> DEFINE full == Documents(r, routes)
<1>6. IsSequence(full) /\ \A i \in DOMAIN full : IsDocument(full[i])
  BY <1>4, ApplyingDocuments DEF Tool
<1>7. /\ call'[c].request = r /\ call'[c].began = began
      /\ (IF call'[c].plan = <<>> THEN call'[c].ended ELSE Len(changes')) = Len(changes')
  BY <1>1 DEF Keeps
<1>8. Head(docs) = docs[1]
  BY <1>3, SequenceTail
<1>9. ASSUME call'[c].answer # "invalid",
             Gone(c, changes', objects', full, call'[c].docs, began, Len(changes'))
      PROVE  ManifestKept(c, changes', objects', call'[c])
  BY <1>7, <1>9 DEF ManifestKept
<1>10. Gone(c, changes, objects, full, docs, began, Len(changes))
  BY <1>5
<1> HIDE DEF full, docs, began, r
<1>11. CASE MapKind(c)
  <2>1. objects' = objects /\ changes' = changes
    BY <1>11, MapKindDoes DEF serverVars
  <2>2. call'[c].answer # "invalid"
    BY <1>2, <1>11, MapKindDoes
  <2>3. CASE call'[c].docs = docs
    BY <1>9, <1>10, <2>1, <2>2, <2>3
  <2>4. ASSUME NEW ns \in {docs[1].ns, NamespaceOrDefault(docs[1].ns)},
               call'[c].docs = [docs EXCEPT ![1] = [docs[1] EXCEPT !.ns = ns]]
        PROVE  ManifestKept(c, changes', objects', call'[c])
    <3>1. Gone(c, changes, objects, full, [docs EXCEPT ![1] = [docs[1] EXCEPT !.ns = ns]],
               began, Len(changes))
      BY <1>3, <1>6, <1>10, GoneMaps
    <3> QED
      BY <1>9, <2>1, <2>2, <2>4, <3>1
  <2> QED
    BY <1>11, <2>3, <2>4, MapKindDoes DEF docs
<1>12. CASE Apply(c)
  <2>1. CASE UNCHANGED <<objects, changes>> /\ call'[c].answer = "error" /\ call'[c].docs = docs
    BY <1>9, <1>10, <2>1
  <2>2. CASE /\ OnPath(KeyOf(Doc(c))) /\ Put(c, KeyOf(Doc(c)), Doc(c).content)
             /\ call'[c].answer = call[c].answer /\ call'[c].docs = Tail(docs)
    <3> DEFINE k == KeyOf(docs[1])
    <3>1. OnPath(k) /\ Put(c, k, docs[1].content)
      BY <1>8, <2>2 DEF Doc, docs
    <3>2. Gone(c, changes', objects', full, Tail(docs), began, Len(changes'))
      <4> HIDE DEF k
      <4>1. k = KeyOf(docs[1])
        BY DEF k
      <4> QED
        BY <1>3, <1>4, <1>6, <1>10, <3>1, <4>1, GoneApplies
    <3> QED
      BY <1>2, <1>9, <2>2, <3>2
  <2> QED
    BY <1>12, <2>1, <2>2, ApplyDoes DEF docs
<1> QED
  BY <1>11, <1>12, WorksBy

LEMMA ManifestsHold ==
  ASSUME CallsShaped, PlansKept, ManifestsGotTo, HintsOfOne, [Next]_vars
  PROVE  ManifestsGotTo'
<1>1. PICK by \in Calls \cup {Elsewhere} :
        Acts(by) /\ (by \in Calls => Begin(by) \/ Works(by))
  BY NextActs
<1>2. ASSUME NEW c \in Calls PROVE ManifestKept(c, changes', objects', call'[c])
  <2>1. CASE c # by
    <3> DEFINE r == call[c].request
               docs == call[c].docs
               began == call[c].began
               until == IF call[c].plan = <<>> THEN call[c].ended ELSE Len(changes)
               later == IF call[c].plan = <<>> THEN call[c].ended ELSE Len(changes')
    <3>1. call'[c] = call[c] /\ Logged(by)
      BY <1>1, <2>1 DEF Acts
    <3>2. /\ began \in Nat /\ until \in 0..Len(changes) /\ later \in Nat /\ until <= later
      BY <3>1, LogGrows DEF CallsShaped
    <3>3. ManifestKept(c, changes, objects, call[c])
      BY ManifestKeptIs
    <3>4. CASE r.tool \notin Applying
      BY <3>1, <3>4 DEF ManifestKept
    <3>5. CASE r.tool \in Applying /\ call[c].answer = "invalid"
      <4>1. \A i \in DOMAIN changes' : changes'[i].by = c => i \in DOMAIN changes
        BY <2>1, <3>1, LogGrows
      <4> QED
        BY <3>1, <3>3, <3>5, <4>1, LogGrows DEF ManifestKept
    <3>6. CASE r.tool \in Applying /\ call[c].answer # "invalid"
      <4>1. PICK routes \in BOOLEAN :
              Gone(c, changes, objects, Documents(r, routes), docs, began, until)
        BY <3>3, <3>6 DEF ManifestKept
      <4> DEFINE full == Documents(r, routes)
      <4>2. Gone(c, changes, objects, full, docs, began, until)
        BY <4>1
      <4> HIDE DEF full, docs, began, until, later
      <4>3. Gone(c, changes', objects', full, docs, began, later)
        BY <2>1, <3>1, <3>2, <4>2, GoneStays
      <4> QED
        BY <3>1, <3>6, <4>3 DEF ManifestKept, full, docs, began, later
    <3> QED
      BY <3>4, <3>5, <3>6
  <2>2. CASE c = by
    BY <1>1, <2>2, ManifestsBegin, ManifestsGoOn
  <2> QED
    BY <2>1, <2>2
<1> QED
  BY <1>2, ManifestKeptIs

----
(* The mapper *)

\* What holds of the mapper for a call.
Defined(now) ==
  \E i \in 1 .. Len(now.request.docs) - Len(now.docs) :
    now.request.docs[i].kind = "CustomResourceDefinition"

FreshFor(now, known, told) ==
  /\ now.kinds \subseteq told
  /\ now.request.tool = "resources_create_or_update" /\ now.answer # "invalid" /\ Defined(now) =>
       /\ known = Unfilled \/ now.kinds \subseteq known
       /\ now.answer = "noMatch" => Head(now.docs).kind \notin now.kinds

LEMMA FreshIs ==
  /\ MapperFresh <=> \A c \in Calls : FreshFor(call[c], mapper, served)
  /\ MapperFresh' <=> \A c \in Calls : FreshFor(call'[c], mapper', served')
  BY DEF MapperFresh, HasDefined, FreshFor, Defined, Tool, Doc

LEMMA FreshBegins ==
  ASSUME CallsShaped, NEW c \in Calls, Begin(c)
  PROVE  FreshFor(call'[c], mapper', served')
<1>1. PICK r \in Requests, routes \in BOOLEAN : Begins(c, r, routes)
  BY BeginDoes
<1>2. call'[c].kinds = served /\ served' = served /\ call'[c].request = r
  BY <1>1, BeginDoes DEF Begins, serverVars
<1>3. CASE r.tool = "resources_create_or_update"
  <2>1. call'[c].docs = r.docs
    BY <1>1, <1>3, ApplyingDocuments DEF Begins, Applying
  <2>2. Len(r.docs) \in Nat
    BY SequenceLen, OperationsAssumption
  <2>3. ~ Defined(call'[c])
    BY <1>2, <2>1, <2>2 DEF Defined
  <2> QED
    BY <1>2, <2>3 DEF FreshFor
<1> QED
  BY <1>2, <1>3 DEF FreshFor

LEMMA FreshGoesOn ==
  ASSUME CallsShaped, PlansKept, ManifestsGotTo, MapperFresh, NEW c \in Calls, Works(c)
  PROVE  FreshFor(call'[c], mapper', served')
<1> DEFINE r == call[c].request
           docs == call[c].docs
           kinds == call[c].kinds
<1>1. /\ call[c].plan # <<>> /\ served' = served /\ call'[c].request = r /\ call'[c].kinds = kinds
  BY WorksDoes DEF Keeps
<1>2. /\ kinds \subseteq served
      /\ r.tool = "resources_create_or_update" /\ call[c].answer # "invalid" /\ Defined(call[c])
           => mapper = Unfilled \/ kinds \subseteq mapper
  BY FreshIs DEF FreshFor
<1> SUFFICES ASSUME r.tool = "resources_create_or_update"
             PROVE  FreshFor(call'[c], mapper', served')
  BY <1>1, <1>2 DEF FreshFor
<1>3. Tool(c) \in Applying
  BY DEF Applying, Tool
<1>4. /\ call[c].answer = "ok" /\ MapsAndApplies(call[c].plan, docs)
  BY <1>1, <1>3, PlanKeptIs DEF PlanKept, Tool
<1>5. IsSequence(docs) /\ docs # <<>>
  BY <1>1, <1>4, ApplyingGoes DEF MapsAndApplies
<1>6. CASE Len(call'[c].docs) = Len(docs) /\ call'[c].answer # "noMatch"
           /\ mapper' \in {mapper, Unfilled, served}
  <2>1. Defined(call'[c]) => Defined(call[c])
    BY <1>1, <1>6 DEF Defined
  <2> QED
    BY <1>1, <1>2, <1>4, <1>6, <2>1 DEF FreshFor
<1>7. CASE MapKind(c)
  <2>1. mapper' \in {mapper, Unfilled, served}
    BY WorksDoes
  <2>2. CASE /\ mapper' = IF mapper = Unfilled THEN served ELSE mapper
             /\ Doc(c).kind \notin mapper' /\ call'[c].docs = docs
    <3>1. Defined(call'[c]) => Defined(call[c])
      BY <1>1, <2>2 DEF Defined
    <3>2. Defined(call'[c]) => kinds \subseteq mapper'
      BY <1>2, <1>4, <2>2, <3>1
    <3>3. Head(call'[c].docs) = Doc(c)
      BY <2>2 DEF Doc
    <3> QED
      BY <1>1, <1>2, <2>2, <3>2, <3>3 DEF FreshFor
  <2>3. ASSUME NEW e, call'[c].docs = [docs EXCEPT ![1] = e] PROVE Len(call'[c].docs) = Len(docs)
    BY <1>5, <2>3, SequenceExcept
  <2>4. \/ call'[c].answer = "error" /\ call'[c].docs = docs
        \/ /\ mapper' = IF mapper = Unfilled THEN served ELSE mapper
           /\ Doc(c).kind \notin mapper' /\ call'[c].docs = docs
        \/ call'[c].answer = "ok" /\ \E e : call'[c].docs = [docs EXCEPT ![1] = e]
    BY <1>4, <1>7, MapKindDoes
  <2> QED
    BY <1>6, <2>1, <2>2, <2>3, <2>4
<1>8. CASE Apply(c)
  <2>1. CASE UNCHANGED mapper /\ call'[c].answer = "error" /\ call'[c].docs = docs
    BY <1>6, <2>1
  <2>2. CASE /\ Doc(c).kind = "CustomResourceDefinition" => mapper' = Unfilled
             /\ mapper' \in {mapper, Unfilled}
             /\ call'[c].answer = call[c].answer /\ call'[c].docs = Tail(docs)
    <3> DEFINE passed == Len(r.docs) - Len(docs)
    <3>1. r \in Requests
      BY <1>1, NoCallIs DEF CallsShaped
    <3>2. /\ IsSequence(r.docs) /\ \A i \in DOMAIN r.docs : IsDocument(r.docs[i])
      BY <3>1, OperationsAssumption
    <3>3. /\ Len(docs) \in Nat \ {0} /\ 1 \in DOMAIN docs
          /\ Len(Tail(docs)) = Len(docs) - 1 /\ Head(docs) = docs[1]
          /\ Len(r.docs) \in Nat /\ DOMAIN r.docs = 1..Len(r.docs)
      BY <1>5, <3>2, SequenceLen, SequenceTail
    <3>4. /\ passed \in Nat /\ docs[1] \in Placed(r.docs[passed + 1])
      <4>1. PICK routes \in BOOLEAN : Gone(c, changes, objects, Documents(r, routes), docs,
                                           call[c].began, Len(changes))
        BY <1>1, <1>3, <1>4, ManifestKeptIs DEF ManifestKept, Tool
      <4>2. Documents(r, routes) = r.docs
        BY <1>3, <3>1, ApplyingDocuments DEF Tool
      <4> QED
        BY <3>3, <4>1, <4>2 DEF Gone
    <3>5. passed + 1 \in DOMAIN r.docs /\ Len(r.docs) - Len(Tail(docs)) = passed + 1
      <4> DEFINE l == Len(docs)
                 m == Len(r.docs)
      <4>1. /\ l \in Nat \ {0} /\ m \in Nat /\ m - l \in Nat
            /\ DOMAIN r.docs = 1..m /\ Len(Tail(docs)) = l - 1
        BY <3>3, <3>4
      <4> HIDE DEF l, m
      <4>2. m - l + 1 \in 1..m /\ m - (l - 1) = m - l + 1
        BY <4>1
      <4> QED
        BY <4>1, <4>2 DEF l, m
    <3>6. docs[1].kind = r.docs[passed + 1].kind
      BY <3>2, <3>4, <3>5, AtHome
    <3>7. Defined(call'[c]) => Defined(call[c]) \/ mapper' = Unfilled
      <4>1. Len(r.docs) - Len(Tail(docs)) = passed + 1
        BY <3>5
      <4>2. ASSUME NEW i \in 1..passed + 1, r.docs[i].kind = "CustomResourceDefinition"
            PROVE  Defined(call[c]) \/ mapper' = Unfilled
        <5>1. CASE i = passed + 1
          BY <2>2, <3>3, <3>6, <4>2, <5>1 DEF Doc
        <5>2. CASE i # passed + 1
          <6>1. i \in 1..passed
            BY <3>4, <5>2
          <6> QED
            BY <4>2, <6>1 DEF Defined
        <5> QED
          BY <5>1, <5>2
      <4> QED
        BY <1>1, <2>2, <4>1, <4>2 DEF Defined
    <3> QED
      BY <1>1, <1>2, <1>4, <2>2, <3>7 DEF FreshFor
  <2> QED
    BY <1>8, <2>1, <2>2, ApplyDoes
<1> QED
  BY <1>3, <1>7, <1>8, WorksBy

LEMMA MapperHolds ==
  ASSUME CallsShaped, PlansKept, ManifestsGotTo, MapperFresh, [Next]_vars
  PROVE  MapperFresh'
<1>1. PICK by \in Calls \cup {Elsewhere} :
        Acts(by) /\ (by \in Calls => Begin(by) \/ Works(by))
  BY NextActs
<1>2. ASSUME NEW c \in Calls PROVE FreshFor(call'[c], mapper', served')
  <2>1. CASE c # by
    <3>1. /\ call'[c] = call[c] /\ served \subseteq served'
          /\ mapper' \in {mapper, Unfilled, served}
      BY <1>1, <2>1 DEF Acts
    <3>2. FreshFor(call[c], mapper, served)
      BY FreshIs
    <3> QED
      BY <3>1, <3>2 DEF FreshFor
  <2>2. CASE c = by
    BY <1>1, <2>2, FreshBegins, FreshGoesOn
  <2> QED
    BY <2>1, <2>2
<1> QED
  BY <1>2, FreshIs

----
(* The annotations *)

HintKept(c, log, tool) ==
  /\ tool \notin Changing => \A i \in DOMAIN log : log[i].by # c
  /\ tool \in Additive => \A i \in DOMAIN log : log[i].by = c => log[i].was = NoObject

LEMMA HintKeptIs ==
  /\ HintsOfOne <=> \A c \in Calls : HintKept(c, changes, call[c].request.tool)
  /\ HintsOfOne' <=> \A c \in Calls : HintKept(c, changes', call'[c].request.tool)
  BY DEF HintsOfOne, HintKept, ChangesBy, OnlyAdds, Tool

LEMMA HintsHeld ==
  ASSUME CallsShaped, PlansKept, HintsOfOne, [Next]_vars
  PROVE  HintsOfOne'
<1>1. PICK by \in Calls \cup {Elsewhere} :
        Acts(by) /\ (by \in Calls => Begin(by) \/ Works(by))
  BY NextActs
<1>2. Logged(by)
  BY <1>1 DEF Acts
<1>3. ASSUME NEW c \in Calls PROVE HintKept(c, changes', call'[c].request.tool)
  <2>1. HintKept(c, changes, Tool(c))
    BY HintKeptIs DEF Tool
  <2>2. CASE c # by
    <3>1. call'[c] = call[c]
      BY <1>1, <2>2 DEF Acts
    <3>2. \A i \in DOMAIN changes' :
            changes'[i].by = c => i \in DOMAIN changes /\ changes'[i] = changes[i]
      BY <1>2, <2>2, LogGrows
    <3> QED
      BY <2>1, <3>1, <3>2 DEF HintKept, Tool
  <2>3. CASE c = by /\ Begin(c)
    <3>1. call[c] = NoCall /\ changes' = changes
      BY <2>3, BeginDoes DEF serverVars
    <3>2. \A i \in DOMAIN changes' : changes'[i].by # c
      BY <2>1, <3>1, NoCallIs, Classes DEF HintKept, Tool
    <3> QED
      BY <3>2 DEF HintKept
  <2>4. CASE c = by /\ Works(c)
    <3>1. /\ call'[c].request = call[c].request
          /\ call[c].request \in Requests
      BY <2>4, WorksDoes, NoCallIs DEF Keeps, CallsShaped
    <3>2. CASE Tool(c) \in Reading
      <4>1. changes' = changes
        BY <2>4, <3>2, WorksBy
      <4> QED
        BY <2>1, <3>1, <4>1 DEF Tool
    <3>3. CASE Tool(c) \in Additive /\ Tool(c) \in Changing
      <4>1. CASE changes' = changes
        BY <2>1, <3>1, <4>1 DEF Tool
      <4>2. ASSUME NEW k, NEW content, k \notin DOMAIN objects, Put(c, k, content)
            PROVE  HintKept(c, changes', Tool(c))
        <5>1. ASSUME NEW o, Writes(c, k, o) PROVE HintKept(c, changes', Tool(c))
          <6>1. /\ IsSequence(changes)
                /\ changes' = Append(changes, Change(c, k, Under(objects, k), o))
            BY <5>1 DEF Writes, CallsShaped
          <6>2. Change(c, k, Under(objects, k), o).was = NoObject
            BY <4>2 DEF Change, Under
          <6>3. \A i \in DOMAIN changes' : \/ i \in DOMAIN changes /\ changes'[i] = changes[i]
                                           \/ changes'[i].was = NoObject
            BY <6>1, <6>2, SequenceAppend, SequenceLen
          <6> QED
            BY <2>1, <3>3, <6>3 DEF HintKept
        <5> QED
          BY <2>1, <4>2, <5>1, PutDoes
      <4>3. CASE Create(c)
        <5>1. At(c, "create")
          BY <4>3 DEF Create
        <5> QED
          BY <3>1, <4>1, <4>2, <4>3, <5>1, OtherChangesDo DEF Tool
      <4>4. CASE Read(c)
        BY <4>1, <4>4, ReadDoes DEF serverVars
      <4> QED
        BY <2>4, <3>3, <4>3, <4>4, WorksBy
    <3>4. CASE Tool(c) \in Changing /\ Tool(c) \notin Additive
      BY <3>1, <3>4 DEF HintKept, Tool
    <3>5. Tool(c) \in Changing \cup Reading
      BY <3>1, OperationsAssumption DEF Tool
    <3> QED
      BY <3>2, <3>3, <3>4, <3>5
  <2> QED
    BY <1>1, <2>2, <2>3, <2>4
<1> QED
  BY <1>3, HintKeptIs

----
(* The deletion of a pod *)

\* What is left of a deletion says what is next, and what is left then.
LEMMA DeletionGoes ==
  ASSUME NEW p \in Deletions
  PROVE  /\ p # <<>> /\ Len(p) \in 1..8 /\ Len(Tail(p)) = Len(p) - 1
         /\ Tail(p) = <<>> \/ Tail(p) \in Deletions
         /\ Head(p) = "map" => Len(p) \in {2, 8}
         /\ Head(p) = "get" => Len(p) = 7
         /\ Head(p) = "services" => Len(p) = 6
         /\ Head(p) = "remove" => Len(p) \in {3, 5}
         /\ Head(p) = "routes" => Len(p) = 4
         /\ Head(p) = "delete" => Len(p) = 1
         /\ Head(p) \in {"map", "get", "services", "remove", "routes", "delete"}
<1>1. CASE p = <<"delete">>
  <2>1. /\ p # <<>> /\ Len(p) = 1 /\ Head(p) = "delete"
        /\ Tail(p) = <<>>
        /\ Len(Tail(p)) = 0
    BY <1>1
  <2> QED
    BY <2>1 DEF Deletions
<1>2. CASE p = <<"map", "delete">>
  <2>1. /\ p # <<>> /\ Len(p) = 2 /\ Head(p) = "map"
        /\ Tail(p) = <<"delete">>
        /\ Len(Tail(p)) = 1
    BY <1>2
  <2> QED
    BY <2>1 DEF Deletions
<1>3. CASE p = <<"remove", "map", "delete">>
  <2>1. /\ p # <<>> /\ Len(p) = 3 /\ Head(p) = "remove"
        /\ Tail(p) = <<"map", "delete">>
        /\ Len(Tail(p)) = 2
    BY <1>3
  <2> QED
    BY <2>1 DEF Deletions
<1>4. CASE p = <<"routes", "remove", "map", "delete">>
  <2>1. /\ p # <<>> /\ Len(p) = 4 /\ Head(p) = "routes"
        /\ Tail(p) = <<"remove", "map", "delete">>
        /\ Len(Tail(p)) = 3
    BY <1>4
  <2> QED
    BY <2>1 DEF Deletions
<1>5. CASE p = <<"remove", "routes", "remove", "map", "delete">>
  <2>1. /\ p # <<>> /\ Len(p) = 5 /\ Head(p) = "remove"
        /\ Tail(p) = <<"routes", "remove", "map", "delete">>
        /\ Len(Tail(p)) = 4
    BY <1>5
  <2> QED
    BY <2>1 DEF Deletions
<1>6. CASE p = <<"services", "remove", "routes", "remove", "map", "delete">>
  <2>1. /\ p # <<>> /\ Len(p) = 6 /\ Head(p) = "services"
        /\ Tail(p) = <<"remove", "routes", "remove", "map", "delete">>
        /\ Len(Tail(p)) = 5
    BY <1>6
  <2> QED
    BY <2>1 DEF Deletions
<1>7. CASE p = <<"get", "services", "remove", "routes", "remove", "map", "delete">>
  <2>1. /\ p # <<>> /\ Len(p) = 7 /\ Head(p) = "get"
        /\ Tail(p) = <<"services", "remove", "routes", "remove", "map", "delete">>
        /\ Len(Tail(p)) = 6
    BY <1>7
  <2> QED
    BY <2>1 DEF Deletions
<1>8. CASE p = <<"map", "get", "services", "remove", "routes", "remove", "map", "delete">>
  <2>1. /\ p # <<>> /\ Len(p) = 8 /\ Head(p) = "map"
        /\ Tail(p) = <<"get", "services", "remove", "routes", "remove", "map", "delete">>
        /\ Len(Tail(p)) = 7
    BY <1>8
  <2> QED
    BY <2>1 DEF Deletions
<1> QED
  BY <1>1, <1>2, <1>3, <1>4, <1>5, <1>6, <1>7, <1>8 DEF Deletions

LEMMA DeletionBegins ==
  ASSUME NEW r \in Requests, NEW docs, r.tool = "pods_delete", Plan(r, docs) # Invalid
  PROVE  Plan(r, docs) \in Deletions /\ Len(Plan(r, docs)) = 8
<1>1. Plan(r, docs) = PodsDelete
  BY DEF Plan, podsDelete, Asked
<1>2. PodsDelete = <<"map", "get", "services", "remove", "routes", "remove", "map", "delete">>
  <2> DEFINE S == {"map", "get", "services", "remove", "routes", "delete"}
             first == <<"map", "get">>
             middle == <<"services", "remove", "routes", "remove">>
             last == <<"map", "delete">>
             six == <<"map", "get", "services", "remove", "routes", "remove">>
             eight == <<"map", "get", "services", "remove", "routes", "remove", "map", "delete">>
  <2>1. /\ first \in Seq(S) /\ Len(first) = 2
        /\ middle \in Seq(S) /\ Len(middle) = 4
    OBVIOUS
  <2>5. last \in Seq(S) /\ Len(last) = 2
    OBVIOUS
  <2>6. six \in Seq(S) /\ Len(six) = 6
    OBVIOUS
  <2>7. eight \in Seq(S) /\ Len(eight) = 8
    OBVIOUS
  <2>2. first \o middle = six
    <3>1. \A i \in 1..6 : (IF i <= 2 THEN first[i] ELSE middle[i - 2]) = six[i]
      OBVIOUS
    <3> HIDE DEF first, middle, six, S
    <3>2. /\ first \o middle \in Seq(S) /\ Len(first \o middle) = 6
          /\ \A i \in 1..6 : (first \o middle)[i] = IF i <= 2 THEN first[i] ELSE middle[i - 2]
      <4>1. /\ first \o middle \in Seq(S) /\ Len(first \o middle) = Len(first) + Len(middle)
            /\ \A i \in 1..(Len(first) + Len(middle)) :
                 (first \o middle)[i] = IF i <= Len(first) THEN first[i] ELSE middle[i - Len(first)]
        BY <2>1, ConcatProperties
      <4>2. Len(first) = 2 /\ Len(first) + Len(middle) = 6
        BY <2>1
      <4> QED
        BY <4>1, <4>2
    <3> QED
      BY <2>6, <3>1, <3>2, SeqEqual
  <2>3. six \o last = eight
    <3>1. \A i \in 1..8 : (IF i <= 6 THEN six[i] ELSE last[i - 6]) = eight[i]
      OBVIOUS
    <3> HIDE DEF six, last, eight, S
    <3>2. /\ six \o last \in Seq(S) /\ Len(six \o last) = 8
          /\ \A i \in 1..8 : (six \o last)[i] = IF i <= 6 THEN six[i] ELSE last[i - 6]
      <4>1. /\ six \o last \in Seq(S) /\ Len(six \o last) = Len(six) + Len(last)
            /\ \A i \in 1..(Len(six) + Len(last)) :
                 (six \o last)[i] = IF i <= Len(six) THEN six[i] ELSE last[i - Len(six)]
        BY <2>5, <2>6, ConcatProperties
      <4>2. Len(six) = 6 /\ Len(six) + Len(last) = 8
        BY <2>5, <2>6
      <4> QED
        BY <4>1, <4>2
    <3>3. \A i \in 1..8 : (six \o last)[i] = eight[i]
      BY <3>1, <3>2
    <3>4. Len(six \o last) = Len(eight) /\ 1..8 = 1..Len(six \o last)
      BY <2>7, <3>2
    <3> QED
      BY <2>7, <3>2, <3>3, <3>4, SeqEqual
  <2>4. PodsDelete = (first \o middle) \o last
    BY DEF PodsDelete, ResourcesGet, ResourcesDelete
  <2> HIDE DEF first, middle, last, six
  <2> QED
    BY <2>2, <2>3, <2>4
<1> QED
  BY <1>1, <1>2 DEF Deletions

LEMMA DeletionOfUnmanaged == ResourcesDelete \in Deletions /\ Len(ResourcesDelete) = 2
  BY DEF ResourcesDelete, Deletions

\* What is no label of an object.
NoLabel == ""

\* What a deletion keeps, of a log, of what there is after it and of a call.
Went(k, log, store, d, began) ==
  LET label == After(log, began, KeyOf(d), Under(store, KeyOf(d))).label
  IN /\ k.kind \in Exposing /\ k.ns = d.ns
     /\ label # NoLabel /\ After(log, began, k, Under(store, k)).label = label

Purged(log, store, d, began) ==
  \A i \in DOMAIN log : i > began =>
    log[i].key \notin DOMAIN store /\ (log[i].key = KeyOf(d) \/ Went(log[i].key, log, store, d, began))

Held(log, store, d, began, read, found, left) ==
  /\ Purged(log, store, d, began)
  /\ left \in 3..6 =>
       /\ read.label # NoLabel
       /\ read.label = After(log, began, KeyOf(d), Under(store, KeyOf(d))).label
  /\ left \in {3, 5} => \A k \in found : Went(k, log, store, d, began)
  /\ left = 4 => found = {}
  /\ \A k \in DOMAIN store : Went(k, log, store, d, began) =>
       left >= 6 \/ (left \in {4, 5} /\ k.kind = "Route") \/ (left \in {3, 5} /\ k \in found)
  /\ left = 0 => KeyOf(d) \notin DOMAIN store

LEMMA HeldIs ==
  ASSUME NEW c \in Calls
  PROVE  /\ \A k : Exposes(k, c) <=> Went(k, changes, objects, Doc(c), call[c].began)
         /\ \A left : DeletionHolds(c, left) <=>
              Held(changes, objects, Doc(c), call[c].began, call[c].read, call[c].found, left)
<1>1. \A k : Exposes(k, c) <=> Went(k, changes, objects, Doc(c), call[c].began)
  BY AfterIs DEF Exposes, Went, NoLabel
<1>2. \A left : DeletionHolds(c, left) <=>
              Held(changes, objects, Doc(c), call[c].began, call[c].read, call[c].found, left)
  BY <1>1, AfterIs DEF DeletionHolds, Held, Purged, Expected, NoLabel
<1> QED
  BY <1>1, <1>2

\* What went with the pod when the call began is that for good.
LEMMA WentStays ==
  ASSUME CallsShaped, NEW by, Logged(by), NEW d, NEW began \in 0..Len(changes)
  PROVE  /\ \A k : Went(k, changes', objects', d, began) <=> Went(k, changes, objects, d, began)
         /\ After(changes', began, KeyOf(d), Under(objects', KeyOf(d)))
              = After(changes, began, KeyOf(d), Under(objects, KeyOf(d)))
  BY AfterStays DEF Went

\* What a deletion has left alone is as it was when the call began.
LEMMA StillThere ==
  ASSUME NEW log, NEW store, NEW d, NEW began, Purged(log, store, d, began),
         NEW k \in DOMAIN store
  PROVE  After(log, began, k, Under(store, k)) = Content(store[k])
<1>1. Later(log, began, k) = {}
  BY DEF Later, Purged
<1> QED
  BY <1>1 DEF After, Under

\* Removing the pod or what went with it is all that a deletion does.
LEMMA DeletionErases ==
  ASSUME CallsShaped, NEW by, NEW k \in DOMAIN objects, Erase(by, k),
         NEW d, NEW began \in 0..Len(changes), Purged(changes, objects, d, began),
         k = KeyOf(d) \/ Went(k, changes, objects, d, began)
  PROVE  Purged(changes', objects', d, began) /\ DOMAIN objects' = DOMAIN objects \ {k}
<1>1. Logged(by)
  BY EraseLogs
<1>2. DOMAIN objects' = DOMAIN objects \ {k}
  BY DEF Erase
<1>3. IsSequence(changes)
  BY DEF CallsShaped
<1> DEFINE e == Change(by, k, objects[k], NoObject)
<1>4. changes' = Append(changes, e) /\ e.key = k
  BY DEF Erase, Change
<1> HIDE DEF e
<1>5. \A i \in DOMAIN changes' : \/ i \in DOMAIN changes /\ changes'[i] = changes[i]
                                 \/ changes'[i].key = k
  BY <1>3, <1>4, SequenceAppend, SequenceLen
<1>6. \A i \in DOMAIN changes' : i > began =>
        /\ changes'[i].key \notin DOMAIN objects'
        /\ \/ changes'[i].key = KeyOf(d)
           \/ Went(changes'[i].key, changes, objects, d, began)
  BY <1>2, <1>5 DEF Purged
<1> QED
  BY <1>1, <1>2, <1>6, WentStays DEF Purged

\* A step of a deletion that gives up, or passes something over.
Misses(c) ==
  /\ UNCHANGED <<objects, changes>> /\ call'[c].docs = call[c].docs
  /\ \/ call'[c].plan = <<>> /\ call'[c].answer # "ok"
     \/ call'[c].plan \in {Tail(call[c].plan), call[c].plan} /\ call'[c].missed

\* A step of a deletion that gets on, with what it has read and found.
Gets(c, plan, read, found) ==
  /\ call'[c].docs = call[c].docs /\ call'[c].plan = plan
  /\ call'[c].read = read /\ call'[c].found = found
  /\ call'[c].answer = call[c].answer /\ call'[c].missed = call[c].missed

\* A deletion gets on, said of the field that changes.
LEMMA GetsOnBy ==
  ASSUME CallsShaped, NEW c \in Calls, NEW plan
  PROVE  /\ Goes(c, call[c], plan) => Gets(c, plan, call[c].read, call[c].found)
         /\ \A read : Goes(c, [call[c] EXCEPT !.read = read], plan)
              => Gets(c, plan, read, call[c].found)
         /\ \A found : Goes(c, [call[c] EXCEPT !.found = found], plan)
              => Gets(c, plan, call[c].read, found)
<1>1. DOMAIN call[c] = DOMAIN NoCall
  BY DEF CallsShaped
<1>2. ASSUME NEW next, NEW read, NEW found, Carries(next, c),
             next.docs = call[c].docs, next.read = read, next.found = found,
             next.answer = call[c].answer, next.missed = call[c].missed,
             Goes(c, next, plan)
      PROVE  Gets(c, plan, read, found)
  BY <1>2, NextDoes DEF Gets
<1>3. Goes(c, call[c], plan) => Gets(c, plan, call[c].read, call[c].found)
  BY <1>1, <1>2 DEF Carries
<1>4. ASSUME NEW read, Goes(c, [call[c] EXCEPT !.read = read], plan)
      PROVE  Gets(c, plan, read, call[c].found)
  <2> DEFINE next == [call[c] EXCEPT !.read = read]
  <2>1. /\ Carries(next, c) /\ next.docs = call[c].docs
        /\ next.read = read /\ next.found = call[c].found
        /\ next.answer = call[c].answer /\ next.missed = call[c].missed
    BY <1>1 DEF NoCall, Carries
  <2>2. Goes(c, next, plan)
    BY <1>4
  <2> HIDE DEF next
  <2> QED
    BY <1>2, <2>1, <2>2
<1>5. ASSUME NEW found, Goes(c, [call[c] EXCEPT !.found = found], plan)
      PROVE  Gets(c, plan, call[c].read, found)
  <2> DEFINE next == [call[c] EXCEPT !.found = found]
  <2>1. /\ Carries(next, c) /\ next.docs = call[c].docs
        /\ next.read = call[c].read /\ next.found = found
        /\ next.answer = call[c].answer /\ next.missed = call[c].missed
    BY <1>1 DEF NoCall, Carries
  <2>2. Goes(c, next, plan)
    BY <1>5
  <2> HIDE DEF next
  <2> QED
    BY <1>2, <2>1, <2>2
<1> QED
  BY <1>3, <1>4, <1>5

LEMMA DeletionMisses ==
  ASSUME CallsShaped, NEW c \in Calls, NEW plan \in {Tail(call[c].plan), call[c].plan},
         UNCHANGED <<objects, changes>>, NEW found,
         \/ Goes(c, [call[c] EXCEPT !.missed = TRUE], plan)
         \/ Goes(c, [call[c] EXCEPT !.found = found, !.missed = TRUE], plan)
  PROVE  Misses(c)
<1>1. DOMAIN call[c] = DOMAIN NoCall
  BY DEF CallsShaped
<1>2. ASSUME NEW next, DOMAIN next = DOMAIN NoCall, next.docs = call[c].docs,
             next.missed, Goes(c, next, plan)
      PROVE  Misses(c)
  BY <1>2, GoesDoes DEF CallsShaped, Misses
<1>3. CASE Goes(c, [call[c] EXCEPT !.missed = TRUE], plan)
  <2> DEFINE next == [call[c] EXCEPT !.missed = TRUE]
  <2>1. DOMAIN next = DOMAIN NoCall /\ next.docs = call[c].docs /\ next.missed
    BY <1>1 DEF NoCall
  <2>2. Goes(c, next, plan)
    BY <1>3
  <2> HIDE DEF next
  <2> QED
    BY <1>2, <2>1, <2>2
<1>4. CASE Goes(c, [call[c] EXCEPT !.found = found, !.missed = TRUE], plan)
  <2> DEFINE next == [call[c] EXCEPT !.found = found, !.missed = TRUE]
  <2>1. DOMAIN next = DOMAIN NoCall /\ next.docs = call[c].docs /\ next.missed
    BY <1>1 DEF NoCall
  <2>2. Goes(c, next, plan)
    BY <1>4
  <2> HIDE DEF next
  <2> QED
    BY <1>2, <2>1, <2>2
<1> QED
  BY <1>3, <1>4

\* The pod is named in its namespace from the start.
LEMMA DeletionDocument ==
  ASSUME NEW r \in Requests, r.tool = "pods_delete", NEW routes
  PROVE  LET docs == Documents(r, routes) IN
         /\ docs = Documents(r, FALSE)
         /\ \A ns \in {docs[1].ns, NamespaceOrDefault(docs[1].ns)} :
              [docs EXCEPT ![1] = [docs[1] EXCEPT !.ns = ns]] = docs
<1> DEFINE d == [r.doc EXCEPT !.ns = NamespaceOrDefault(@)]
<1>1. \A b : Documents(r, b) = <<d>>
  BY DEF Documents, Namespaced
<1>2. r.doc = [kind |-> r.doc.kind, ns |-> r.doc.ns, name |-> r.doc.name,
               content |-> Content(r.doc.content)]
  BY OperationsAssumption DEF IsDocument
<1>3. d = [kind |-> r.doc.kind, ns |-> NamespaceOrDefault(r.doc.ns), name |-> r.doc.name,
           content |-> Content(r.doc.content)]
  BY <1>2
<1> HIDE DEF d
<1>4. NamespaceOrDefault(d.ns) = d.ns
  BY <1>3 DEF NamespaceOrDefault
<1>5. [d EXCEPT !.ns = d.ns] = d
  BY <1>3
<1>6. [<<d>> EXCEPT ![1] = d] = <<d>> /\ <<d>>[1] = d
  OBVIOUS
<1> QED
  BY <1>1, <1>4, <1>5, <1>6

LEMMA DeletionMaps ==
  ASSUME CallsShaped, NEW c \in Calls, MapKind(c), Tool(c) = "pods_delete",
         call[c].request \in Requests, call[c].docs = Documents(call[c].request, FALSE)
  PROVE  /\ UNCHANGED <<objects, changes>>
         /\ \/ Misses(c)
            \/ Gets(c, Tail(call[c].plan), call[c].read, call[c].found)
<1>1. /\ UNCHANGED <<objects, changes>>
      /\ call'[c].read = call[c].read /\ call'[c].found = call[c].found
      /\ call'[c].missed = call[c].missed
      /\ \/ call'[c].plan = <<>> /\ call'[c].answer # "ok" /\ call'[c].docs = call[c].docs
         \/ /\ call'[c].plan = Tail(call[c].plan)
            /\ call'[c].answer = call[c].answer
            /\ \E ns \in {call[c].docs[1].ns, NamespaceOrDefault(call[c].docs[1].ns)} :
                 call'[c].docs = [call[c].docs EXCEPT ![1] = [call[c].docs[1] EXCEPT !.ns = ns]]
  BY MapKindDoes DEF serverVars
<1>2. \A ns \in {call[c].docs[1].ns, NamespaceOrDefault(call[c].docs[1].ns)} :
        [call[c].docs EXCEPT ![1] = [call[c].docs[1] EXCEPT !.ns = ns]] = call[c].docs
  <2>1. call[c].request.tool = "pods_delete"
    BY DEF Tool
  <2> DEFINE docs == Documents(call[c].request, FALSE)
  <2>2. \A ns \in {docs[1].ns, NamespaceOrDefault(docs[1].ns)} :
          [docs EXCEPT ![1] = [docs[1] EXCEPT !.ns = ns]] = docs
    BY <2>1, DeletionDocument
  <2>3. call[c].docs = docs
    OBVIOUS
  <2> HIDE DEF docs
  <2> QED
    BY <2>2, <2>3
<1>3. \/ call'[c].plan = <<>> /\ call'[c].answer # "ok" /\ call'[c].docs = call[c].docs
      \/ /\ call'[c].plan = Tail(call[c].plan)
         /\ call'[c].answer = call[c].answer /\ call'[c].docs = call[c].docs
  BY <1>1, <1>2
<1> QED
  BY <1>1, <1>3 DEF Misses, Gets

LEMMA DeletionReads ==
  ASSUME CallsShaped, NEW c \in Calls, Read(c), Tool(c) = "pods_delete"
  PROVE  /\ UNCHANGED <<objects, changes>>
         /\ \/ Misses(c)
            \/ /\ KeyOf(Doc(c)) \in DOMAIN objects
               /\ LET o == objects[KeyOf(Doc(c))]
                  IN \/ o.label = NoLabel /\ Gets(c, ResourcesDelete, o, call[c].found)
                     \/ o.label # NoLabel /\ Gets(c, Tail(call[c].plan), o, call[c].found)
<1>1. UNCHANGED <<objects, changes>>
  BY DEF Read, serverVars
<1>2. CASE Fails(c)
  BY <1>1, <1>2, FailsDoes DEF Misses
<1>3. CASE KeyOf(Doc(c)) \in DOMAIN objects /\ AfterRead(c, objects[KeyOf(Doc(c))])
  <2> DEFINE o == objects[KeyOf(Doc(c))]
  <2>1. \/ o.label = NoLabel /\ Goes(c, [call[c] EXCEPT !.read = o], ResourcesDelete)
        \/ o.label # NoLabel /\ Goes(c, [call[c] EXCEPT !.read = o], Tail(call[c].plan))
    BY <1>3 DEF AfterRead, IsManaged, NoLabel
  <2> HIDE DEF o
  <2>2. \/ o.label = NoLabel /\ Gets(c, ResourcesDelete, o, call[c].found)
        \/ o.label # NoLabel /\ Gets(c, Tail(call[c].plan), o, call[c].found)
    BY <2>1, GetsOnBy
  <2> QED
    BY <1>1, <1>3, <2>2 DEF o
<1> QED
  BY <1>2, <1>3 DEF Read

LEMMA DeletionLists ==
  ASSUME CallsShaped, NEW c \in Calls, ListManaged(c)
  PROVE  /\ UNCHANGED <<objects, changes>>
         /\ \/ Misses(c)
            \/ /\ At(c, "services")
               /\ Gets(c, Tail(call[c].plan), call[c].read, Managed(c, "Service"))
            \/ /\ At(c, "routes") /\ OpenShift
               /\ Gets(c, Tail(call[c].plan), call[c].read, Managed(c, "Route"))
            \/ /\ At(c, "routes") /\ ~OpenShift
               /\ Gets(c, Tail(call[c].plan), call[c].read, call[c].found)
<1>1. UNCHANGED <<objects, changes>> /\ DOMAIN call[c] = DOMAIN NoCall
  BY DEF ListManaged, serverVars, CallsShaped
<1>2. \A found : /\ [call[c] EXCEPT !.missed = TRUE].plan = call[c].plan
                 /\ [call[c] EXCEPT !.found = found].plan = call[c].plan
  BY <1>1 DEF NoCall
<1>3. \/ Goes(c, [call[c] EXCEPT !.missed = TRUE], Tail(call[c].plan))
      \/ /\ At(c, "services")
         /\ Goes(c, [call[c] EXCEPT !.found = Managed(c, "Service")], Tail(call[c].plan))
      \/ /\ At(c, "routes") /\ OpenShift
         /\ Goes(c, [call[c] EXCEPT !.found = Managed(c, "Route")], Tail(call[c].plan))
      \/ /\ At(c, "routes") /\ ~OpenShift
         /\ Goes(c, call[c], Tail(call[c].plan))
  BY <1>2 DEF ListManaged, GoesOn, At
<1> QED
  BY <1>1, <1>3, DeletionMisses, GetsOnBy

LEMMA DeletionRemoves ==
  ASSUME CallsShaped, NEW c \in Calls, RemoveManaged(c)
  PROVE  \/ Misses(c)
         \/ /\ call[c].found = {} /\ UNCHANGED <<objects, changes>>
            /\ Gets(c, Tail(call[c].plan), call[c].read, {})
         \/ \E k \in call[c].found :
              /\ k \in DOMAIN objects /\ Erase(c, k)
              /\ Gets(c, call[c].plan, call[c].read, call[c].found \ {k})
<1>1. DOMAIN call[c] = DOMAIN NoCall
  BY DEF CallsShaped
<1>2. CASE /\ call[c].found = {} /\ UNCHANGED <<objects, changes>> /\ GoesOn(c, call[c])
  BY <1>2, GetsOnBy DEF GoesOn
<1>3. ASSUME NEW k \in call[c].found,
             k \in DOMAIN objects, Erase(c, k),
             Goes(c, [call[c] EXCEPT !.found = @ \ {k}], call[c].plan)
      PROVE  Gets(c, call[c].plan, call[c].read, call[c].found \ {k})
  <2>1. [call[c] EXCEPT !.found = @ \ {k}] = [call[c] EXCEPT !.found = call[c].found \ {k}]
    BY <1>1 DEF NoCall
  <2> QED
    BY <1>3, <2>1, GetsOnBy
<1>4. ASSUME NEW k \in call[c].found, UNCHANGED <<objects, changes>>,
             Goes(c, [call[c] EXCEPT !.found = @ \ {k}, !.missed = TRUE], call[c].plan)
      PROVE  Misses(c)
  <2>1. [call[c] EXCEPT !.found = @ \ {k}, !.missed = TRUE]
          = [call[c] EXCEPT !.found = call[c].found \ {k}, !.missed = TRUE]
    BY <1>1 DEF NoCall
  <2> QED
    BY <1>4, <2>1, DeletionMisses
<1> QED
  BY <1>2, <1>3, <1>4 DEF RemoveManaged

LEMMA DeletionEnds ==
  ASSUME CallsShaped, NEW c \in Calls, Delete(c)
  PROVE  \/ Misses(c)
         \/ /\ KeyOf(Doc(c)) \in DOMAIN objects /\ Erase(c, KeyOf(Doc(c)))
            /\ Gets(c, Tail(call[c].plan), call[c].read, call[c].found)
<1>1. CASE Fails(c)
  BY <1>1, FailsDoes DEF Misses
<1>2. CASE /\ KeyOf(Doc(c)) \in DOMAIN objects /\ Erase(c, KeyOf(Doc(c)))
           /\ GoesOn(c, call[c])
  BY <1>2, GetsOnBy DEF GoesOn
<1> QED
  BY <1>1, <1>2 DEF Delete

\* What is kept after a step that gets on, by the step.
LEMMA HeldMaps ==
  ASSUME NEW log, NEW store, NEW d, NEW began, NEW read, NEW found, NEW n \in {2, 8},
         Held(log, store, d, began, read, found, n)
  PROVE  Held(log, store, d, began, read, found, n - 1)
  BY DEF Held

LEMMA HeldReads ==
  ASSUME NEW log, NEW store, NEW d, NEW began, NEW read, NEW found,
         Held(log, store, d, began, read, found, 7), KeyOf(d) \in DOMAIN store
  PROVE  LET o == store[KeyOf(d)]
         IN /\ o.label = NoLabel => Held(log, store, d, began, o, found, 2)
            /\ o.label # NoLabel => Held(log, store, d, began, o, found, 6)
<1> DEFINE o == store[KeyOf(d)]
<1>1. Purged(log, store, d, began)
  BY DEF Held
<1>2. After(log, began, KeyOf(d), Under(store, KeyOf(d))).label = o.label
  BY <1>1, StillThere DEF Content
<1> HIDE DEF o
<1>3. ASSUME o.label = NoLabel PROVE Held(log, store, d, began, o, found, 2)
  BY <1>1, <1>2, <1>3 DEF Held, Went
<1>4. ASSUME o.label # NoLabel PROVE Held(log, store, d, began, o, found, 6)
  BY <1>1, <1>2, <1>4 DEF Held
<1> QED
  BY <1>3, <1>4 DEF o

LEMMA HeldLists ==
  ASSUME NEW log, NEW store, NEW d, NEW began, NEW read, NEW found, NEW n \in {4, 6},
         Held(log, store, d, began, read, found, n),
         NEW kind, kind = IF n = 6 THEN "Service" ELSE "Route",
         NEW listed,
         \/ /\ kind \in Exposing
            /\ listed = {k \in DOMAIN store : /\ k.kind = kind /\ k.ns = d.ns
                                              /\ store[k].label = read.label}
         \/ kind \notin Exposing /\ listed = found
  PROVE  Held(log, store, d, began, read, listed, n - 1)
<1> DEFINE label == After(log, began, KeyOf(d), Under(store, KeyOf(d))).label
<1>1. Purged(log, store, d, began) /\ read.label # NoLabel /\ read.label = label
  BY DEF Held
<1>2. \A k \in DOMAIN store : After(log, began, k, Under(store, k)).label = store[k].label
  BY <1>1, StillThere DEF Content
<1>3. \A k : Went(k, log, store, d, began) <=>
        /\ k.kind \in Exposing /\ k.ns = d.ns
        /\ label # NoLabel /\ After(log, began, k, Under(store, k)).label = label
  BY DEF Went
<1> HIDE DEF label
<1>4. \A k \in DOMAIN store : Went(k, log, store, d, began) <=>
        /\ k.kind \in Exposing /\ k.ns = d.ns /\ store[k].label = read.label
  BY <1>1, <1>2, <1>3
<1>5. Exposing \subseteq {"Service", "Route"}
  BY DEF Exposing
<1>6. \A k \in listed : Went(k, log, store, d, began)
  <2>1. CASE kind \in Exposing
    BY <1>4, <2>1
  <2>2. CASE kind \notin Exposing
    <3>1. kind = "Route" /\ n = 4
      BY <2>2 DEF Exposing
    <3>2. listed = {}
      BY <2>2, <3>1 DEF Held
    <3> QED
      BY <3>2
  <2> QED
    BY <2>1, <2>2
<1>7. ASSUME NEW k \in DOMAIN store, Went(k, log, store, d, began)
      PROVE  k \in listed \/ (n = 6 /\ k.kind = "Route")
  <2>1. k.kind \in Exposing /\ k.ns = d.ns /\ store[k].label = read.label
    BY <1>4, <1>7
  <2>2. n = 4 => k.kind = "Route"
    BY <1>7 DEF Held
  <2> QED
    BY <1>5, <2>1, <2>2
<1> QED
  BY <1>1, <1>6, <1>7 DEF Held, label

LEMMA HeldGoesOn ==
  ASSUME NEW log, NEW store, NEW d, NEW began, NEW read, NEW n \in {3, 5},
         Held(log, store, d, began, read, {}, n)
  PROVE  Held(log, store, d, began, read, {}, n - 1)
  BY DEF Held

LEMMA HeldRemoves ==
  ASSUME CallsShaped, NEW by, NEW d, NEW began \in 0..Len(changes), NEW read, NEW found,
         NEW n \in {3, 5}, Held(changes, objects, d, began, read, found, n),
         NEW k \in DOMAIN objects, k \in found, Erase(by, k)
  PROVE  Held(changes', objects', d, began, read, found \ {k}, n)
<1>1. Purged(changes, objects, d, began) /\ Went(k, changes, objects, d, began)
  BY DEF Held
<1>2. Purged(changes', objects', d, began) /\ DOMAIN objects' = DOMAIN objects \ {k}
  BY <1>1, DeletionErases
<1>3. Logged(by)
  BY EraseLogs
<1> QED
  BY <1>2, <1>3, WentStays DEF Held

LEMMA HeldDeletes ==
  ASSUME CallsShaped, NEW by, NEW d, NEW began \in 0..Len(changes), NEW read, NEW found,
         Held(changes, objects, d, began, read, found, 1),
         KeyOf(d) \in DOMAIN objects, Erase(by, KeyOf(d))
  PROVE  Held(changes', objects', d, began, read, found, 0)
<1>1. Purged(changes, objects, d, began)
  BY DEF Held
<1>2. /\ Purged(changes', objects', d, began)
      /\ DOMAIN objects' = DOMAIN objects \ {KeyOf(d)}
  BY <1>1, DeletionErases
<1>3. Logged(by)
  BY EraseLogs
<1> QED
  BY <1>2, <1>3, WentStays DEF Held

\* A step of a deletion gives up, or misses something, or gets on as above.
GetsTo(c, plan, read, found) ==
  /\ Gets(c, plan, read, found) /\ plan \in Deletions \cup {<<>>}
  /\ Held(changes, objects, Doc(c), call[c].began, call[c].read, call[c].found,
          Len(call[c].plan))
     => Held(changes', objects', Doc(c), call[c].began, read, found, Len(plan))

LEMMA DeletionGetsOn ==
  ASSUME CallsShaped, NEW c \in Calls, Works(c), Tool(c) = "pods_delete",
         call[c].request \in Requests, call[c].docs = Documents(call[c].request, FALSE),
         call[c].plan \in Deletions
  PROVE  \/ Misses(c)
         \/ \E plan, read, found : GetsTo(c, plan, read, found)
<1> DEFINE p == call[c].plan
           n == Len(p)
           rest == Tail(p)
<1>1. /\ p # <<>> /\ n \in 1..8 /\ Len(rest) = n - 1 /\ rest \in Deletions \cup {<<>>}
      /\ Head(p) = "map" => n \in {2, 8}
      /\ Head(p) = "get" => n = 7
      /\ Head(p) = "services" => n = 6
      /\ Head(p) = "remove" => n \in {3, 5}
      /\ Head(p) = "routes" => n = 4
      /\ Head(p) = "delete" => n = 1
      /\ Head(p) \in {"map", "get", "services", "remove", "routes", "delete"}
  BY DeletionGoes
<1>2. call[c].began \in 0..Len(changes)
  BY DEF CallsShaped
<1>9. ASSUME NEW plan \in Deletions \cup {<<>>}, NEW read, NEW found, Gets(c, plan, read, found),
             Held(changes, objects, Doc(c), call[c].began, call[c].read, call[c].found, n)
             => Held(changes', objects', Doc(c), call[c].began, read, found, Len(plan))
      PROVE  GetsTo(c, plan, read, found)
  BY <1>9 DEF GetsTo
<1> HIDE DEF p, n, rest
<1>3. CASE MapKind(c)
  <2>1. /\ UNCHANGED <<objects, changes>>
        /\ Misses(c) \/ Gets(c, rest, call[c].read, call[c].found)
    BY <1>3, DeletionMaps DEF rest, p
  <2>2. n \in {2, 8}
    BY <1>1, <1>3 DEF MapKind, At, p
  <2>3. Held(changes, objects, Doc(c), call[c].began, call[c].read, call[c].found, n)
        => Held(changes', objects', Doc(c), call[c].began, call[c].read, call[c].found, Len(rest))
    BY <1>1, <2>1, <2>2, HeldMaps
  <2> QED
    BY <1>1, <1>9, <2>1, <2>3
<1>4. CASE Read(c)
  <2> DEFINE o == objects[KeyOf(Doc(c))]
  <2>1. /\ UNCHANGED <<objects, changes>>
        /\ \/ Misses(c)
           \/ /\ KeyOf(Doc(c)) \in DOMAIN objects
              /\ \/ o.label = NoLabel /\ Gets(c, ResourcesDelete, o, call[c].found)
                 \/ o.label # NoLabel /\ Gets(c, rest, o, call[c].found)
    BY <1>4, DeletionReads DEF rest, p
  <2>2. n = 7
    BY <1>1, <1>4 DEF Read, At, p
  <2>3. ASSUME KeyOf(Doc(c)) \in DOMAIN objects,
               Held(changes, objects, Doc(c), call[c].began, call[c].read, call[c].found, 7)
        PROVE  /\ o.label = NoLabel => Held(changes, objects, Doc(c), call[c].began, o, call[c].found, 2)
               /\ o.label # NoLabel => Held(changes, objects, Doc(c), call[c].began, o, call[c].found, 6)
    BY <2>3, HeldReads
  <2> HIDE DEF o
  <2>4. ASSUME KeyOf(Doc(c)) \in DOMAIN objects, o.label = NoLabel,
               Gets(c, ResourcesDelete, o, call[c].found)
        PROVE  GetsTo(c, ResourcesDelete, o, call[c].found)
    BY <1>9, <2>1, <2>2, <2>3, <2>4, DeletionOfUnmanaged
  <2>5. ASSUME KeyOf(Doc(c)) \in DOMAIN objects, o.label # NoLabel,
               Gets(c, rest, o, call[c].found)
        PROVE  GetsTo(c, rest, o, call[c].found)
    <3>1. Len(rest) = 6 /\ rest \in Deletions \cup {<<>>}
      BY <1>1, <2>2
    <3>2. Held(changes, objects, Doc(c), call[c].began, call[c].read, call[c].found, n)
          => Held(changes', objects', Doc(c), call[c].began, o, call[c].found, 6)
      BY <2>1, <2>2, <2>3, <2>5
    <3> QED
      BY <1>9, <2>5, <3>1, <3>2
  <2> QED
    BY <2>1, <2>4, <2>5
<1>5. CASE ListManaged(c)
  <2>1. /\ UNCHANGED <<objects, changes>>
        /\ \/ Misses(c)
           \/ /\ At(c, "services") /\ Gets(c, rest, call[c].read, Managed(c, "Service"))
           \/ /\ At(c, "routes") /\ OpenShift
              /\ Gets(c, rest, call[c].read, Managed(c, "Route"))
           \/ /\ At(c, "routes") /\ ~OpenShift
              /\ Gets(c, rest, call[c].read, call[c].found)
    BY <1>5, DeletionLists DEF rest, p
  <2>2. /\ At(c, "services") => n = 6
        /\ At(c, "routes") => n = 4
    BY <1>1 DEF At, p
  <2>3. /\ "Service" \in Exposing /\ (OpenShift => "Route" \in Exposing)
        /\ ~OpenShift => "Route" \notin Exposing
    BY OperationsAssumption DEF Exposing
  <2>4. ASSUME NEW kind
        PROVE  Managed(c, kind) = {k \in DOMAIN objects : /\ k.kind = kind /\ k.ns = Doc(c).ns
                                                          /\ objects[k].label = call[c].read.label}
    BY DEF Managed
  <2>8. ASSUME NEW m \in {4, 6}, n = m,
               NEW kind, kind = IF m = 6 THEN "Service" ELSE "Route", NEW listed,
               \/ kind \in Exposing /\ listed = Managed(c, kind)
               \/ kind \notin Exposing /\ listed = call[c].found,
               Gets(c, rest, call[c].read, listed)
        PROVE  GetsTo(c, rest, call[c].read, listed)
    <3>1. Held(changes, objects, Doc(c), call[c].began, call[c].read, call[c].found, m)
          => Held(changes, objects, Doc(c), call[c].began, call[c].read, listed, m - 1)
      BY <2>4, <2>8, HeldLists
    <3> QED
      BY <1>1, <1>9, <2>1, <2>8, <3>1
  <2>5. CASE At(c, "services") /\ Gets(c, rest, call[c].read, Managed(c, "Service"))
    BY <2>2, <2>3, <2>5, <2>8
  <2>6. CASE At(c, "routes") /\ OpenShift /\ Gets(c, rest, call[c].read, Managed(c, "Route"))
    BY <2>2, <2>3, <2>6, <2>8
  <2>7. CASE At(c, "routes") /\ ~OpenShift /\ Gets(c, rest, call[c].read, call[c].found)
    BY <2>2, <2>3, <2>7, <2>8
  <2> QED
    BY <2>1, <2>5, <2>6, <2>7
<1>6. CASE RemoveManaged(c)
  <2>1. n \in {3, 5}
    BY <1>1, <1>6 DEF RemoveManaged, At, p
  <2>2. CASE /\ call[c].found = {} /\ UNCHANGED <<objects, changes>>
             /\ Gets(c, rest, call[c].read, {})
    <3>1. Held(changes, objects, Doc(c), call[c].began, call[c].read, {}, n)
          => Held(changes, objects, Doc(c), call[c].began, call[c].read, {}, n - 1)
      BY <2>1, HeldGoesOn
    <3> QED
      BY <1>1, <1>9, <2>2, <3>1
  <2>3. ASSUME NEW k \in call[c].found, k \in DOMAIN objects, Erase(c, k),
               Gets(c, p, call[c].read, call[c].found \ {k})
        PROVE  GetsTo(c, p, call[c].read, call[c].found \ {k})
    <3>1. Held(changes, objects, Doc(c), call[c].began, call[c].read, call[c].found, n)
          => Held(changes', objects', Doc(c), call[c].began, call[c].read,
                  call[c].found \ {k}, n)
      <4>1. CASE n = 3
        BY <1>2, <2>3, <4>1, HeldRemoves
      <4>2. CASE n = 5
        BY <1>2, <2>3, <4>2, HeldRemoves
      <4> QED
        BY <2>1, <4>1, <4>2
    <3> QED
      BY <1>9, <2>3, <3>1 DEF n, p
  <2> QED
    BY <1>6, <2>2, <2>3, DeletionRemoves DEF n, p, rest
<1>7. CASE Delete(c)
  <2>1. n = 1
    BY <1>1, <1>7 DEF Delete, At, p
  <2> QED
    <3>1. CASE Misses(c)
      BY <3>1
    <3>2. CASE /\ KeyOf(Doc(c)) \in DOMAIN objects /\ Erase(c, KeyOf(Doc(c)))
               /\ Gets(c, rest, call[c].read, call[c].found)
      <4>1. Held(changes, objects, Doc(c), call[c].began, call[c].read, call[c].found, 1)
            => Held(changes', objects', Doc(c), call[c].began, call[c].read, call[c].found, 0)
        BY <1>2, <3>2, HeldDeletes
      <4> QED
        BY <1>1, <1>9, <2>1, <3>2, <4>1
    <3> QED
      BY <1>7, <3>1, <3>2, DeletionEnds DEF rest, p
<1>8. MapKind(c) \/ Read(c) \/ ListManaged(c) \/ RemoveManaged(c) \/ Delete(c)
  BY <1>1 DEF Works, At, p, Apply, Update, Review, List, Discover, Stream, Search, Create
<1> QED
  BY <1>3, <1>4, <1>5, <1>6, <1>7, <1>8

\* What DeletionsKept says of a call, before and after a step.
DeletionKept(c, log, store, now) ==
  /\ now.docs = Documents(now.request, FALSE)
  /\ \A i \in DOMAIN log : log[i].by = c => i > now.began
  /\ now.plan # <<>> => now.plan \in Deletions
  /\ (now.answer = "ok" /\ ~now.missed
        /\ \A i \in DOMAIN log : i > now.began => log[i].by = c) =>
       Held(log, store, Head(now.docs), now.began, now.read, now.found, Len(now.plan))

LEMMA DeletionKeptNow ==
  DeletionsKept <=> \A c \in Calls : call[c].request.tool = "pods_delete" =>
       DeletionKept(c, changes, objects, call[c])
<1>1. \A c \in Calls :
        Alone(c) <=> \A i \in DOMAIN changes : i > call[c].began => changes[i].by = c
  BY DEF Alone
<1>2. \A c \in Calls : DeletionHolds(c, Len(call[c].plan)) <=>
        Held(changes, objects, Doc(c), call[c].began, call[c].read, call[c].found,
             Len(call[c].plan))
  BY HeldIs
<1> QED
  BY <1>1, <1>2 DEF DeletionsKept, DeletionKept, ChangesBy, Tool, Doc

LEMMA DeletionKeptIs ==
  /\ DeletionsKept <=> \A c \in Calls : call[c].request.tool = "pods_delete" =>
       DeletionKept(c, changes, objects, call[c])
  /\ DeletionsKept' <=> \A c \in Calls : call'[c].request.tool = "pods_delete" =>
       DeletionKept(c, changes', objects', call'[c])
<1>1. (DeletionsKept <=> \A c \in Calls : call[c].request.tool = "pods_delete" =>
         DeletionKept(c, changes, objects, call[c]))'
  BY DeletionKeptNow, PTL
<1> QED
  BY <1>1, DeletionKeptNow

LEMMA DeletionsHold ==
  ASSUME CallsShaped, HintsOfOne, DeletionsKept, [Next]_vars
  PROVE  DeletionsKept'
<1>1. PICK by \in Calls \cup {Elsewhere} :
        Acts(by) /\ (by \in Calls => Begin(by) \/ Works(by))
  BY NextActs
<1>2. Logged(by)
  BY <1>1 DEF Acts
<1>3. /\ Len(changes) \in Nat /\ DOMAIN changes = 1..Len(changes)
      /\ \A i \in DOMAIN changes : i \in DOMAIN changes' /\ changes'[i] = changes[i]
      /\ \A i \in DOMAIN changes' \ DOMAIN changes : i = Len(changes) + 1 /\ changes'[i].by = by
  BY <1>2, LogGrows
<1>4. ASSUME NEW c \in Calls, call'[c].request.tool = "pods_delete"
      PROVE  DeletionKept(c, changes', objects', call'[c])
  <2>0. call[c].began \in 0..Len(changes)
    BY DEF CallsShaped
  <2>1. CASE c # by
    <3>1. call'[c] = call[c]
      BY <1>1, <2>1 DEF Acts
    <3>2. DeletionKept(c, changes, objects, call[c])
      BY <1>4, <3>1, DeletionKeptIs
    <3>3. CASE UNCHANGED <<objects, changes>>
      BY <3>1, <3>2, <3>3
    <3>4. ASSUME NEW k, NEW o, Writes(by, k, o)
          PROVE  DeletionKept(c, changes', objects', call'[c])
      <4>1. /\ Len(changes) + 1 \in DOMAIN changes'
            /\ changes'[Len(changes) + 1].by = by
        BY <1>3, <3>4, SequenceAppend DEF Writes, Change, CallsShaped
      <4>2. ~ \A i \in DOMAIN changes' : i > call[c].began => changes'[i].by = c
        BY <1>3, <2>0, <2>1, <4>1
      <4> QED
        BY <1>3, <2>1, <3>1, <3>2, <4>2 DEF DeletionKept
    <3> QED
      BY <1>2, <3>3, <3>4 DEF Logged
  <2>2. CASE c = by /\ Begin(c)
    <3>1. PICK r \in Requests, routes \in BOOLEAN : Begins(c, r, routes)
      BY <2>2, BeginDoes
    <3>2. call[c] = NoCall /\ UNCHANGED <<objects, changes>>
      BY <2>2, BeginDoes DEF serverVars
    <3>3. r.tool = "pods_delete" /\ call'[c].request = r
      BY <1>4, <3>1 DEF Begins
    <3>4. call'[c].docs = Documents(r, FALSE) /\ call'[c].began = Len(changes)
      BY <3>1, <3>3, DeletionDocument DEF Begins
    <3>5. \A i \in DOMAIN changes' : changes'[i].by # c
      <4>1. Tool(c) \notin Changing
        BY <3>2, NoCallIs, Classes DEF Tool
      <4>2. ChangesBy(c) = {}
        BY <4>1 DEF HintsOfOne
      <4> QED
        BY <3>2, <4>2 DEF ChangesBy
    <3>6. \A i \in DOMAIN changes' : ~ (i > call'[c].began)
      BY <1>3, <3>2, <3>4
    <3>7. CASE call'[c].plan = <<>> /\ call'[c].answer = "invalid"
      BY <3>3, <3>4, <3>5, <3>7 DEF DeletionKept
    <3>8. CASE /\ call'[c].plan = Plan(r, Documents(r, routes))
               /\ Plan(r, Documents(r, routes)) # Invalid
      <4>1. call'[c].plan \in Deletions /\ Len(call'[c].plan) = 8
        BY <3>3, <3>8, DeletionBegins
      <4>2. Held(changes', objects', Head(call'[c].docs), call'[c].began, call'[c].read,
                 call'[c].found, 8)
        BY <3>6 DEF Held, Purged
      <4> QED
        BY <3>3, <3>4, <3>5, <4>1, <4>2 DEF DeletionKept
    <3> QED
      BY <3>1, <3>7, <3>8 DEF Begins
  <2>3. CASE c = by /\ Works(c)
    <3>1. call[c].plan # <<>> /\ Keeps(c)
      BY <2>3, WorksDoes
    <3>2. call'[c].request = call[c].request /\ call'[c].began = call[c].began
      BY <3>1 DEF Keeps
    <3>3. DeletionKept(c, changes, objects, call[c]) /\ Tool(c) = "pods_delete"
      BY <1>4, <3>2, DeletionKeptIs DEF Tool
    <3>4. /\ call[c].docs = Documents(call[c].request, FALSE)
          /\ call[c].plan \in Deletions
          /\ \A i \in DOMAIN changes : changes[i].by = c => i > call[c].began
      BY <3>1, <3>3 DEF DeletionKept
    <3>5. \A i \in DOMAIN changes' : changes'[i].by = c => i > call[c].began
      BY <1>3, <2>0, <3>4
    <3>6. call[c].request \in Requests
      BY <3>1, NoCallIs DEF CallsShaped
    <3>7. CASE Misses(c)
      <4>1. Tail(call[c].plan) \in Deletions \cup {<<>>}
        BY <3>4, DeletionGoes
      <4> QED
        BY <3>2, <3>4, <3>5, <3>7, <4>1 DEF Misses, DeletionKept
    <3>8. ASSUME NEW plan, NEW read, NEW found,
                 Gets(c, plan, read, found), plan \in Deletions \cup {<<>>},
                 Held(changes, objects, Doc(c), call[c].began, call[c].read, call[c].found,
                      Len(call[c].plan))
                 => Held(changes', objects', Doc(c), call[c].began, read, found, Len(plan))
          PROVE  DeletionKept(c, changes', objects', call'[c])
      <4>1. /\ call'[c].docs = call[c].docs /\ call'[c].plan = plan
            /\ call'[c].read = read /\ call'[c].found = found
            /\ call'[c].answer = call[c].answer /\ call'[c].missed = call[c].missed
        BY <3>8 DEF Gets
      <4>2. (\A i \in DOMAIN changes' : i > call[c].began => changes'[i].by = c)
              => \A i \in DOMAIN changes : i > call[c].began => changes[i].by = c
        BY <1>3
      <4> QED
        BY <3>2, <3>3, <3>4, <3>5, <3>8, <4>1, <4>2 DEF DeletionKept, Doc
    <3> QED
      BY <2>3, <3>3, <3>4, <3>6, <3>7, <3>8, DeletionGetsOn DEF GetsTo
  <2> QED
    BY <1>1, <2>1, <2>2, <2>3
<1> QED
  BY <1>4, DeletionKeptIs

\* A pod is deleted with the services and routes that went with it, and nothing
\* else is, when nothing failed and nobody else was about, whatever the names,
\* labels and namespaces.
LEMMA DeletionExact == OperationsInv => PodsDeleteExact
<1> SUFFICES ASSUME OperationsInv, NEW c \in Calls,
                    Tool(c) = "pods_delete", Over(c), call[c].answer = "ok",
                    ~call[c].missed, Alone(c),
                    NEW k \in DOMAIN objects \cup {changes[i].key : i \in ChangesBy(c)}
             PROVE  k \in DOMAIN objects <=> k # KeyOf(Doc(c)) /\ ~Exposes(k, c)
  BY DEF PodsDeleteExact
<1>1. /\ DeletionHolds(c, Len(call[c].plan))
      /\ \A i \in ChangesBy(c) : i > call[c].began
  BY DEF OperationsInv, DeletionsKept
<1>2. Len(call[c].plan) = 0
  BY DEF Over
<1>3. /\ \A i \in DOMAIN changes : i > call[c].began =>
           /\ changes[i].key \notin DOMAIN objects
           /\ changes[i].key = KeyOf(Doc(c)) \/ Exposes(changes[i].key, c)
      /\ \A q \in DOMAIN objects : ~ Exposes(q, c)
      /\ KeyOf(Doc(c)) \notin DOMAIN objects
  BY <1>1, <1>2 DEF DeletionHolds, Expected
<1> QED
  BY <1>1, <1>3 DEF ChangesBy

----
(* The paths of objects, and what a call changes after its beginning *)

\* A change is of an object that was on its path or is put there.
LEMMA WritesOnPath ==
  ASSUME PathsKept, NEW by, NEW k, NEW o, Writes(by, k, o), OnPath(k) \/ k \in DOMAIN objects
  PROVE  PathsKept'
<1>1. \A q \in DOMAIN objects' : q = k \/ q \in DOMAIN objects
  BY DEF Writes
<1>2. \A q \in DOMAIN objects : OnPath(q)
  BY DEF PathsKept
<1>3. \A q \in DOMAIN objects' : OnPath(q)
  BY <1>1, <1>2
<1> QED
  BY <1>3 DEF PathsKept, OnPath

LEMMA PathsStay ==
  ASSUME PathsKept
  PROVE  /\ UNCHANGED objects => PathsKept'
         /\ \A by, k, content : Put(by, k, content) /\ (OnPath(k) \/ k \in DOMAIN objects) => PathsKept'
         /\ \A by : \A k \in DOMAIN objects : Erase(by, k) => PathsKept'
<1>1. ASSUME UNCHANGED objects PROVE PathsKept'
  BY <1>1 DEF PathsKept, OnPath
<1>2. ASSUME NEW by, NEW k, NEW content, Put(by, k, content), OnPath(k) \/ k \in DOMAIN objects
      PROVE  PathsKept'
  BY <1>1, <1>2, PutDoes, WritesOnPath
<1>3. ASSUME NEW by, NEW k \in DOMAIN objects, Erase(by, k)
      PROVE  PathsKept'
  BY <1>3, EraseDoes, WritesOnPath
<1> QED
  BY <1>1, <1>2, <1>3

LEMMA PathsHold ==
  ASSUME CallsShaped, PathsKept, [Next]_vars
  PROVE  PathsKept'
<1>1. ASSUME NEW c \in Calls, Step(c)
      PROVE  PathsKept'
  <2>1. CASE UNCHANGED objects
    BY <2>1, PathsStay
  <2>2. CASE Begin(c) \/ MapKind(c) \/ Review(c) \/ List(c) \/ Discover(c) \/ Read(c)
             \/ Stream(c) \/ ListManaged(c) \/ Search(c)
    BY <2>1, <2>2 DEF Begin, MapKind, Review, List, Discover, Read, Stream, ListManaged, Search,
                      serverVars
  <2>3. CASE Apply(c)
    BY <2>1, <2>3, PathsStay DEF Apply, Fails
  <2>4. CASE Delete(c) \/ RemoveManaged(c)
    BY <2>1, <2>4, PathsStay DEF Delete, RemoveManaged, Fails
  <2>5. CASE Update(c)
    BY <2>1, <2>5, PathsStay DEF Update, Fails
  <2>6. CASE Create(c)
    BY <2>1, <2>6, PathsStay DEF Create, Fails
  <2> QED
    BY <1>1, <2>2, <2>3, <2>4, <2>5, <2>6 DEF Step
<1>2. CASE Otherwise
  BY <1>2, PathsStay, OperationsAssumption DEF Otherwise
<1>3. CASE Establish \/ UNCHANGED vars
  BY <1>3, PathsStay DEF Establish, vars, serverVars
<1> QED
  BY <1>1, <1>2, <1>3 DEF Next

LEMMA ChangedHolds ==
  ASSUME CallsShaped, HintsOfOne, ChangedSince, [Next]_vars
  PROVE  ChangedSince'
<1>1. PICK by \in Calls \cup {Elsewhere} :
        Acts(by) /\ (by \in Calls => Begin(by) \/ Works(by))
  BY NextActs
<1>2. /\ Len(changes) \in Nat /\ Len(changes') \in Nat /\ DOMAIN changes = 1..Len(changes)
      /\ Len(changes) <= Len(changes')
      /\ \A i \in DOMAIN changes : changes'[i] = changes[i]
      /\ \A i \in DOMAIN changes' \ DOMAIN changes : i = Len(changes) + 1 /\ changes'[i].by = by
  BY <1>1, LogGrows DEF Acts
<1>3. ASSUME NEW c \in Calls
      PROVE  /\ \A i \in DOMAIN changes' : changes'[i].by = c => i > call'[c].began
             /\ call'[c] # NoCall /\ call'[c].plan = <<>> => call'[c].began <= call'[c].ended
  <2>1. call[c].began \in 0..Len(changes)
    BY DEF CallsShaped
  <2>2. /\ \A j \in DOMAIN changes : changes[j].by = c => j > call[c].began
        /\ call[c] # NoCall /\ call[c].plan = <<>> => call[c].began <= call[c].ended
    BY DEF ChangedSince, ChangesBy, Over
  <2>3. CASE c = by /\ Begin(c)
    <3>1. call[c] = NoCall /\ changes' = changes
      BY <2>3, BeginDoes DEF serverVars
    <3>2. Tool(c) \notin Changing
      BY <3>1, NoCallIs, Classes DEF Tool
    <3>3. \A i \in DOMAIN changes' : changes'[i].by # c
      BY <3>1, <3>2 DEF HintsOfOne, ChangesBy
    <3>4. PICK r \in Requests, routes \in BOOLEAN : Begins(c, r, routes)
      BY <2>3, BeginDoes
    <3>5. call'[c].plan = <<>> => call'[c].began = call'[c].ended /\ call'[c].began = Len(changes)
      BY <3>4 DEF Begins
    <3> QED
      BY <1>2, <3>3, <3>5
  <2>4. CASE c = by /\ Works(c)
    <3>1. /\ call'[c].began = call[c].began
          /\ call'[c].plan = <<>> => call'[c].ended = Len(changes')
      BY <2>4, WorksDoes DEF Keeps
    <3> QED
      BY <1>2, <2>1, <2>2, <3>1
  <2>5. CASE c # by
    <3>1. call'[c] = call[c]
      BY <1>1, <2>5 DEF Acts
    <3> QED
      BY <1>2, <2>1, <2>2, <2>5, <3>1
  <2> QED
    BY <1>1, <2>3, <2>4, <2>5
<1> QED
  BY <1>3 DEF ChangedSince, ChangesBy, Over

----
(* The tools that name one object *)

\* Where requests reach the object of a document is its target.
LEMMA AtTarget ==
  ASSUME NEW f, IsDocument(f), NEW d \in Placed(f), OnPath(KeyOf(d))
  PROVE  KeyOf(d) = Target(f) /\ d.kind = f.kind /\ d.content = f.content
<1>1. d.kind = f.kind /\ d.content = f.content
  BY AtHome
<1>2. CASE f.kind \notin ClusterKinds
  BY <1>1, <1>2, AtHome DEF Target
<1>3. CASE f.kind \in ClusterKinds
  <2> DEFINE g == [f EXCEPT !.ns = NamespaceOrDefault(f.ns)]
  <2>1. DOMAIN f = {"kind", "ns", "name", "content"}
    BY DEF IsDocument
  <2>2. g.kind = f.kind /\ g.name = f.name /\ g.ns = NamespaceOrDefault(f.ns)
    BY <2>1
  <2>3. d = f \/ d = g
    BY DEF Placed
  <2> HIDE DEF g
  <2>4. d.ns = NoLabel
    BY <1>1, <1>3, Zenon DEF OnPath, KeyOf, Key, NoLabel
  <2>5. NamespaceOrDefault(f.ns) = NoLabel => f.ns = NoLabel
    BY Zenon DEF NamespaceOrDefault, NoLabel
  <2>6. f.ns = NoLabel
    BY <2>2, <2>3, <2>4, <2>5
  <2>7. KeyOf(d) = KeyOf(f)
    BY <2>2, <2>3, <2>4, <2>6 DEF KeyOf
  <2> QED
    BY <1>1, <1>3, <2>7 DEF Target
<1> QED
  BY <1>1, <1>2, <1>3

OneDocument(r, docs) == docs \in {<<e>> : e \in Placed(r.doc)}

LEMMA NamedKeptIs ==
  /\ NamedKept <=> \A c \in Calls : call[c].request.tool \in Naming =>
       /\ OneDocument(call[c].request, call[c].docs)
       /\ call[c].plan # <<>> => call[c].plan \in NamedPlans(call[c].request)
  /\ NamedKept' <=> \A c \in Calls : call'[c].request.tool \in Naming =>
       /\ OneDocument(call'[c].request, call'[c].docs)
       /\ call'[c].plan # <<>> => call'[c].plan \in NamedPlans(call'[c].request)
  BY DEF NamedKept, OneDocument, NamedPlans, Tool, Placed, NamespaceOrDefault

LEMMA OneDocumentIs ==
  ASSUME NEW r, NEW docs, OneDocument(r, docs)
  PROVE  /\ docs[1] \in Placed(r.doc) /\ Head(docs) = docs[1] /\ docs # <<>>
         /\ \A e \in Placed(r.doc) : OneDocument(r, [docs EXCEPT ![1] = e])
<1>1. PICK d \in Placed(r.doc) : docs = <<d>>
  BY DEF OneDocument
<1>2. docs[1] = d /\ Head(docs) = d /\ docs # <<>>
  BY <1>1
<1>3. ASSUME NEW e PROVE [docs EXCEPT ![1] = e] = <<e>>
  BY <1>1
<1> QED
  BY <1>2, <1>3 DEF OneDocument

\* What is left of a plan says what is next, and what is left then.
LEMMA NamedPlansGo ==
  ASSUME NEW r, r.tool \in Naming, NEW p \in NamedPlans(r)
  PROVE  /\ p # <<>> /\ (Tail(p) = <<>> \/ Tail(p) \in NamedPlans(r))
         /\ r.tool = "resources_delete" => Head(p) \in {"map", "delete"}
         /\ r.tool = "resources_scale" => Head(p) \in {"map", "get", "scale"}
         /\ r.tool = "pods_delete" =>
              Head(p) \in {"map", "get", "services", "routes", "remove", "delete"}
         /\ Head(p) \in {"map", "services", "routes", "remove"} => Tail(p) # <<>>
         /\ Head(p) = "get" /\ Tail(p) = <<>> =>
              r.tool = "resources_scale" /\ r.doc.content.mode = None
         /\ Head(p) = "scale" => r.doc.content.mode # None
         /\ Head(p) = "delete" => Tail(p) = <<>>
         /\ r.tool = "pods_delete" /\ Head(p) \in {"services", "routes", "remove", "delete"} =>
              Len(p) < 7
<1>1. CASE r.tool = "resources_delete"
  <2>1. NamedPlans(r) = {<<"map", "delete">>, <<"delete">>}
    BY <1>1 DEF NamedPlans
  <2>2. CASE p = <<"map", "delete">>
    <3>1. p # <<>> /\ Tail(p) = <<"delete">> /\ Head(p) = "map" /\ Tail(p) # <<>>
      BY <2>2
    <3> QED
      BY <1>1, <2>1, <3>1
  <2>3. CASE p = <<"delete">>
    <3>1. p # <<>> /\ Tail(p) = <<>> /\ Head(p) = "delete"
      BY <2>3
    <3> QED
      BY <1>1, <3>1
  <2> QED
    BY <2>1, <2>2, <2>3
<1>2. CASE r.tool = "resources_scale" /\ r.doc.content.mode = None
  <2>1. NamedPlans(r) = {<<"map", "get">>, <<"get">>}
    BY <1>2 DEF NamedPlans
  <2>2. CASE p = <<"map", "get">>
    <3>1. p # <<>> /\ Tail(p) = <<"get">> /\ Head(p) = "map" /\ Tail(p) # <<>>
      BY <2>2
    <3> QED
      BY <1>2, <2>1, <3>1
  <2>3. CASE p = <<"get">>
    <3>1. p # <<>> /\ Tail(p) = <<>> /\ Head(p) = "get"
      BY <2>3
    <3> QED
      BY <1>2, <3>1
  <2> QED
    BY <2>1, <2>2, <2>3
<1>3. CASE r.tool = "resources_scale" /\ r.doc.content.mode # None
  <2>1. NamedPlans(r) = {<<"map", "get", "scale">>, <<"get", "scale">>, <<"scale">>}
    BY <1>3 DEF NamedPlans
  <2>2. CASE p = <<"map", "get", "scale">>
    <3>1. p # <<>> /\ Tail(p) = <<"get", "scale">> /\ Head(p) = "map" /\ Tail(p) # <<>>
      BY <2>2
    <3> QED
      BY <1>3, <2>1, <3>1
  <2>3. CASE p = <<"get", "scale">>
    <3>1. p # <<>> /\ Tail(p) = <<"scale">> /\ Head(p) = "get" /\ Tail(p) # <<>>
      BY <2>3
    <3> QED
      BY <1>3, <2>1, <3>1
  <2>4. CASE p = <<"scale">>
    <3>1. p # <<>> /\ Tail(p) = <<>> /\ Head(p) = "scale"
      BY <2>4
    <3> QED
      BY <1>3, <3>1
  <2> QED
    BY <2>1, <2>2, <2>3, <2>4
<1>4. CASE r.tool = "pods_delete"
  <2>1. NamedPlans(r) = Deletions
    BY <1>4 DEF NamedPlans
  <2>2. /\ p # <<>> /\ Len(p) \in 1..8 /\ Len(Tail(p)) = Len(p) - 1
        /\ Tail(p) = <<>> \/ Tail(p) \in Deletions
        /\ Head(p) = "map" => Len(p) \in {2, 8}
        /\ Head(p) = "get" => Len(p) = 7
        /\ Head(p) = "services" => Len(p) = 6
        /\ Head(p) = "remove" => Len(p) \in {3, 5}
        /\ Head(p) = "routes" => Len(p) = 4
        /\ Head(p) = "delete" => Len(p) = 1
        /\ Head(p) \in {"map", "get", "services", "remove", "routes", "delete"}
    BY <2>1, DeletionGoes
  <2>3. Len(<<>>) = 0
    OBVIOUS
  <2>4. Tail(p) = <<>> => Len(p) = 1
    <3> HAVE Tail(p) = <<>>
    <3>1. Len(Tail(p)) = 0
      BY <2>3
    <3> QED
      BY <2>2, <3>1
  <2>5. Head(p) \in {"map", "services", "routes", "remove", "get"} => Len(p) # 1
    <3>1. (Len(p) \in {2, 8} \/ Len(p) = 7 \/ Len(p) = 6 \/ Len(p) \in {3, 5} \/ Len(p) = 4)
          => Len(p) # 1
      OBVIOUS
    <3> QED
      BY <2>2, <3>1, Zenon
  <2>6. Head(p) # "scale"
    <3>1. Head(p) \in {"map", "get", "services", "remove", "routes", "delete"}
      BY <2>1, DeletionGoes
    <3> QED
      BY <3>1
  <2>7. Head(p) \in {"services", "routes", "remove", "delete"} => Len(p) < 7
    <3>1. \A n : n = 6 \/ n = 3 \/ n = 5 \/ n = 4 \/ n = 1 => n < 7
      OBVIOUS
    <3>2. Head(p) \in {"services", "routes", "remove", "delete"} =>
            Len(p) = 6 \/ Len(p) = 3 \/ Len(p) = 5 \/ Len(p) = 4 \/ Len(p) = 1
      BY <2>2, Zenon
    <3> QED
      BY <3>1, <3>2, Zenon
  <2>8. Head(p) = "delete" => Tail(p) = <<>>
    <3>1. Head(p) = "delete" => Len(p) = 1
      BY <2>1, DeletionGoes
    <3>2. Len(p) = 1 => Len(Tail(p)) = 0
      BY <2>2
    <3>3. \A q \in Deletions : Len(q) \in 1..8
      BY DeletionGoes
    <3> QED
      BY <2>2, <3>1, <3>2, <3>3
  <2> QED
    BY <1>4, <2>1, <2>2, <2>4, <2>5, <2>6, <2>7, <2>8, Zenon
<1> QED
  BY <1>1, <1>2, <1>3, <1>4 DEF Naming

LEMMA NamedBegins ==
  ASSUME NEW r \in Requests, r.tool \in Naming, NEW routes \in BOOLEAN
  PROVE  /\ OneDocument(r, Documents(r, routes))
         /\ Plan(r, Documents(r, routes)) # Invalid =>
              /\ Plan(r, Documents(r, routes)) \in NamedPlans(r)
              /\ r.tool = "pods_delete" => Len(Plan(r, Documents(r, routes))) = 8
<1>1. OneDocument(r, Documents(r, routes))
  <2>1. Documents(r, routes) = <<r.doc>>
        \/ Documents(r, routes) = <<[r.doc EXCEPT !.ns = NamespaceOrDefault(r.doc.ns)]>>
    BY DEF Documents, Naming, Namespaced
  <2> QED
    BY <2>1 DEF OneDocument, Placed
<1>2. CASE r.tool = "resources_delete"
  BY <1>1, <1>2 DEF Plan, resourcesDelete, Asked, ResourcesDelete, NamedPlans
<1>3. CASE r.tool = "resources_scale"
  <2>1. \/ Plan(r, Documents(r, routes)) = Invalid
        \/ r.doc.content.mode = None /\ Plan(r, Documents(r, routes)) = <<"map", "get">>
        \/ r.doc.content.mode # None /\ Plan(r, Documents(r, routes)) = <<"map", "get", "scale">>
    BY <1>3, Zenon DEF Plan, resourcesScale, Asked, ResourcesScale, None
  <2> QED
    BY <1>1, <1>3, <2>1 DEF NamedPlans
<1>4. CASE r.tool = "pods_delete"
  <2>1. NamedPlans(r) = Deletions
    BY <1>4 DEF NamedPlans
  <2> QED
    BY <1>1, <1>4, <2>1, DeletionBegins
<1> QED
  BY <1>2, <1>3, <1>4 DEF Naming

\* What of a call that names one object comes next.
LEMMA NamingSteps ==
  ASSUME NamedKept, NEW c \in Calls, Works(c), call[c].plan # <<>>, Tool(c) \in Naming
  PROVE  /\ call[c].plan \in NamedPlans(call[c].request)
         /\ \/ MapKind(c) /\ Tail(call[c].plan) # <<>>
            \/ /\ Read(c) /\ Tool(c) # "resources_delete"
               /\ Tail(call[c].plan) = <<>> =>
                    Tool(c) = "resources_scale" /\ call[c].request.doc.content.mode = None
            \/ /\ Delete(c) /\ Tool(c) # "resources_scale"
               /\ Tail(call[c].plan) = <<>>
               /\ Tool(c) = "pods_delete" => Len(call[c].plan) < 7
            \/ /\ ListManaged(c) \/ RemoveManaged(c)
               /\ Tool(c) = "pods_delete" /\ Tail(call[c].plan) # <<>> /\ Len(call[c].plan) < 7
            \/ /\ Update(c) /\ Head(call[c].plan) = "scale" /\ Tool(c) = "resources_scale"
               /\ call[c].request.doc.content.mode # None
<1> DEFINE r == call[c].request
           p == call[c].plan
           h == Head(call[c].plan)
<1>1. p \in NamedPlans(r) /\ r.tool \in Naming
  BY NamedKeptIs DEF Tool
<1>2. r.tool = Tool(c)
  BY DEF Tool
<1>3. /\ r.tool = "resources_delete" => h \in {"map", "delete"}
      /\ r.tool = "resources_scale" => h \in {"map", "get", "scale"}
      /\ r.tool = "pods_delete" =>
           h \in {"map", "get", "services", "routes", "remove", "delete"}
      /\ h \in {"map", "services", "routes", "remove"} => Tail(p) # <<>>
      /\ h = "get" /\ Tail(p) = <<>> =>
           r.tool = "resources_scale" /\ r.doc.content.mode = None
      /\ h = "scale" => r.doc.content.mode # None
      /\ h = "delete" => Tail(p) = <<>>
      /\ r.tool = "pods_delete" /\ h \in {"services", "routes", "remove", "delete"} => Len(p) < 7
  BY <1>1, NamedPlansGo
<1>4. \/ MapKind(c) /\ h = "map"
      \/ Read(c) /\ h = "get"
      \/ Apply(c) /\ h = "apply"
      \/ Update(c) /\ h \in {"halt", "start", "scale"}
      \/ Review(c) /\ h = "review"
      \/ List(c) /\ h = "list"
      \/ Discover(c) /\ h = "discover"
      \/ Stream(c) /\ h = "stream"
      \/ Search(c) /\ h = "search"
      \/ Delete(c) /\ h = "delete"
      \/ ListManaged(c) /\ h \in {"services", "routes"}
      \/ RemoveManaged(c) /\ h = "remove"
      \/ Create(c) /\ h = "create"
  <2>1. /\ MapKind(c) => h = "map"
        /\ Read(c) => h = "get"
        /\ Apply(c) => h = "apply"
        /\ Update(c) => h \in {"halt", "start", "scale"}
    BY Zenon DEF At, MapKind, Read, Apply, Update
  <2>2. /\ Review(c) => h = "review"
        /\ List(c) => h = "list"
        /\ Discover(c) => h = "discover"
        /\ Stream(c) => h = "stream"
        /\ Search(c) => h = "search"
    BY Zenon DEF At, Review, List, Discover, Stream, Search
  <2>3. /\ Delete(c) => h = "delete"
        /\ ListManaged(c) => h \in {"services", "routes"}
        /\ RemoveManaged(c) => h = "remove"
        /\ Create(c) => h = "create"
    BY Zenon DEF At, Delete, ListManaged, RemoveManaged, Create
  <2> QED
    BY <2>1, <2>2, <2>3 DEF Works
<1> HIDE DEF p, r, h
<1>5. r.tool \in {"resources_delete", "resources_scale", "pods_delete"}
  BY <1>1 DEF Naming
<1>6. h \in {"map", "get", "services", "routes", "remove", "delete", "scale"}
  BY <1>3, <1>5
<1>7. \/ MapKind(c) /\ h = "map"
      \/ Read(c) /\ h = "get"
      \/ Delete(c) /\ h = "delete"
      \/ (ListManaged(c) \/ RemoveManaged(c)) /\ h \in {"services", "routes", "remove"}
      \/ Update(c) /\ h = "scale"
  BY <1>4, <1>6
<1> QED
  BY <1>1, <1>2, <1>3, <1>5, <1>7 DEF p, r, h

\* What a step of a call that names one object does.
EndsIdly(c) ==
  /\ UNCHANGED <<objects, changes>>
  /\ call'[c].plan = <<>> /\ call'[c].answer = "ok" =>
       Tool(c) = "resources_scale" /\ call[c].request.doc.content.mode = None

Erases(c) ==
  /\ Tool(c) # "resources_scale"
  /\ \E k \in DOMAIN objects : Erase(c, k) /\ (k = KeyOf(call[c].docs[1]) \/ call'[c].plan # <<>>)
  /\ Tool(c) = "resources_delete" => call'[c].plan = <<>>
  /\ Tool(c) = "pods_delete" => Len(call[c].plan) < 7

Scales(c) ==
  LET d == call[c].docs[1]
      k == KeyOf(d)
  IN /\ Tool(c) = "resources_scale" /\ call[c].request.doc.content.mode # None
     /\ Head(call[c].plan) = "scale"
     /\ k \in DOMAIN objects /\ objects[k].version = call[c].read.version
     /\ Put(c, k, [Content(call[c].read) EXCEPT !.mode = d.content.mode])

LEMMA NamingWorks ==
  ASSUME CallsShaped, NamedKept, DeletionsKept, DeletionsKept', NEW c \in Calls, Works(c),
         Tool(c) \in Naming
  PROVE  /\ OneDocument(call[c].request, call'[c].docs)
         /\ call'[c].plan # <<>> => call'[c].plan \in NamedPlans(call[c].request)
         /\ EndsIdly(c) \/ Erases(c) \/ Scales(c)
<1> DEFINE r == call[c].request
           p == call[c].plan
           docs == call[c].docs
<1>1. p # <<>> /\ Keeps(c)
  BY WorksDoes
<1>2. /\ OneDocument(r, docs) /\ p \in NamedPlans(r) /\ r.tool = Tool(c)
      /\ r \in Requests /\ IsDocument(r.doc)
  BY <1>1, NamedKeptIs, NoCallIs, OperationsAssumption DEF Tool, CallsShaped
<1>3. /\ docs[1] \in Placed(r.doc) /\ Head(docs) = docs[1] /\ docs # <<>>
      /\ \A e \in Placed(r.doc) : OneDocument(r, [docs EXCEPT ![1] = e])
  BY <1>2, OneDocumentIs
<1>4. Tail(p) # <<>> => Tail(p) \in NamedPlans(r)
  BY <1>2, NamedPlansGo
<1>5. Doc(c) = docs[1]
  BY <1>3 DEF Doc
<1>6. ASSUME call'[c].docs = docs,
             call'[c].plan = <<>> \/ call'[c].plan \in {p, Tail(p)}
      PROVE  /\ OneDocument(r, call'[c].docs)
             /\ call'[c].plan # <<>> => call'[c].plan \in NamedPlans(r)
  BY <1>2, <1>4, <1>6
<1>7. CASE MapKind(c) /\ Tail(p) # <<>>
  <2>1. /\ UNCHANGED <<objects, changes>>
        /\ \/ call'[c].plan = <<>> /\ call'[c].answer # "ok" /\ call'[c].docs = docs
           \/ /\ call'[c].plan = Tail(p)
              /\ \E ns \in {docs[1].ns, NamespaceOrDefault(docs[1].ns)} :
                   call'[c].docs = [docs EXCEPT ![1] = [docs[1] EXCEPT !.ns = ns]]
    BY <1>2, <1>7, MapKindDoes DEF serverVars, Naming
  <2>2. EndsIdly(c)
    BY <1>7, <2>1 DEF EndsIdly
  <2>3. ASSUME NEW ns \in {docs[1].ns, NamespaceOrDefault(docs[1].ns)},
               call'[c].docs = [docs EXCEPT ![1] = [docs[1] EXCEPT !.ns = ns]]
        PROVE  OneDocument(r, call'[c].docs)
    <3>1. [docs[1] EXCEPT !.ns = ns] \in Placed(r.doc)
      BY <1>2, <1>3, PlacedAgain
    <3> QED
      BY <1>3, <2>3, <3>1
  <2> QED
    BY <1>2, <1>4, <1>7, <2>1, <2>2, <2>3
<1>8. CASE /\ Delete(c) /\ Tool(c) # "resources_scale" /\ Tail(p) = <<>>
           /\ Tool(c) = "pods_delete" => Len(p) < 7
  <2>1. CASE Fails(c)
    <3>1. /\ UNCHANGED <<objects, changes>> /\ call'[c].plan = <<>> /\ call'[c].answer = "error"
          /\ call'[c].docs = docs
      BY <2>1, FailsDoes
    <3> QED
      BY <1>6, <3>1 DEF EndsIdly
  <2>2. CASE /\ KeyOf(Doc(c)) \in DOMAIN objects /\ Erase(c, KeyOf(Doc(c)))
             /\ GoesOn(c, call[c])
    <3>1. call'[c].plan = Tail(p) /\ call'[c].docs = docs
      BY <2>2, GoesOnDoes
    <3>2. Erases(c)
      BY <1>5, <1>8, <2>2, <3>1 DEF Erases
    <3> QED
      BY <1>6, <3>1, <3>2
  <2> QED
    BY <1>8, <2>1, <2>2 DEF Delete
<1>9. CASE /\ Update(c) /\ Head(p) = "scale" /\ Tool(c) = "resources_scale"
           /\ r.doc.content.mode # None
  <2> DEFINE k == KeyOf(Doc(c))
  <2>1. Wanted(c) = Doc(c).content.mode
    BY <1>9, Zenon DEF Wanted
  <2>2. \/ Fails(c)
        \/ /\ k \in DOMAIN objects
           /\ objects[k].version = call[c].read.version
           /\ Put(c, k, [Content(call[c].read) EXCEPT !.mode = Doc(c).content.mode])
           /\ GoesOn(c, [call[c] EXCEPT !.read = objects'[k]])
    BY <1>9, <2>1, Zenon DEF Update
  <2>3. CASE Fails(c)
    <3>1. /\ UNCHANGED <<objects, changes>> /\ call'[c].plan = <<>> /\ call'[c].answer = "error"
          /\ call'[c].docs = docs
      BY <2>3, FailsDoes
    <3> QED
      BY <1>6, <3>1 DEF EndsIdly
  <2>4. CASE /\ k \in DOMAIN objects
             /\ objects[k].version = call[c].read.version
             /\ Put(c, k, [Content(call[c].read) EXCEPT !.mode = Doc(c).content.mode])
             /\ GoesOn(c, [call[c] EXCEPT !.read = objects'[k]])
    <3>1. Scales(c)
      BY <1>5, <1>9, <2>4 DEF Scales
    <3>2. call'[c].docs = docs /\ PlanGoes(c)
      BY <1>9, UpdateDoes
    <3>3. call'[c].plan = <<>> \/ call'[c].plan = Tail(p)
      BY <1>9, <3>2 DEF PlanGoes
    <3> QED
      BY <1>6, <3>1, <3>2, <3>3
  <2> QED
    BY <2>2, <2>3, <2>4
<1>10. CASE /\ Read(c) /\ Tool(c) = "resources_scale"
            /\ Tail(p) = <<>> => r.doc.content.mode = None
  <2>1. /\ UNCHANGED <<objects, changes>> /\ call'[c].docs = docs
        /\ call'[c].plan = <<>> \/ call'[c].plan = Tail(p)
    BY <1>10, ReadDoes DEF serverVars, PlanGoes
  <2>2. call'[c].answer = "ok" => call'[c].plan = Tail(p)
    <3>1. CASE Fails(c)
      BY <3>1, FailsDoes
    <3>2. CASE AfterRead(c, objects[KeyOf(Doc(c))])
      <4> DEFINE o == objects[KeyOf(Doc(c))]
      <4>1. Goes(c, [call[c] EXCEPT !.read = o], Tail(p))
        BY <1>10, <3>2, Zenon DEF AfterRead
      <4> QED
        BY <4>1, GetsOnBy DEF Gets
    <3> QED
      BY <1>10, <3>1, <3>2 DEF Read
  <2> QED
    BY <1>6, <1>10, <2>1, <2>2 DEF EndsIdly
<1>11. CASE r.tool = "pods_delete"
  <2>1. OneDocument(r, call'[c].docs) /\ (call'[c].plan # <<>> => call'[c].plan \in NamedPlans(r))
    <3>1. call'[c].request = r
      BY <1>1 DEF Keeps
    <3>2. /\ call'[c].docs = Documents(r, FALSE)
          /\ call'[c].plan # <<>> => call'[c].plan \in Deletions
      BY <1>11, <3>1, DeletionKeptIs DEF DeletionKept
    <3>3. NamedPlans(r) = Deletions
      BY <1>11 DEF NamedPlans
    <3> QED
      BY <1>2, <1>11, <3>2, <3>3, NamedBegins DEF Naming
  <2>2. ASSUME Tail(p) # <<>>, Misses(c)
        PROVE  EndsIdly(c)
    BY <1>1, <2>2 DEF Misses, EndsIdly
  <2>3. ASSUME NEW plan, NEW read, NEW found, plan # <<>>, Gets(c, plan, read, found),
               UNCHANGED <<objects, changes>>
        PROVE  EndsIdly(c)
    BY <2>3 DEF Gets, EndsIdly
  <2>4. CASE Read(c) /\ Tail(p) # <<>>
    <3>1. ResourcesDelete # <<>>
      BY DEF ResourcesDelete
    <3> QED
      BY <1>2, <1>11, <2>1, <2>2, <2>3, <2>4, <3>1, DeletionReads
  <2>5. CASE ListManaged(c) /\ Tail(p) # <<>>
    BY <2>1, <2>2, <2>3, <2>5, DeletionLists
  <2>6. CASE RemoveManaged(c) /\ Tail(p) # <<>> /\ Len(p) < 7
    <3>1. CASE Misses(c)
      BY <2>1, <2>2, <2>6, <3>1
    <3>2. CASE /\ call[c].found = {} /\ UNCHANGED <<objects, changes>>
               /\ Gets(c, Tail(call[c].plan), call[c].read, {})
      BY <2>1, <2>3, <2>6, <3>2
    <3>3. ASSUME NEW k \in call[c].found,
                 k \in DOMAIN objects, Erase(c, k),
                 Gets(c, call[c].plan, call[c].read, call[c].found \ {k})
          PROVE  Erases(c)
      BY <1>1, <1>2, <1>11, <2>6, <3>3 DEF Gets, Erases
    <3> QED
      BY <2>1, <2>6, <3>1, <3>2, <3>3, DeletionRemoves
  <2> QED
    BY <1>1, <1>2, <1>7, <1>8, <1>9, <1>11, <2>1, <2>4, <2>5, <2>6, NamingSteps
<1> QED
  BY <1>1, <1>2, <1>7, <1>8, <1>9, <1>10, <1>11, NamingSteps DEF Naming

LEMMA NamedHolds ==
  ASSUME CallsShaped, NamedKept, DeletionsKept, DeletionsKept', [Next]_vars
  PROVE  NamedKept'
<1>1. PICK by \in Calls \cup {Elsewhere} :
        Acts(by) /\ (by \in Calls => Begin(by) \/ Works(by))
  BY NextActs
<1>2. ASSUME NEW c \in Calls, call'[c].request.tool \in Naming
      PROVE  /\ OneDocument(call'[c].request, call'[c].docs)
             /\ call'[c].plan # <<>> => call'[c].plan \in NamedPlans(call'[c].request)
  <2>1. CASE c # by
    BY <1>1, <1>2, <2>1, NamedKeptIs DEF Acts
  <2>2. CASE c = by /\ Begin(c)
    <3>1. PICK r \in Requests, routes \in BOOLEAN : Begins(c, r, routes)
      BY <2>2, BeginDoes
    <3>2. call'[c].request = r /\ call'[c].docs = Documents(r, routes)
          /\ (call'[c].plan = <<>> \/ (call'[c].plan = Plan(r, Documents(r, routes)) /\ call'[c].plan # Invalid))
      BY <3>1 DEF Begins
    <3> QED
      BY <1>2, <3>2, NamedBegins
  <2>3. CASE c = by /\ Works(c)
    <3>1. call'[c].request = call[c].request
      BY <2>3, WorksDoes DEF Keeps
    <3> QED
      BY <1>2, <2>3, <3>1, NamingWorks DEF Tool
  <2> QED
    BY <1>1, <2>1, <2>2, <2>3
<1> QED
  BY <1>2, NamedKeptIs

----
(* What the calls leave behind *)

\* A step that adds no change changes nothing; one that does adds one of whoever
\* makes it.
LEMMA LogTells ==
  ASSUME CallsShaped, NEW by, Logged(by)
  PROVE  \/ UNCHANGED <<objects, changes>> /\ Len(changes') = Len(changes)
         \/ /\ Len(changes') = Len(changes) + 1 /\ Len(changes) + 1 \in DOMAIN changes'
            /\ changes'[Len(changes) + 1].by = by
<1>1. ASSUME NEW k, NEW o, Writes(by, k, o)
      PROVE  /\ Len(changes') = Len(changes) + 1 /\ Len(changes) + 1 \in DOMAIN changes'
             /\ changes'[Len(changes) + 1].by = by
  <2>1. IsSequence(changes)
    BY DEF CallsShaped
  <2>2. changes' = Append(changes, Change(by, k, Under(objects, k), o))
    BY <1>1 DEF Writes
  <2>3. Change(by, k, Under(objects, k), o).by = by
    BY DEF Change
  <2>4. Len(changes) \in Nat
    BY <2>1, SequenceLen
  <2> QED
    BY <2>1, <2>2, <2>3, <2>4, SequenceAppend
<1> QED
  BY <1>1 DEF Logged

\* What is stored under a key, and that nothing else is touched.
LEMMA PutKeeps ==
  ASSUME NEW by, NEW k, NEW content, content = Content(content), Put(by, k, content)
  PROVE  /\ k \in DOMAIN objects' /\ Content(objects'[k]) = content
         /\ \A q \in DOMAIN objects :
              q \in DOMAIN objects' /\ (q # k => objects'[q] = objects[q])
<1> DEFINE now == Versioned(content, Len(changes) + 2)
<1>1. CASE k \in DOMAIN objects /\ Content(objects[k]) = content
  BY <1>1 DEF Put
<1>2. CASE ~ (k \in DOMAIN objects /\ Content(objects[k]) = content)
  <2>1. objects' = [x \in DOMAIN objects \cup {k} |-> IF x = k THEN now ELSE objects[x]]
    BY <1>2 DEF Put
  <2>2. Content(now) = Content(content)
    BY DEF Content, Versioned
  <2> HIDE DEF now
  <2> QED
    BY <2>1, <2>2
<1> QED
  BY <1>1, <1>2

\* What a call that names one object was asked for.
Attained(store, r) ==
  LET k == Target(r.doc)
  IN IF r.tool # "resources_scale" THEN k \notin DOMAIN store
     ELSE r.doc.content.mode # None =>
            k \in DOMAIN store /\ store[k].mode = r.doc.content.mode

ReachedFor(log, store, now) ==
  (now.request.tool \in Naming /\ now.plan = <<>> /\ now.answer = "ok" /\ now.ended = Len(log))
    => Attained(store, now.request)

LEMMA ReachedKeptIs ==
  /\ ReachedKept <=> \A c \in Calls : ReachedFor(changes, objects, call[c])
  /\ ReachedKept' <=> \A c \in Calls : ReachedFor(changes', objects', call'[c])
<1>1. NoCall.request.tool \notin Naming
  BY NoCallIs, Zenon DEF Naming
<1>2. \A r : Reached(r) <=> Attained(objects, r)
  BY DEF Reached, Attained, Target, Home, KeyOf, Key, NamespaceOrDefault
<1>3. ReachedKept <=> \A c \in Calls : ReachedFor(changes, objects, call[c])
  BY <1>1, <1>2 DEF ReachedKept, ReachedFor, Tool, Over
<1>4. (ReachedKept <=> \A c \in Calls : ReachedFor(changes, objects, call[c]))'
  BY <1>3, PTL
<1> QED
  BY <1>3, <1>4

\* The object that a call that names one is about is the target of what it was
\* asked for, where there is one.
LEMMA NamedTarget ==
  ASSUME CallsShaped, PathsKept, NamedKept, NEW c \in Calls, call[c].plan # <<>>,
         Tool(c) \in Naming, KeyOf(call[c].docs[1]) \in DOMAIN objects
  PROVE  /\ KeyOf(call[c].docs[1]) = Target(call[c].request.doc)
         /\ call[c].docs[1].content = call[c].request.doc.content
         /\ Doc(c) = call[c].docs[1]
<1>1. OneDocument(call[c].request, call[c].docs) /\ IsDocument(call[c].request.doc)
  BY NamedKeptIs, NoCallIs, OperationsAssumption DEF Tool, CallsShaped
<1>2. call[c].docs[1] \in Placed(call[c].request.doc) /\ Head(call[c].docs) = call[c].docs[1]
  BY <1>1, OneDocumentIs
<1>3. OnPath(KeyOf(call[c].docs[1]))
  BY DEF PathsKept
<1> QED
  BY <1>1, <1>2, <1>3, AtTarget DEF Doc

LEMMA ReachedHolds ==
  ASSUME CallsShaped, PathsKept, NamedKept, DeletionsKept, DeletionsKept', ReachedKept,
         [Next]_vars
  PROVE  ReachedKept'
<1>1. PICK by \in Calls \cup {Elsewhere} :
        Acts(by) /\ (by \in Calls => Begin(by) \/ Works(by))
  BY NextActs
<1>2. Logged(by) /\ Len(changes) \in Nat /\ Len(changes') \in Nat
  BY <1>1, LogGrows DEF Acts
<1>3. ASSUME NEW c \in Calls, call'[c].request.tool \in Naming, call'[c].plan = <<>>,
             call'[c].answer = "ok", call'[c].ended = Len(changes')
      PROVE  Attained(objects', call'[c].request)
  <2>1. CASE c # by
    <3>1. call'[c] = call[c]
      BY <1>1, <2>1 DEF Acts
    <3>2. call[c].ended \in 0..Len(changes)
      BY DEF CallsShaped
    <3>3. Len(changes') # Len(changes) + 1
      BY <1>2, <1>3, <3>1, <3>2
    <3>4. UNCHANGED <<objects, changes>>
      BY <1>2, <3>3, LogTells
    <3>5. ReachedFor(changes, objects, call[c])
      BY ReachedKeptIs
    <3> QED
      BY <1>3, <3>1, <3>4, <3>5 DEF ReachedFor
  <2>2. CASE c = by /\ Begin(c)
    <3>1. PICK r \in Requests, routes \in BOOLEAN : Begins(c, r, routes)
      BY <2>2, BeginDoes
    <3>2. r.tool \in Naming /\ Plan(r, Documents(r, routes)) = <<>>
          /\ Plan(r, Documents(r, routes)) # Invalid
      BY <1>3, <3>1 DEF Begins
    <3>3. Plan(r, Documents(r, routes)) \in NamedPlans(r)
      BY <3>2, NamedBegins
    <3> QED
      BY <3>2, <3>3, NamedPlansGo
  <2>3. CASE c = by /\ Works(c)
    <3> DEFINE r == call[c].request
               k == KeyOf(call[c].docs[1])
    <3>1. call'[c].request = r /\ call[c].plan # <<>> /\ Tool(c) = r.tool
      BY <2>3, WorksDoes DEF Keeps, Tool
    <3>2. Tool(c) \in Naming
      BY <1>3, <3>1
    <3>3. k \in DOMAIN objects =>
            k = Target(r.doc) /\ call[c].docs[1].content = r.doc.content
      BY <3>1, <3>2, NamedTarget
    <3>4. CASE EndsIdly(c)
      BY <1>3, <3>1, <3>4 DEF EndsIdly, Attained
    <3>5. CASE Erases(c)
      <4>1. Tool(c) # "resources_scale" /\ k \in DOMAIN objects /\ Erase(c, k)
        BY <1>3, <3>5 DEF Erases
      <4>2. k \notin DOMAIN objects'
        BY <4>1 DEF Erase
      <4> QED
        BY <3>1, <3>3, <4>1, <4>2 DEF Attained
    <3>6. CASE Scales(c)
      <4> DEFINE content == [Content(call[c].read) EXCEPT !.mode = call[c].docs[1].content.mode]
      <4>0. Tool(c) = "resources_scale"
        BY <3>6 DEF Scales
      <4>1. k \in DOMAIN objects /\ Put(c, k, content)
        BY <3>6 DEF Scales
      <4>2. content = Content(content) /\ content.mode = call[c].docs[1].content.mode
        BY DEF Content
      <4> HIDE DEF content
      <4>3. k \in DOMAIN objects' /\ Content(objects'[k]) = content
        BY <4>1, <4>2, PutKeeps
      <4>4. Content(objects'[k]).mode = objects'[k].mode
        BY DEF Content
      <4>5. k = Target(r.doc) /\ objects'[k].mode = r.doc.content.mode
        BY <3>3, <4>1, <4>2, <4>3, <4>4
      <4> HIDE DEF k
      <4> QED
        BY <3>1, <4>0, <4>3, <4>5 DEF Attained
    <3> QED
      BY <2>3, <3>2, <3>4, <3>5, <3>6, NamingWorks
  <2> QED
    BY <1>1, <2>1, <2>2, <2>3
<1> QED
  BY <1>3, ReachedKeptIs DEF ReachedFor

\* What a manifest has stored is there.
AppliedFor(c, log, store, now) ==
  LET docs == now.request.docs IN
  (/\ now.request.tool = "resources_create_or_update" /\ now.answer # "invalid" /\ Apart(docs)
   /\ \A i \in DOMAIN log : i > now.began => log[i].by = c) =>
    \A j \in 1 .. Len(docs) - Len(now.docs) :
      /\ Target(docs[j]) \in DOMAIN store
      /\ Content(store[Target(docs[j])]) = docs[j].content

LEMMA AppliedKeptIs ==
  /\ AppliedKept <=> \A c \in Calls : AppliedFor(c, changes, objects, call[c])
  /\ AppliedKept' <=> \A c \in Calls : AppliedFor(c, changes', objects', call'[c])
<1>1. AppliedKept <=> \A c \in Calls : AppliedFor(c, changes, objects, call[c])
  BY DEF AppliedKept, AppliedFor, Tool, Alone
<1>2. (AppliedKept <=> \A c \in Calls : AppliedFor(c, changes, objects, call[c]))'
  BY <1>1, PTL
<1> QED
  BY <1>1, <1>2

\* How far a manifest under way has got, and where its next document goes.
LEMMA ManifestNext ==
  ASSUME CallsShaped, PlansKept, ManifestsGotTo, NEW c \in Calls, call[c].plan # <<>>,
         Tool(c) = "resources_create_or_update"
  PROVE  LET docs == call[c].docs
             full == call[c].request.docs
             passed == Len(full) - Len(docs)
         IN /\ IsSequence(docs) /\ docs # <<>> /\ Doc(c) = docs[1]
            /\ IsSequence(full) /\ passed \in Nat /\ passed + 1 \in DOMAIN full
            /\ Len(full) - Len(Tail(docs)) = passed + 1
            /\ docs[1].content = Content(docs[1].content)
            /\ OnPath(KeyOf(docs[1])) =>
                 /\ KeyOf(docs[1]) = Target(full[passed + 1])
                 /\ docs[1].content = full[passed + 1].content
<1> DEFINE r == call[c].request
           docs == call[c].docs
           full == call[c].request.docs
           passed == Len(full) - Len(docs)
<1>1. r \in Requests /\ r.tool = "resources_create_or_update"
  BY NoCallIs DEF CallsShaped, Tool
<1>2. /\ call[c].answer = "ok" /\ MapsAndApplies(call[c].plan, docs)
  BY <1>1, PlanKeptIs DEF PlanKept, Applying
<1>3. IsSequence(docs) /\ docs # <<>>
  BY <1>2, ApplyingGoes DEF MapsAndApplies
<1>4. IsSequence(full) /\ \A i \in DOMAIN full : IsDocument(full[i])
  BY <1>1, OperationsAssumption
<1>5. \A routes \in BOOLEAN : Documents(r, routes) = full
  BY <1>1, ApplyingDocuments DEF Applying
<1>6. PICK routes \in BOOLEAN :
        Gone(c, changes, objects, Documents(r, routes), docs, call[c].began, Len(changes))
  BY <1>1, <1>2, ManifestKeptIs DEF ManifestKept, Applying
<1>7. passed \in Nat /\ \A j \in DOMAIN docs : docs[j] \in Placed(full[passed + j])
  BY <1>5, <1>6 DEF Gone
<1> HIDE DEF docs, full
<1>8. /\ Len(docs) \in Nat \ {0} /\ DOMAIN docs = 1..Len(docs)
      /\ Len(full) \in Nat /\ DOMAIN full = 1..Len(full)
      /\ Len(Tail(docs)) = Len(docs) - 1 /\ Head(docs) = docs[1]
  BY <1>3, <1>4, SequenceLen, SequenceTail
<1>9. passed + 1 \in DOMAIN full /\ 1 \in DOMAIN docs /\ Len(full) - Len(Tail(docs)) = passed + 1
  BY <1>7, <1>8
<1>10. docs[1] \in Placed(full[passed + 1]) /\ IsDocument(full[passed + 1])
  BY <1>4, <1>7, <1>9
<1>11. /\ docs[1].content = Content(docs[1].content)
       /\ OnPath(KeyOf(docs[1])) =>
            /\ KeyOf(docs[1]) = Target(full[passed + 1])
            /\ docs[1].content = full[passed + 1].content
  BY <1>10, AtHome, AtTarget
<1>12. Doc(c) = docs[1]
  BY <1>8 DEF Doc, docs
<1> QED
  BY <1>3, <1>4, <1>7, <1>9, <1>11, <1>12 DEF docs, full

LEMMA AppliedHolds ==
  ASSUME CallsShaped, PlansKept, ManifestsGotTo, AppliedKept, [Next]_vars
  PROVE  AppliedKept'
<1>1. PICK by \in Calls \cup {Elsewhere} :
        Acts(by) /\ (by \in Calls => Begin(by) \/ Works(by))
  BY NextActs
<1>2. Logged(by) /\ Len(changes) \in Nat
      /\ \A i \in DOMAIN changes : i \in DOMAIN changes' /\ changes'[i] = changes[i]
  BY <1>1, LogGrows DEF Acts
<1>3. ASSUME NEW c \in Calls
      PROVE  AppliedFor(c, changes', objects', call'[c])
  <2>1. CASE c # by
    <3>1. call'[c] = call[c] /\ call[c].began \in 0..Len(changes)
      BY <1>1, <2>1 DEF Acts, CallsShaped
    <3>2. CASE UNCHANGED <<objects, changes>>
      BY <3>1, <3>2, AppliedKeptIs
    <3>3. CASE Len(changes) + 1 \in DOMAIN changes' /\ changes'[Len(changes) + 1].by = by
      BY <1>2, <2>1, <3>1, <3>3 DEF AppliedFor
    <3> QED
      BY <1>2, <3>2, <3>3, LogTells
  <2>2. CASE c = by /\ Begin(c)
    <3>1. PICK r \in Requests, routes \in BOOLEAN : Begins(c, r, routes)
      BY <2>2, BeginDoes
    <3>2. CASE r.tool = "resources_create_or_update"
      <4>1. Documents(r, routes) = r.docs
        BY <3>2, ApplyingDocuments DEF Applying
      <4>2. call'[c].request = r /\ call'[c].docs = r.docs
        BY <3>1, <4>1 DEF Begins
      <4>3. Len(r.docs) \in Nat
        BY OperationsAssumption, SequenceLen
      <4>4. \A j \in 1 .. Len(r.docs) - Len(r.docs) : FALSE
        BY <4>3
      <4> QED
        BY <4>2, <4>4 DEF AppliedFor
    <3> QED
      BY <3>1, <3>2 DEF Begins, AppliedFor
  <2>3. CASE c = by /\ Works(c)
    <3> DEFINE docs == call[c].docs
               full == call[c].request.docs
               passed == Len(full) - Len(docs)
    <3>1. /\ call'[c].request = call[c].request /\ call'[c].began = call[c].began
          /\ call[c].plan # <<>>
      BY <2>3, WorksDoes DEF Keeps
    <3> SUFFICES ASSUME Tool(c) = "resources_create_or_update", call'[c].answer # "invalid",
                        Apart(full),
                        \A i \in DOMAIN changes' : i > call[c].began => changes'[i].by = c,
                        NEW j \in 1 .. Len(full) - Len(call'[c].docs)
                 PROVE  /\ Target(full[j]) \in DOMAIN objects'
                        /\ Content(objects'[Target(full[j])]) = full[j].content
      BY <3>1 DEF AppliedFor, Tool
    <3>2. /\ IsSequence(docs) /\ docs # <<>> /\ Doc(c) = docs[1]
          /\ IsSequence(full) /\ passed \in Nat /\ passed + 1 \in DOMAIN full
          /\ Len(full) - Len(Tail(docs)) = passed + 1
          /\ docs[1].content = Content(docs[1].content)
          /\ OnPath(KeyOf(docs[1])) =>
               /\ KeyOf(docs[1]) = Target(full[passed + 1])
               /\ docs[1].content = full[passed + 1].content
      BY <3>1, ManifestNext
    <3>3. call[c].answer # "invalid"
      BY <3>1, PlanKeptIs DEF PlanKept, Applying, Tool
    <3>4. \A i \in 1..passed : /\ Target(full[i]) \in DOMAIN objects
                               /\ Content(objects[Target(full[i])]) = full[i].content
      BY <1>2, <3>3, AppliedKeptIs DEF AppliedFor, Tool
    <3>5. DOMAIN full = 1..Len(full) /\ Len(full) \in Nat
      BY <3>2, SequenceLen
    <3> HIDE DEF docs, full, passed
    <3>6. CASE Len(full) - Len(call'[c].docs) = passed /\ UNCHANGED objects
      BY <3>4, <3>6
    <3>7. CASE MapKind(c)
      <4>1. \/ call'[c].docs = docs
            \/ \E e : call'[c].docs = [docs EXCEPT ![1] = e]
        BY <3>7, MapKindDoes DEF docs
      <4>2. Len(call'[c].docs) = Len(docs)
        <5>1. \A e : Len([docs EXCEPT ![1] = e]) = Len(docs)
          BY <3>2, SequenceExcept
        <5> QED
          BY <4>1, <5>1
      <4>3. UNCHANGED objects
        BY <3>7, MapKindDoes DEF serverVars
      <4> QED
        BY <3>6, <4>2, <4>3 DEF passed
    <3>8. CASE Apply(c)
      <4>1. CASE UNCHANGED <<objects, changes>> /\ call'[c].docs = docs
        BY <3>6, <4>1 DEF passed
      <4>2. CASE /\ OnPath(KeyOf(Doc(c))) /\ Put(c, KeyOf(Doc(c)), Doc(c).content)
                 /\ call'[c].docs = Tail(docs)
        <5> DEFINE k == Target(full[passed + 1])
                   content == full[passed + 1].content
        <5>1. Put(c, k, content) /\ content = Content(content)
          BY <3>2, <4>2
        <5> HIDE DEF k, content
        <5>2. /\ k \in DOMAIN objects' /\ Content(objects'[k]) = content
              /\ \A q \in DOMAIN objects :
                   q \in DOMAIN objects' /\ (q # k => objects'[q] = objects[q])
          BY <5>1, PutKeeps
        <5>3. j \in 1..passed + 1
          BY <3>2, <4>2
        <5>4. CASE j = passed + 1
          BY <5>2, <5>4 DEF k, content
        <5>5. CASE j \in 1..passed
          <6>1. Target(full[j]) # k
            BY <3>2, <3>5, <5>5 DEF Apart, k
          <6> QED
            BY <3>4, <5>2, <5>5, <6>1
        <5> QED
          BY <3>2, <5>3, <5>4, <5>5
      <4> QED
        BY <3>8, <4>1, <4>2, ApplyDoes DEF docs
    <3> QED
      BY <2>3, <3>7, <3>8, WorksBy DEF Applying
  <2> QED
    BY <1>1, <2>1, <2>2, <2>3
<1> QED
  BY <1>3, AppliedKeptIs

----
(* Repetitions *)

\* A call that repeats another, of a log and of both calls.
RepeatsIn(c, d, log, was, now) ==
  /\ was # NoCall /\ was.plan = <<>> /\ was.answer = "ok" /\ c # d
  /\ was.request = now.request /\ now.began >= was.ended
  /\ \A i \in DOMAIN log : i > was.began => log[i].by = IF i > was.ended THEN d ELSE c

RepeatKept(c, d, log, was, now) ==
  was.request.tool \in Idempotent /\ Apart(was.request.docs) /\ RepeatsIn(c, d, log, was, now) =>
    /\ was.ended = Len(log)
    /\ was.request.tool = "pods_delete" /\ now.plan # <<>> => Len(now.plan) >= 7

LEMMA RepeatKeptIs ==
  /\ RepeatsKept <=> \A c, d \in Calls : RepeatKept(c, d, changes, call[c], call[d])
  /\ RepeatsKept' <=> \A c, d \in Calls : RepeatKept(c, d, changes', call'[c], call'[d])
<1>1. RepeatsKept <=> \A c, d \in Calls : RepeatKept(c, d, changes, call[c], call[d])
  BY DEF RepeatsKept, RepeatKept, Repeats, RepeatsIn, Tool, Over
<1>2. (RepeatsKept <=> \A c, d \in Calls : RepeatKept(c, d, changes, call[c], call[d]))'
  BY <1>1, PTL
<1> QED
  BY <1>1, <1>2

\* A deletion of a pod that is gone gets no further than to look for it.
LEMMA DeletionAgain ==
  ASSUME CallsShaped, NamedKept, NEW d \in Calls, Works(d), Tool(d) = "pods_delete",
         Len(call[d].plan) >= 7, KeyOf(call[d].docs[1]) \notin DOMAIN objects
  PROVE  /\ UNCHANGED <<objects, changes>>
         /\ call'[d].plan # <<>> => Len(call'[d].plan) >= 7
<1> DEFINE p == call[d].plan
<1>1. p # <<>> /\ Tool(d) \in Naming
  BY WorksDoes DEF Naming
<1>2. /\ p \in NamedPlans(call[d].request) /\ OneDocument(call[d].request, call[d].docs)
      /\ call[d].request.tool = "pods_delete"
  BY <1>1, NamedKeptIs DEF Tool
<1>3. p \in Deletions /\ Doc(d) = call[d].docs[1]
  BY <1>2, OneDocumentIs DEF NamedPlans, Doc
<1>4. Len(p) \in 1..8 /\ Len(Tail(p)) = Len(p) - 1 /\ (Head(p) = "map" => Len(p) \in {2, 8})
  BY <1>3, DeletionGoes
<1>5. \A n \in 1..8 : n >= 7 => n # 2 /\ ~ (n < 7) /\ (n = 8 => n - 1 >= 7)
  OBVIOUS
<1>6. Len(p) # 2 /\ ~ (Len(p) < 7) /\ (Len(p) = 8 => Len(p) - 1 >= 7)
  BY <1>4, <1>5, Zenon
<1>7. MapKind(d) \/ Read(d)
  BY <1>1, <1>6, NamingSteps
<1>8. CASE MapKind(d)
  <2>1. /\ Head(p) = "map" /\ UNCHANGED <<objects, changes>>
        /\ call'[d].plan = <<>> \/ call'[d].plan = Tail(p)
    BY <1>8, MapKindDoes DEF At, serverVars
  <2>2. Len(p) = 8
    BY <1>4, <1>6, <2>1, Zenon
  <2>3. Len(Tail(p)) >= 7
    BY <1>4, <1>6, <2>2, Zenon
  <2> QED
    BY <2>1, <2>3
<1>9. CASE Read(d)
  <2>1. Fails(d)
    BY <1>3, <1>9 DEF Read
  <2> QED
    BY <2>1, FailsDoes
<1> QED
  BY <1>8, <1>9, <1>7

\* A scale that is as it was read, and as it shall be, stays.
LEMMA ScaleAgain ==
  ASSUME CallsShaped, VersionsTell, ReadsKept, NEW d \in Calls, call[d].plan # <<>>, Scales(d),
         Doc(d) = call[d].docs[1],
         objects[KeyOf(call[d].docs[1])].mode = call[d].docs[1].content.mode
  PROVE  UNCHANGED <<objects, changes>>
<1> DEFINE k == KeyOf(call[d].docs[1])
           mode == call[d].docs[1].content.mode
           read == call[d].read
<1>1. /\ k \in DOMAIN objects /\ objects[k].version = read.version
      /\ Put(d, k, [Content(read) EXCEPT !.mode = mode])
      /\ Tool(d) \in Replacing /\ Head(call[d].plan) \in Updates
  BY DEF Scales, Replacing, Updates
<1>2. KeyOf(Head(call[d].docs)) = k
  BY DEF Doc
<1>3. Told(changes, k, read)
  BY <1>1, <1>2, ReadKept
<1>4. Told(changes, k, objects[k])
  BY <1>1, ToldIs
<1> HIDE DEF k, read
<1>5. objects[k] = read
  <2>1. DOMAIN changes = 1..Len(changes) /\ Len(changes) \in Nat
    BY SequenceLen DEF CallsShaped
  <2>2. read.version = 1 => read.version - 1 \notin DOMAIN changes
    BY <2>1
  <2> QED
    BY <1>1, <1>3, <1>4, <2>2 DEF Told
<1>6. objects[k].mode = mode
  BY DEF k
<1>7. [Content(read) EXCEPT !.mode = mode] = Content(objects[k])
  BY <1>5, <1>6 DEF Content
<1> QED
  BY <1>1, <1>7 DEF Put

\* A step of a repetition finds everything done.
LEMMA RepeatWorks ==
  ASSUME CallsShaped, VersionsTell, PlansKept, ReadsKept, ManifestsGotTo, DeletionsKept,
         DeletionsKept', PathsKept, NamedKept, ReachedKept, AppliedKept,
         NEW c \in Calls, NEW d \in Calls, Works(d),
         call[c].request.tool \in Idempotent, Apart(call[c].request.docs),
         RepeatsIn(c, d, changes, call[c], call[d]), call[c].ended = Len(changes),
         call[c].request.tool = "pods_delete" => Len(call[d].plan) >= 7
  PROVE  /\ UNCHANGED <<objects, changes>>
         /\ call[c].request.tool = "pods_delete" /\ call'[d].plan # <<>> =>
              Len(call'[d].plan) >= 7
<1> DEFINE r == call[c].request
           k == KeyOf(call[d].docs[1])
<1>1. /\ call[c].plan = <<>> /\ call[c].answer = "ok"
      /\ r = call[d].request /\ r.tool = Tool(d) /\ r.tool = Tool(c)
      /\ \A i \in DOMAIN changes : i > call[c].began => changes[i].by = c
      /\ call[d].plan # <<>>
  <2>1. DOMAIN changes = 1..Len(changes) /\ Len(changes) \in Nat
    BY SequenceLen DEF CallsShaped
  <2>2. \A i \in DOMAIN changes : ~ (i > call[c].ended)
    BY <2>1
  <2> QED
    BY <2>2, WorksDoes DEF RepeatsIn, Tool
<1>2. CASE r.tool \in Naming
  <2>1. Attained(objects, r)
    BY <1>1, <1>2, ReachedKeptIs DEF ReachedFor
  <2>2. k \in DOMAIN objects => /\ k = Target(r.doc) /\ Doc(d) = call[d].docs[1]
                                /\ call[d].docs[1].content = r.doc.content
    BY <1>1, <1>2, NamedTarget
  <2>3. CASE r.tool = "pods_delete"
    <3>1. k \notin DOMAIN objects
      BY <2>1, <2>2, <2>3 DEF Attained
    <3> QED
      BY <1>1, <2>3, <3>1, DeletionAgain
  <2>4. CASE r.tool # "pods_delete"
    <3>1. CASE EndsIdly(d)
      BY <2>4, <3>1 DEF EndsIdly
    <3>2. CASE Erases(d)
      <4>1. Tool(d) # "resources_scale" /\ k \in DOMAIN objects
        BY <1>1, <1>2, <2>4, <3>2 DEF Erases, Naming
      <4> QED
        BY <1>1, <2>1, <2>2, <4>1 DEF Attained
    <3>3. CASE Scales(d)
      <4>1. k \in DOMAIN objects /\ r.tool = "resources_scale" /\ r.doc.content.mode # None
        BY <1>1, <3>3 DEF Scales
      <4>2. objects[k].mode = call[d].docs[1].content.mode
        BY <2>1, <2>2, <4>1 DEF Attained
      <4> QED
        BY <1>1, <2>2, <2>4, <3>3, <4>1, <4>2, ScaleAgain
    <3> QED
      BY <1>1, <1>2, <3>1, <3>2, <3>3, NamingWorks
  <2> QED
    BY <2>3, <2>4
<1>3. CASE r.tool = "resources_create_or_update"
  <2> DEFINE docs == call[d].docs
             full == r.docs
             passed == Len(full) - Len(docs)
  <2>1. /\ Doc(d) = docs[1] /\ passed \in Nat /\ passed + 1 \in DOMAIN full
        /\ IsSequence(full)
        /\ OnPath(KeyOf(docs[1])) =>
             /\ KeyOf(docs[1]) = Target(full[passed + 1])
             /\ docs[1].content = full[passed + 1].content
    BY <1>1, <1>3, ManifestNext
  <2>2. call[c].docs = <<>>
    BY <1>1, <1>3, PlanKeptIs DEF PlanKept, Applying
  <2>3. \A j \in DOMAIN full : /\ Target(full[j]) \in DOMAIN objects
                               /\ Content(objects[Target(full[j])]) = full[j].content
    <3>1. DOMAIN full = 1..Len(full) /\ Len(full) \in Nat /\ Len(<<>>) = 0
      BY <2>1, SequenceLen
    <3>2. DOMAIN full = 1 .. Len(full) - Len(call[c].docs)
      BY <2>2, <3>1
    <3>3. AppliedFor(c, changes, objects, call[c])
      BY AppliedKeptIs
    <3> HIDE DEF full
    <3>4. \A j \in 1 .. Len(full) - Len(call[c].docs) :
             /\ Target(full[j]) \in DOMAIN objects
             /\ Content(objects[Target(full[j])]) = full[j].content
      BY <1>1, <1>3, <3>3 DEF AppliedFor, full
    <3> QED
      BY <3>2, <3>4
  <2>4. UNCHANGED <<objects, changes>>
    <3>1. CASE MapKind(d)
      BY <3>1, MapKindDoes DEF serverVars
    <3>2. CASE Apply(d)
      <4>1. CASE OnPath(KeyOf(Doc(d))) /\ Put(d, KeyOf(Doc(d)), Doc(d).content)
        <5> DEFINE q == Target(full[passed + 1])
        <5>1. Put(d, q, full[passed + 1].content)
          BY <2>1, <4>1
        <5>2. q \in DOMAIN objects /\ Content(objects[q]) = full[passed + 1].content
          BY <2>1, <2>3
        <5> QED
          BY <5>1, <5>2, Zenon DEF Put
      <4> QED
        BY <3>2, <4>1, ApplyDoes
    <3> QED
      BY <1>1, <1>3, <3>1, <3>2, WorksBy DEF Applying
  <2> QED
    BY <1>3, <2>4
<1> QED
  BY <1>1, <1>2, <1>3 DEF Idempotent, Naming

LEMMA RepeatsHold ==
  ASSUME CallsShaped, VersionsTell, PlansKept, ReadsKept, ManifestsGotTo, HintsOfOne,
         DeletionsKept, DeletionsKept', PathsKept, ChangedSince, NamedKept, ReachedKept,
         AppliedKept, RepeatsKept, [Next]_vars
  PROVE  RepeatsKept'
<1>1. PICK by \in Calls \cup {Elsewhere} :
        Acts(by) /\ (by \in Calls => Begin(by) \/ Works(by))
  BY NextActs
<1>2. /\ Logged(by) /\ Len(changes) \in Nat /\ Len(changes') \in Nat
      /\ DOMAIN changes = 1..Len(changes)
      /\ Len(changes') \in {Len(changes), Len(changes) + 1}
      /\ \A i \in DOMAIN changes : i \in DOMAIN changes' /\ changes'[i] = changes[i]
  BY <1>1, LogGrows DEF Acts
<1>3. ASSUME NEW c \in Calls, NEW d \in Calls, call'[c].request.tool \in Idempotent,
             Apart(call'[c].request.docs), RepeatsIn(c, d, changes', call'[c], call'[d])
      PROVE  /\ call'[c].ended = Len(changes')
             /\ call'[c].request.tool = "pods_delete" /\ call'[d].plan # <<>> =>
                  Len(call'[d].plan) >= 7
  <2>1. /\ call'[c] # NoCall /\ call'[c].plan = <<>> /\ call'[c].answer = "ok" /\ c # d
        /\ call'[c].request = call'[d].request /\ call'[d].began >= call'[c].ended
        /\ \A i \in DOMAIN changes' :
             i > call'[c].began => changes'[i].by = IF i > call'[c].ended THEN d ELSE c
    BY <1>3 DEF RepeatsIn
  <2>2. /\ call[d].began \in 0..Len(changes) /\ call[c].began \in 0..Len(changes)
        /\ call[c].ended \in 0..Len(changes)
    BY DEF CallsShaped
  <2>3. CASE c = by /\ Begin(c)
    <3>1. PICK r \in Requests, routes \in BOOLEAN : Begins(c, r, routes)
      BY <2>3, BeginDoes
    <3>2. changes' = changes
      BY <2>3, BeginDoes DEF serverVars
    <3>3. call'[c].ended = Len(changes')
      BY <2>1, <3>1, <3>2 DEF Begins
    <3>4. /\ call'[c].request = r /\ Plan(r, Documents(r, routes)) = <<>>
          /\ Plan(r, Documents(r, routes)) # Invalid
      BY <2>1, <3>1 DEF Begins
    <3>5. r.tool # "pods_delete"
      BY <3>4, NamedBegins, NamedPlansGo DEF Naming
    <3> QED
      BY <3>3, <3>4, <3>5
  <2>4. CASE c = by /\ Works(c)
    <3>1. /\ call'[c].ended = Len(changes') /\ call'[d] = call[d]
          /\ call'[c].request = call[c].request
      BY <2>1, <2>4, WorksDoes DEF Keeps
    <3>2. Len(changes') = Len(changes)
      BY <1>2, <2>1, <2>2, <3>1
    <3>3. Tool(c) # "pods_delete"
      <4> SUFFICES ASSUME Tool(c) = "pods_delete" PROVE FALSE
        OBVIOUS
      <4>1. ~ EndsIdly(c) /\ ~ Scales(c)
        BY <2>1 DEF EndsIdly, Scales
      <4>2. \A k \in DOMAIN objects : ~ Erase(c, k)
        <5> TAKE k \in DOMAIN objects
        <5> SUFFICES ASSUME Erase(c, k) PROVE FALSE
          OBVIOUS
        <5>1. Len(Append(changes, Change(c, k, objects[k], NoObject))) = Len(changes) + 1
          BY SequenceAppend DEF CallsShaped
        <5> QED
          BY <1>2, <3>2, <5>1 DEF Erase
      <4> QED
        BY <2>4, <4>1, <4>2, NamingWorks DEF Erases, Naming
    <3> QED
      BY <3>1, <3>3 DEF Tool
  <2>5. CASE c # by
    <3>1. call'[c] = call[c]
      BY <1>1, <2>5 DEF Acts
    <3>2. /\ call[c].began <= call[c].ended
          /\ \A i \in DOMAIN changes :
               i > call[c].began => changes[i].by = IF i > call[c].ended THEN d ELSE c
      BY <1>2, <2>1, <3>1 DEF ChangedSince, Over
    <3>3. CASE d = by /\ Begin(d)
      <4>1. call[d] = NoCall /\ changes' = changes
        BY <3>3, BeginDoes DEF serverVars
      <4>2. \A i \in DOMAIN changes : changes[i].by # d
        BY <4>1, NoCallIs, Classes DEF HintsOfOne, ChangesBy, Tool
      <4>3. call[c].ended = Len(changes)
        <5>1. CASE call[c].ended < Len(changes)
          <6>1. Len(changes) \in DOMAIN changes /\ Len(changes) > call[c].began
            BY <1>2, <2>2, <3>2, <5>1
          <6> QED
            BY <3>2, <4>2, <5>1, <6>1
        <5> QED
          BY <2>2, <5>1
      <4>4. PICK r \in Requests, routes \in BOOLEAN : Begins(d, r, routes)
        BY <3>3, BeginDoes
      <4>5. r.tool = "pods_delete" /\ call'[d].plan # <<>> => Len(call'[d].plan) = 8
        BY <4>4, NamedBegins DEF Begins, Naming
      <4>6. call'[d].request = r
        BY <4>4 DEF Begins
      <4>7. call'[c].request.tool = "pods_delete" /\ call'[d].plan # <<>> =>
              Len(call'[d].plan) >= 7
        <5>1. 8 >= 7
          OBVIOUS
        <5> QED
          BY <2>1, <4>5, <4>6, <5>1, Zenon
      <4> QED
        BY <3>1, <4>1, <4>3, <4>7
    <3>4. ASSUME call'[d].request = call[d].request, call'[d].began = call[d].began
          PROVE  /\ RepeatsIn(c, d, changes, call[c], call[d])
                 /\ call[c].ended = Len(changes)
                 /\ call[c].request.tool = "pods_delete" /\ call[d].plan # <<>> =>
                      Len(call[d].plan) >= 7
      <4>1. RepeatsIn(c, d, changes, call[c], call[d])
        BY <2>1, <3>1, <3>2, <3>4 DEF RepeatsIn
      <4>2. RepeatKept(c, d, changes, call[c], call[d])
        BY RepeatKeptIs
      <4> QED
        BY <1>3, <3>1, <4>1, <4>2 DEF RepeatKept
    <3>5. CASE d = by /\ Works(d)
      <4>1. /\ call'[d].request = call[d].request /\ call'[d].began = call[d].began
            /\ call[d].plan # <<>>
        BY <3>5, WorksDoes DEF Keeps
      <4>2. /\ RepeatsIn(c, d, changes, call[c], call[d])
            /\ call[c].ended = Len(changes)
            /\ call[c].request.tool = "pods_delete" => Len(call[d].plan) >= 7
        BY <3>4, <4>1
      <4>3. /\ UNCHANGED <<objects, changes>>
            /\ call[c].request.tool = "pods_delete" /\ call'[d].plan # <<>> =>
                 Len(call'[d].plan) >= 7
        BY <1>3, <3>1, <3>5, <4>2, RepeatWorks
      <4> QED
        BY <3>1, <4>2, <4>3
    <3>6. CASE d # by
      <4>1. call'[d] = call[d]
        BY <1>1, <3>6 DEF Acts
      <4>2. UNCHANGED <<objects, changes>>
        <5>1. CASE Len(changes) + 1 \in DOMAIN changes' /\ changes'[Len(changes) + 1].by = by
          <6>1. Len(changes) + 1 > call'[c].began
            BY <1>2, <2>2, <3>1
          <6>2. by = IF Len(changes) + 1 > call'[c].ended THEN d ELSE c
            BY <2>1, <5>1, <6>1
          <6> QED
            BY <2>5, <3>6, <6>2
        <5> QED
          BY <1>2, <5>1, LogTells
      <4> QED
        BY <3>1, <3>4, <4>1, <4>2
    <3> QED
      BY <1>1, <3>3, <3>5, <3>6
  <2> QED
    BY <1>1, <2>3, <2>4, <2>5
<1> QED
  BY <1>3, RepeatKeptIs DEF RepeatKept

\* The tools keep what their annotations say.
LEMMA RepeatsIdle == OperationsInv => HintsHold
<1> SUFFICES ASSUME OperationsInv, NEW c \in Calls, Tool(c) \in Idempotent,
                    Apart(call[c].request.docs), NEW d \in Calls, Repeats(c, d)
             PROVE  ChangesBy(d) = {}
  BY DEF HintsHold, OperationsInv, HintsOfOne
<1>1. call[c].ended = Len(changes) /\ (\A i \in ChangesBy(d) : i > call[d].began)
  BY DEF OperationsInv, RepeatsKept, ChangedSince
<1>2. call[d].began >= call[c].ended /\ call[d].began \in 0..Len(changes)
  BY DEF Repeats, OperationsInv, CallsShaped
<1>3. DOMAIN changes = 1..Len(changes) /\ Len(changes) \in Nat
  BY SequenceLen DEF OperationsInv, CallsShaped
<1>4. \A i \in DOMAIN changes : ~ (i > call[d].began)
  BY <1>1, <1>2, <1>3
<1> QED
  BY <1>1, <1>4 DEF ChangesBy

----
(* Lists and what is filtered out of them.                                 *)

\* The list made of the first n elements of s.
IsKept(f, s, T, n) ==
  f = [i \in 0 .. n |-> IF i = 0 THEN <<>>
                        ELSE IF s[i] \in T THEN Append(f[i - 1], s[i]) ELSE f[i - 1]]

LEMMA KeptExists ==
  ASSUME NEW s, NEW T, NEW n \in Nat
  PROVE  \E f : IsKept(f, s, T, n)
<1> DEFINE Bad == {m \in Nat : ~ \E f : IsKept(f, s, T, m)}
<1>1. SUFFICES ASSUME Bad # {}
               PROVE  FALSE
  OBVIOUS
<1>2. PICK m \in Bad : \A k \in Bad : m <= k
  <2>1. Bad \subseteq Nat
    OBVIOUS
  <2> HIDE DEF Bad
  <2> QED
    BY <1>1, <2>1, Least
<1>3. m # 0
  <2>1. IsKept([i \in 0 .. 0 |-> <<>>], s, T, 0)
    BY DEF IsKept
  <2> QED
    BY <2>1
<1>4. m \in Nat /\ m - 1 \in Nat /\ m - 1 \notin Bad
  BY <1>2, <1>3
<1>5. PICK f : IsKept(f, s, T, m - 1)
  BY <1>4
<1> DEFINE g == [i \in 0 .. m |-> IF i < m THEN f[i]
                                  ELSE IF s[m] \in T THEN Append(f[m - 1], s[m]) ELSE f[m - 1]]
<1>6. IsKept(g, s, T, m)
  <2>1. ASSUME NEW i \in 0 .. m
        PROVE  g[i] = IF i = 0 THEN <<>>
                      ELSE IF s[i] \in T THEN Append(g[i - 1], s[i]) ELSE g[i - 1]
    <3>1. CASE i = m
      BY <1>3, <1>4, <3>1
    <3>2. CASE i # m
      <4>1. i \in 0 .. m - 1 /\ i < m
        BY <1>4, <3>2
      <4>2. f[i] = IF i = 0 THEN <<>>
                   ELSE IF s[i] \in T THEN Append(f[i - 1], s[i]) ELSE f[i - 1]
        BY <1>5, <4>1 DEF IsKept
      <4>3. i # 0 => g[i - 1] = f[i - 1]
        BY <1>4, <4>1
      <4> QED
        BY <4>1, <4>2, <4>3
    <3> QED
      BY <3>1, <3>2
  <2> HIDE DEF g
  <2>2. g = [i \in 0 .. m |-> g[i]]
    BY DEF g
  <2> QED
    BY <2>1, <2>2 DEF IsKept
<1> QED
  BY <1>2, <1>6

LEMMA FilteredIsKept ==
  ASSUME NEW s, NEW T, Len(s) \in Nat
  PROVE  \E f : IsKept(f, s, T, Len(s)) /\ Filtered(s, T) = f[Len(s)]
<1>1. \E f : IsKept(f, s, T, Len(s))
  BY KeptExists
<1> QED
  BY <1>1 DEF Filtered, IsKept

\* Where a list has an element of a set.
Places(s, T) == {i \in DOMAIN s : s[i] \in T}

\* What is filtered out of a list is of the list and of the set, and as much as
\* the list has of it.
LEMMA FilteredWhat ==
  ASSUME NEW S, NEW s \in Seq(S), NEW T
  PROVE  /\ Filtered(s, T) \in Seq(S \cap T)
         /\ IsFiniteSet(Places(s, T)) /\ Len(Filtered(s, T)) = Cardinality(Places(s, T))
<1>1. Len(s) \in Nat /\ DOMAIN s = 1 .. Len(s) /\ \A i \in 1 .. Len(s) : s[i] \in S
  BY LenProperties, ElementOfSeq
<1>2. PICK f : IsKept(f, s, T, Len(s)) /\ Filtered(s, T) = f[Len(s)]
  BY <1>1, FilteredIsKept
<1> DEFINE FoundAt(n) == {i \in 1 .. n : s[i] \in T}
<1> DEFINE Right(n) == /\ f[n] \in Seq(S \cap T)
                       /\ IsFiniteSet(FoundAt(n)) /\ Len(f[n]) = Cardinality(FoundAt(n))
<1> DEFINE Wrong == {n \in 0 .. Len(s) : ~ Right(n)}
<1>3. Right(0)
  <2>1. f[0] = <<>>
    BY <1>1, <1>2 DEF IsKept
  <2>2. FoundAt(0) = {}
    OBVIOUS
  <2> QED
    BY <2>1, <2>2, EmptySeq, FS_EmptySet
<1>4. ASSUME NEW n \in 0 .. Len(s), n # 0, Right(n - 1)
      PROVE  Right(n)
  <2>1. f[n] = IF s[n] \in T THEN Append(f[n - 1], s[n]) ELSE f[n - 1]
    BY <1>2, <1>4 DEF IsKept
  <2>2. n \in 1 .. Len(s) /\ s[n] \in S /\ n \notin FoundAt(n - 1)
    BY <1>1, <1>4
  <2>3. CASE s[n] \in T
    <3>1. FoundAt(n) = FoundAt(n - 1) \cup {n}
      BY <1>1, <2>2, <2>3
    <3>2. f[n] = Append(f[n - 1], s[n]) /\ f[n - 1] \in Seq(S \cap T) /\ s[n] \in S \cap T
      BY <1>4, <2>1, <2>2, <2>3
    <3>3. f[n] \in Seq(S \cap T) /\ Len(f[n]) = Len(f[n - 1]) + 1
      BY <3>2, AppendProperties
    <3>4. IsFiniteSet(FoundAt(n)) /\ Cardinality(FoundAt(n)) = Cardinality(FoundAt(n - 1)) + 1
      <4> HIDE DEF FoundAt
      <4> QED
        BY <1>4, <2>2, <3>1, FS_AddElement
    <3> QED
      BY <1>4, <3>3, <3>4
  <2>4. CASE s[n] \notin T
    <3>1. FoundAt(n) = FoundAt(n - 1)
      BY <1>1, <2>2, <2>4
    <3> QED
      BY <1>4, <2>1, <2>4, <3>1
  <2> QED
    BY <2>3, <2>4
<1>5. Wrong = {}
  <2> SUFFICES ASSUME Wrong # {}
               PROVE  FALSE
    OBVIOUS
  <2> HIDE DEF Right
  <2>1. Wrong \in SUBSET Nat
    OBVIOUS
  <2>2. PICK n \in Wrong : \A k \in Wrong : n <= k
    <3> HIDE DEF Wrong
    <3> QED
      BY <2>1, Least
  <2>3. n # 0
    BY <1>3
  <2>4. n - 1 \in 0 .. Len(s) /\ n - 1 \notin Wrong
    BY <1>1, <2>2, <2>3
  <2> QED
    BY <1>4, <2>3, <2>4
<1>6. Right(Len(s))
  <2> HIDE DEF Right
  <2>1. Len(s) \in 0 .. Len(s)
    BY <1>1
  <2> QED
    BY <1>5, <2>1
<1>7. FoundAt(Len(s)) = Places(s, T)
  BY <1>1 DEF Places
<1> QED
  BY <1>2, <1>6, <1>7

\* Two sets that share nothing and hold all of a list take all of it.
LEMMA FilteredApart ==
  ASSUME NEW S, NEW s \in Seq(S), NEW T, NEW U,
         \A i \in DOMAIN s : s[i] \in T \cup U, T \cap U = {}
  PROVE  Len(Filtered(s, T)) + Len(Filtered(s, U)) = Len(s)
<1>1. Len(s) \in Nat /\ DOMAIN s = 1 .. Len(s) /\ \A i \in 1 .. Len(s) : s[i] \in S
  BY LenProperties, ElementOfSeq
<1>2. /\ IsFiniteSet(Places(s, T)) /\ Len(Filtered(s, T)) = Cardinality(Places(s, T))
      /\ IsFiniteSet(Places(s, U)) /\ Len(Filtered(s, U)) = Cardinality(Places(s, U))
  BY FilteredWhat
<1>3. Places(s, T) \cup Places(s, U) = 1 .. Len(s) /\ Places(s, T) \cap Places(s, U) = {}
  BY <1>1 DEF Places
<1>4. Cardinality(1 .. Len(s)) = Len(s)
  <2>1. 1 \in Int /\ Len(s) \in Int
    BY <1>1
  <2>2. Cardinality(1 .. Len(s)) = IF 1 > Len(s) THEN 0 ELSE Len(s) - 1 + 1
    BY <2>1, FS_Interval, Zenon
  <2> QED
    BY <1>1, <2>2
<1>5. Cardinality(Places(s, T)) \in Nat /\ Cardinality(Places(s, U)) \in Nat
  BY <1>2, FS_CardinalityType
<1>6. Cardinality(Places(s, T) \cup Places(s, U))
        = Cardinality(Places(s, T)) + Cardinality(Places(s, U)) - Cardinality(Places(s, T) \cap Places(s, U))
  BY <1>2, FS_Union
<1>7. Cardinality({}) = 0
  BY FS_EmptySet
<1>8. Len(s) = Cardinality(Places(s, T)) + Cardinality(Places(s, U)) - 0
  BY <1>3, <1>4, <1>6, <1>7, Zenon
<1> QED
  BY <1>1, <1>2, <1>5, <1>8

----
(* vm_create and the lists it chooses from *)

\* What of a list is in the set is not left out.
LEMMA FilteredAll ==
  ASSUME NEW S, NEW s \in Seq(S), NEW T, NEW m \in DOMAIN s, s[m] \in T
  PROVE  \E j \in DOMAIN Filtered(s, T) : Filtered(s, T)[j] = s[m]
<1>1. Len(s) \in Nat /\ DOMAIN s = 1 .. Len(s) /\ \A i \in 1 .. Len(s) : s[i] \in S
  BY LenProperties, ElementOfSeq
<1>2. PICK f : IsKept(f, s, T, Len(s)) /\ Filtered(s, T) = f[Len(s)]
  BY <1>1, FilteredIsKept
<1> DEFINE Right(n) == /\ f[n] \in Seq(S)
                       /\ m <= n => \E j \in DOMAIN f[n] : f[n][j] = s[m]
           Wrong == {n \in 0 .. Len(s) : ~ Right(n)}
<1>3. Right(0)
  <2>1. f[0] = <<>>
    BY <1>1, <1>2 DEF IsKept
  <2>2. ~ (m <= 0)
    BY <1>1
  <2> QED
    BY <2>1, <2>2
<1>4. ASSUME NEW n \in 0 .. Len(s), n # 0, Right(n - 1)
      PROVE  Right(n)
  <2>1. f[n] = IF s[n] \in T THEN Append(f[n - 1], s[n]) ELSE f[n - 1]
    BY <1>2, <1>4 DEF IsKept
  <2>2. n \in 1 .. Len(s) /\ s[n] \in S /\ f[n - 1] \in Seq(S)
    BY <1>1, <1>4
  <2>3. CASE s[n] \in T
    <3> DEFINE g == f[n - 1]
    <3>1. f[n] = Append(g, s[n])
      BY <2>1, <2>3
    <3>2. Len(g) \in Nat /\ DOMAIN g = 1 .. Len(g)
      BY <2>2, LenProperties
    <3>3. /\ Append(g, s[n]) \in Seq(S) /\ Len(Append(g, s[n])) = Len(g) + 1
          /\ \A i \in 1 .. Len(g) : Append(g, s[n])[i] = g[i]
          /\ Append(g, s[n])[Len(g) + 1] = s[n]
      BY <2>2, AppendProperties
    <3>4. DOMAIN Append(g, s[n]) = 1 .. Len(g) + 1
      BY <3>3, LenProperties
    <3>5. CASE m = n
      <4>1. Len(g) + 1 \in DOMAIN Append(g, s[n])
        BY <3>2, <3>4
      <4> QED
        BY <3>1, <3>3, <3>5, <4>1
    <3>6. CASE m # n
      <4>1. m <= n => m <= n - 1
        BY <1>1, <2>2, <3>6
      <4>2. m <= n => \E j \in DOMAIN g : g[j] = s[m]
        BY <1>4, <4>1
      <4> QED
        BY <3>1, <3>2, <3>3, <3>4, <4>2
    <3> QED
      BY <3>5, <3>6
  <2>4. CASE s[n] \notin T
    <3>1. m # n
      BY <2>4
    <3>2. m <= n => m <= n - 1
      BY <1>1, <2>2, <3>1
    <3> QED
      BY <1>4, <2>1, <2>4, <3>2
  <2> QED
    BY <2>3, <2>4
<1>5. Wrong = {}
  <2> SUFFICES ASSUME Wrong # {}
               PROVE  FALSE
    OBVIOUS
  <2> HIDE DEF Right
  <2>1. Wrong \in SUBSET Nat
    OBVIOUS
  <2>2. PICK n \in Wrong : \A k \in Wrong : n <= k
    <3> HIDE DEF Wrong
    <3> QED
      BY <2>1, Least
  <2>3. n # 0
    BY <1>3
  <2>4. n - 1 \in 0 .. Len(s) /\ n - 1 \notin Wrong
    BY <1>1, <2>2, <2>3
  <2> QED
    BY <1>4, <2>3, <2>4
<1>6. Right(Len(s))
  <2> HIDE DEF Right
  <2>1. Len(s) \in 0 .. Len(s)
    BY <1>1
  <2> QED
    BY <1>5, <2>1
<1> QED
  BY <1>1, <1>2, <1>6

\* A list and the set of its elements.
Has(s, e) == \E i \in DOMAIN s : s[i] = e

LEMMA FilteredHas ==
  ASSUME NEW s, IsSequence(s), NEW T
  PROVE  /\ IsSequence(Filtered(s, T))
         /\ \A e : Has(Filtered(s, T), e) <=> Has(s, e) /\ e \in T
<1> DEFINE S == {s[i] : i \in DOMAIN s}
           t == Filtered(s, T)
<1>1. s \in Seq(S)
  BY DEF IsSequence
<1>2. \A e : e \in S <=> Has(s, e)
  BY DEF Has
<1> HIDE DEF S, t
<1>3. t \in Seq(S \cap T)
  BY <1>1, FilteredWhat DEF t
<1>4. IsSequence(t)
  BY <1>3, SequenceOfOwn
<1>5. \A i \in DOMAIN t : t[i] \in S \cap T
  BY <1>3, LenProperties, ElementOfSeq
<1>6. \A m \in DOMAIN s : s[m] \in T => Has(t, s[m])
  BY <1>1, FilteredAll DEF Has, t
<1> QED
  BY <1>2, <1>4, <1>5, <1>6 DEF Has, t

LEMMA ConcatHas ==
  ASSUME NEW s, IsSequence(s), NEW t, IsSequence(t)
  PROVE  /\ IsSequence(s \o t)
         /\ \A e : Has(s \o t, e) <=> Has(s, e) \/ Has(t, e)
<1> DEFINE S == {s[i] : i \in DOMAIN s} \cup {t[i] : i \in DOMAIN t}
<1>1. s \in Seq(S) /\ t \in Seq(S)
  BY SeqMonotonic DEF IsSequence
<1> HIDE DEF S
<1>2. /\ s \o t \in Seq(S) /\ Len(s \o t) = Len(s) + Len(t)
      /\ \A i \in 1 .. Len(s) + Len(t) :
           (s \o t)[i] = IF i <= Len(s) THEN s[i] ELSE t[i - Len(s)]
  BY <1>1, ConcatProperties
<1>3. /\ Len(s) \in Nat /\ DOMAIN s = 1 .. Len(s)
      /\ Len(t) \in Nat /\ DOMAIN t = 1 .. Len(t)
      /\ DOMAIN (s \o t) = 1 .. Len(s) + Len(t)
  BY <1>1, <1>2, LenProperties
<1>4. IsSequence(s \o t)
  BY <1>2, SequenceOfOwn
<1>5. ASSUME NEW e, Has(s \o t, e) PROVE Has(s, e) \/ Has(t, e)
  <2>1. PICK i \in 1 .. Len(s) + Len(t) : (s \o t)[i] = e
    BY <1>3, <1>5 DEF Has
  <2>2. CASE i <= Len(s)
    BY <1>2, <1>3, <2>1, <2>2 DEF Has
  <2>3. CASE ~ (i <= Len(s))
    <3>1. i - Len(s) \in DOMAIN t /\ t[i - Len(s)] = e
      BY <1>2, <1>3, <2>1, <2>3
    <3> QED
      BY <3>1 DEF Has
  <2> QED
    BY <2>2, <2>3
<1>6. ASSUME NEW e, Has(s, e) PROVE Has(s \o t, e)
  <2>1. PICK i \in DOMAIN s : s[i] = e
    BY <1>6 DEF Has
  <2>2. i \in 1 .. Len(s) + Len(t) /\ i <= Len(s)
    BY <1>3
  <2>3. (s \o t)[i] = e
    BY <1>2, <2>1, <2>2
  <2> QED
    BY <1>3, <2>2, <2>3 DEF Has
<1>7. ASSUME NEW e, Has(t, e) PROVE Has(s \o t, e)
  <2>1. PICK i \in DOMAIN t : t[i] = e
    BY <1>7 DEF Has
  <2>2. /\ i + Len(s) \in 1 .. Len(s) + Len(t) /\ ~ (i + Len(s) <= Len(s))
        /\ (i + Len(s)) - Len(s) = i
    BY <1>3
  <2>3. (s \o t)[i + Len(s)] = e
    BY <1>2, <2>1, <2>2
  <2> QED
    BY <1>3, <2>2, <2>3 DEF Has
<1> QED
  BY <1>4, <1>5, <1>6, <1>7

LEMMA HeadHas ==
  ASSUME NEW s, IsSequence(s)
  PROVE  /\ s # <<>> => Has(s, Head(s))
         /\ s = <<>> <=> \A e : ~ Has(s, e)
<1>1. Len(s) \in Nat /\ DOMAIN s = 1 .. Len(s) /\ (s = <<>> <=> Len(s) = 0)
  BY SequenceLen
<1>2. s # <<>> => Head(s) = s[1] /\ 1 \in DOMAIN s
  BY <1>1, SequenceTail
<1>3. s # <<>> => Has(s, Head(s))
  BY <1>2 DEF Has
<1>4. s = <<>> => DOMAIN s = {}
  BY <1>1
<1> QED
  BY <1>3, <1>4 DEF Has

\* What two lists that were both answered have of the items.
LEMMA SearchedHas ==
  ASSUME NEW items, IsSequence(items), NEW ns, NEW scoped
  PROVE  /\ IsSequence(SearchScoped(items, ns, scoped))
         /\ \A e : Has(SearchScoped(items, ns, scoped), e) => Has(items, e)
         /\ {"cluster", "namespaced"} \subseteq scoped =>
              \A e : Has(SearchScoped(items, ns, scoped), e) <=> Has(items, e) /\ e.ns \in {None, ns}
<1> DEFINE T == {i \in ToSet(items) : i.ns = None /\ "cluster" \in scoped}
           U == {i \in ToSet(items) : i.ns = ns /\ "namespaced" \in scoped}
<1>1. \A e : e \in ToSet(items) <=> Has(items, e)
  BY DEF ToSet, Has
<1>2. /\ \A e : Has(items, e) /\ e \in T <=> Has(items, e) /\ e.ns = None /\ "cluster" \in scoped
      /\ \A e : Has(items, e) /\ e \in U <=> Has(items, e) /\ e.ns = ns /\ "namespaced" \in scoped
  BY <1>1
<1>3. SearchScoped(items, ns, scoped) = Filtered(items, T) \o Filtered(items, U)
  BY DEF SearchScoped
<1> HIDE DEF T, U
<1>4. /\ IsSequence(Filtered(items, T)) /\ IsSequence(Filtered(items, U))
      /\ \A e : Has(Filtered(items, T), e) <=> Has(items, e) /\ e \in T
      /\ \A e : Has(Filtered(items, U), e) <=> Has(items, e) /\ e \in U
  BY FilteredHas
<1>5. /\ IsSequence(SearchScoped(items, ns, scoped))
      /\ \A e : Has(SearchScoped(items, ns, scoped), e) <=>
           Has(Filtered(items, T), e) \/ Has(Filtered(items, U), e)
  BY <1>3, <1>4, ConcatHas
<1> QED
  BY <1>2, <1>4, <1>5

LEMMA BothAnswered ==
  ASSUME NEW scoped \in SUBSET {"cluster", "namespaced"}, Cardinality(scoped) = 2
  PROVE  {"cluster", "namespaced"} \subseteq scoped
<1>1. Cardinality({}) = 0 /\ Cardinality({"cluster"}) = 1 /\ Cardinality({"namespaced"}) = 1
  BY FS_EmptySet, FS_Singleton
<1>2. scoped # {} /\ scoped # {"cluster"} /\ scoped # {"namespaced"}
  BY <1>1
<1> QED
  BY <1>2

LEMMA ByNameHas ==
  ASSUME NEW items, IsSequence(items), NEW name
  PROVE  ByName(items, name).name = name
<1> DEFINE T == {i \in ToSet(items) : i.name = name}
           found == First(items, T)
<1>1. ByName(items, name) = IF found = Nothing THEN [name |-> name, ns |-> None] ELSE found
  BY DEF ByName
<1>2. \A e \in T : e.name = name
  OBVIOUS
<1> HIDE DEF T
<1>3. IsSequence(Filtered(items, T)) /\ \A e : Has(Filtered(items, T), e) => e \in T
  BY FilteredHas
<1>4. Filtered(items, T) # <<>> => found \in T
  BY <1>3, HeadHas DEF First
<1>5. Filtered(items, T) = <<>> => found = Nothing
  BY DEF First
<1> HIDE DEF found
<1> QED
  BY <1>1, <1>2, <1>4, <1>5

\* The instance type that is matched is one of the size asked for, and one that
\* suits the performance if there is any.
LEMMA MatchSuits ==
  ASSUME NEW types, IsSequence(types), NEW size, NEW performance
  PROVE  LET Sized(e) == Has(types, e) /\ Within(size, e.name)
             Suits(e) == performance \in {e.family, e.class}
             matched == MatchInstancetypeBySize(types, size, performance)
         IN \/ \A e : ~ Sized(e)
            \/ \E e : Sized(e) /\ e.name = matched /\ ((\E x : Sized(x) /\ Suits(x)) => Suits(e))
<1> DEFINE T == {t \in ToSet(types) : Within(size, t.name)}
           sized == FilterInstancetypesBySize(types, size)
           F == {t \in ToSet(sized) : t.family = performance}
           C == {t \in ToSet(sized) : t.class = performance}
           family == Filtered(sized, F)
           class == Filtered(sized, C)
           matched == MatchInstancetypeBySize(types, size, performance)
<1>1. \A s, e : e \in ToSet(s) <=> Has(s, e)
  BY DEF ToSet, Has
<1>2. \A e : e \in T <=> Has(types, e) /\ Within(size, e.name)
  BY <1>1
<1>3. sized = Filtered(types, T)
  BY DEF FilterInstancetypesBySize
<1> HIDE DEF T
<1>4. IsSequence(sized) /\ \A e : Has(sized, e) <=> Has(types, e) /\ Within(size, e.name)
  BY <1>2, <1>3, FilteredHas
<1> HIDE DEF sized
<1>5. /\ \A e : e \in F <=> Has(sized, e) /\ e.family = performance
      /\ \A e : e \in C <=> Has(sized, e) /\ e.class = performance
  BY <1>1
<1>6. matched = CASE sized = <<>> -> None
                  [] sized # <<>> /\ family # <<>> -> Head(family).name
                  [] sized # <<>> /\ family = <<>> /\ class # <<>> -> Head(class).name
                  [] OTHER -> Head(sized).name
  BY DEF MatchInstancetypeBySize, sized
<1> HIDE DEF F, C, matched
<1>7. /\ IsSequence(family) /\ \A e : Has(family, e) <=> Has(sized, e) /\ e \in F
      /\ IsSequence(class) /\ \A e : Has(class, e) <=> Has(sized, e) /\ e \in C
  BY <1>4, FilteredHas
<1> HIDE DEF family, class
<1>8. /\ sized # <<>> => Has(sized, Head(sized))
      /\ sized = <<>> => \A e : ~ Has(sized, e)
      /\ family # <<>> => Has(family, Head(family))
      /\ family = <<>> => \A e : ~ Has(family, e)
      /\ class # <<>> => Has(class, Head(class))
      /\ class = <<>> => \A e : ~ Has(class, e)
  BY <1>4, <1>7, HeadHas
<1>9. CASE sized = <<>>
  BY <1>4, <1>8, <1>9
<1>10. CASE sized # <<>> /\ family # <<>>
  <2>1. matched = Head(family).name
    BY <1>6, <1>10
  <2> QED
    BY <1>4, <1>5, <1>7, <1>8, <1>10, <2>1 DEF matched
<1>11. CASE sized # <<>> /\ family = <<>> /\ class # <<>>
  <2>1. matched = Head(class).name
    BY <1>6, <1>11
  <2> QED
    BY <1>4, <1>5, <1>7, <1>8, <1>11, <2>1 DEF matched
<1>12. CASE sized # <<>> /\ family = <<>> /\ class = <<>>
  <2>1. matched = Head(sized).name
    BY <1>6, <1>12
  <2>2. \A x : Has(sized, x) => performance \notin {x.family, x.class}
    BY <1>5, <1>7, <1>8, <1>12
  <2> QED
    BY <1>4, <1>8, <1>12, <2>1, <2>2 DEF matched
<1> QED
  BY <1>9, <1>10, <1>11, <1>12

LEMMA ResolvedNames ==
  ASSUME NEW types, IsSequence(types), NEW explicit, NEW size, NEW performance, NEW source,
         \A e : Has(types, e) => e.name # None
  PROVE  LET resolved == ResolveInstancetype(types, explicit, size, performance, source)
             Sized(e) == Has(types, e) /\ Within(size, e.name)
             Suits(e) == performance \in {e.family, e.class}
         IN /\ explicit # None => resolved.name = explicit
            /\ explicit = None /\ size # None =>
                 \/ \A e : ~ Sized(e)
                 \/ \E e : /\ Sized(e) /\ e.name = resolved.name
                           /\ (\E x : Sized(x) /\ Suits(x)) => Suits(e)
<1> DEFINE matched == MatchInstancetypeBySize(types, size, performance)
           resolved == ResolveInstancetype(types, explicit, size, performance, source)
           Sized(e) == Has(types, e) /\ Within(size, e.name)
           Suits(e) == performance \in {e.family, e.class}
<1>1. /\ explicit # None => resolved = ByName(types, explicit)
      /\ explicit = None /\ size # None /\ matched # None => resolved = ByName(types, matched)
  BY DEF ResolveInstancetype
<1>2. \A name : ByName(types, name).name = name
  BY ByNameHas
<1>3. \/ \A e : ~ Sized(e)
      \/ \E e : Sized(e) /\ e.name = matched /\ ((\E x : Sized(x) /\ Suits(x)) => Suits(e))
  BY MatchSuits
<1>4. \A e : Sized(e) => e.name # None
  OBVIOUS
<1> HIDE DEF matched, resolved, Sized, Suits
<1>5. explicit # None => resolved.name = explicit
  BY <1>1, <1>2
<1>6. ASSUME explicit = None, size # None, NEW e, Sized(e)
      PROVE  \E x : /\ Sized(x) /\ x.name = resolved.name
                    /\ (\E y : Sized(y) /\ Suits(y)) => Suits(x)
  <2>1. PICK x : Sized(x) /\ x.name = matched /\ ((\E y : Sized(y) /\ Suits(y)) => Suits(x))
    BY <1>3, <1>6
  <2>2. resolved.name = matched
    BY <1>1, <1>2, <1>4, <1>6, <2>1
  <2> QED
    BY <2>1, <2>2
<1> QED
  BY <1>5, <1>6 DEF resolved, Sized, Suits

\* What is rendered is what was asked for, if every list was answered.
LEMMA RenderedAsAsked ==
  ASSUME NEW r, NEW sources, NEW scoped \in SUBSET {"cluster", "namespaced"}, NEW missed,
         ~ missed => Cardinality(scoped) = 2,
         NEW vm \in BuildTemplateParams(r.vm, sources, SearchScoped(Preferences, r.doc.ns, scoped),
                                        SearchScoped(Instancetypes, r.doc.ns, scoped))
  PROVE  AsAsked(r, vm, missed)
<1> DEFINE a == r.vm
           types == SearchScoped(Instancetypes, r.doc.ns, scoped)
           preferences == SearchScoped(Preferences, r.doc.ns, scoped)
           performance == NormalizePerformance(a.performance)
<1>1. PICK s : /\ vm.type = Scope(ResolveInstancetype(types, a.type, a.size, performance, s))
               /\ vm.preference = Scope(ResolvePreference(preferences, a.preference, a.workload, s))
  BY DEF BuildTemplateParams
<1>2. /\ IsSequence(types) /\ \A e : Has(types, e) => Has(Instancetypes, e)
      /\ {"cluster", "namespaced"} \subseteq scoped =>
           \A e : Has(types, e) <=> Has(Instancetypes, e) /\ e.ns \in {None, r.doc.ns}
  BY SearchedHas, CatalogAssumption
<1>3. IsSequence(preferences)
  BY SearchedHas, CatalogAssumption
<1>4. \A e : Has(types, e) => e.name # None
  BY <1>2, CatalogAssumption DEF Has
<1> DEFINE resolved == ResolveInstancetype(types, a.type, a.size, performance, s)
           preferred == ResolvePreference(preferences, a.preference, a.workload, s)
           Sized(e) == Has(types, e) /\ Within(a.size, e.name)
           Suits(e) == performance \in {e.family, e.class}
<1>5. vm.type.name = resolved.name /\ vm.preference.name = preferred.name
  BY <1>1 DEF Scope
<1>6. a.preference # None => preferred = ByName(preferences, a.preference)
  BY DEF ResolvePreference
<1> HIDE DEF types, preferences, performance
<1>7. a.preference # None => preferred.name = a.preference
  <2> HIDE DEF preferred
  <2> QED
    BY <1>3, <1>6, ByNameHas
<1>8. /\ a.type # None => resolved.name = a.type
      /\ a.type = None /\ a.size # None =>
           \/ \A e : ~ Sized(e)
           \/ \E e : /\ Sized(e) /\ e.name = resolved.name
                     /\ (\E x : Sized(x) /\ Suits(x)) => Suits(e)
  BY <1>2, <1>4, ResolvedNames
<1> DEFINE sized == {i \in DOMAIN Instancetypes : /\ Within(a.size, Instancetypes[i].name)
                                                  /\ Instancetypes[i].ns \in {None, r.doc.ns}}
           chosen == {i \in sized : Instancetypes[i].name = vm.type.name}
<1> HIDE DEF resolved, preferred
<1>9. ASSUME a.type = None, a.size # None, ~ missed
      PROVE  IF \E i \in sized : Suits(Instancetypes[i])
             THEN \E i \in chosen : Suits(Instancetypes[i])
             ELSE sized = {} \/ chosen # {}
  <2>1. \A e : Has(types, e) <=> Has(Instancetypes, e) /\ e.ns \in {None, r.doc.ns}
    BY <1>2, <1>9, BothAnswered
  <2>2. \A i \in sized : Sized(Instancetypes[i])
    BY <2>1 DEF Has
  <2>3. \A e : Sized(e) => \E i \in sized : Instancetypes[i] = e
    BY <2>1 DEF Has
  <2>4. CASE \A e : ~ Sized(e)
    BY <2>2, <2>4
  <2>5. CASE \E e : /\ Sized(e) /\ e.name = resolved.name
                    /\ (\E x : Sized(x) /\ Suits(x)) => Suits(e)
    <3>1. PICK e : /\ Sized(e) /\ e.name = resolved.name
                   /\ (\E x : Sized(x) /\ Suits(x)) => Suits(e)
      BY <2>5
    <3>2. PICK i \in sized : Instancetypes[i] = e
      BY <2>3, <3>1
    <3>3. i \in chosen
      BY <1>5, <3>1, <3>2
    <3> HIDE DEF sized, Sized, Suits
    <3> QED
      BY <2>2, <3>1, <3>2, <3>3
  <2> QED
    BY <1>8, <1>9, <2>4, <2>5
<1> QED
  BY <1>5, <1>7, <1>8, <1>9 DEF AsAsked, performance

\* A call of vm_create: what it has chosen, and what has become of that.
Drafted(r, docs, missed) ==
  /\ docs \in {<<[e EXCEPT !.content = Head(docs).content]>> : e \in Placed(r.doc)}
  /\ Chosen(r, r.doc.content, Head(docs).content, missed)

CreationFor(log, store, now) ==
  now.request.tool = "vm_create" =>
    LET r == now.request
        p == now.plan
        k == Target(r.doc)
    IN /\ p \in {<<"search", "map", "apply">>, <<"map", "apply">>, <<"apply">>, <<>>}
       /\ p = <<"search", "map", "apply">> => now.docs = <<r.doc>>
       /\ p \in {<<"map", "apply">>, <<"apply">>} => Drafted(r, now.docs, now.missed)
       /\ p = <<>> /\ now.answer = "ok" =>
            Chosen(r, r.doc.content, After(log, now.ended, k, Under(store, k)), now.missed)

LEMMA CreationsKeptIs ==
  /\ CreationsKept <=> \A c \in Calls : CreationFor(changes, objects, call[c])
  /\ CreationsKept' <=> \A c \in Calls : CreationFor(changes', objects', call'[c])
<1>1. NoCall.request.tool # "vm_create"
  BY NoCallIs, Zenon
<1>2. ASSUME NEW c \in Calls
      PROVE  /\ Tool(c) = call[c].request.tool /\ Doc(c) = Head(call[c].docs)
             /\ Tool(c) = "vm_create" => (Over(c) <=> call[c].plan = <<>>)
  BY <1>1 DEF Tool, Doc, Over
<1>3. \A n, k : ContentAfter(n, k) = After(changes, n, k, Under(objects, k))
  BY AfterIs
<1>4. CreationsKept <=> \A c \in Calls : CreationFor(changes, objects, call[c])
  BY <1>2, <1>3 DEF CreationsKept, CreationFor, Drafted
<1>5. (CreationsKept <=> \A c \in Calls : CreationFor(changes, objects, call[c]))'
  BY <1>4, PTL
<1> QED
  BY <1>4, <1>5

LEMMA CreationPlans ==
  /\ Head(<<"search", "map", "apply">>) = "search"
  /\ Tail(<<"search", "map", "apply">>) = <<"map", "apply">>
  /\ Head(<<"map", "apply">>) = "map" /\ Tail(<<"map", "apply">>) = <<"apply">>
  /\ Head(<<"apply">>) = "apply" /\ Tail(<<"apply">>) = <<>>
  /\ <<"search", "map", "apply">> # <<"map", "apply">>
  /\ <<"search", "map", "apply">> # <<"apply">> /\ <<"map", "apply">> # <<"apply">>
  /\ <<"search", "map", "apply">> # <<>> /\ <<"map", "apply">> # <<>> /\ <<"apply">> # <<>>
  OBVIOUS

LEMMA CreationBegins ==
  ASSUME NEW c \in Calls, NEW r, NEW routes \in BOOLEAN, Begins(c, r, routes)
  PROVE  CreationFor(changes', objects', call'[c])
<1> SUFFICES ASSUME r.tool = "vm_create"
             PROVE  CreationFor(changes', objects', call'[c])
  BY DEF Begins, CreationFor
<1>1. Documents(r, routes) = <<r.doc>>
  BY DEF Documents, Namespaced
<1>2. Plan(r, <<r.doc>>) \in {Invalid, <<"search", "map", "apply">>}
  BY DEF Plan, create, Asked
<1>3. \/ call'[c].plan = <<"search", "map", "apply">>
      \/ call'[c].plan = <<>> /\ call'[c].answer = "invalid"
  BY <1>1, <1>2 DEF Begins
<1>4. call'[c].request = r /\ call'[c].docs = <<r.doc>>
  BY <1>1 DEF Begins
<1> QED
  BY <1>3, <1>4, CreationPlans DEF CreationFor

\* The choice is made, and becomes what the document holds.
LEMMA CreationSearches ==
  ASSUME CallsShaped, NEW c \in Calls, Search(c), call[c].docs = <<call[c].request.doc>>,
         IsDocument(call[c].request.doc)
  PROVE  /\ call'[c].plan = Tail(call[c].plan)
         /\ Drafted(call[c].request, call'[c].docs, call'[c].missed)
<1> DEFINE r == call[c].request
           d == r.doc
<1>1. Doc(c) = d /\ call[c].docs[1] = d
  BY DEF Doc
<1>2. PICK listed \in SUBSET (WellKnownNamespaces \cup {"all"}),
           scoped \in SUBSET {"cluster", "namespaced"} :
        \E vm \in BuildTemplateParams(r.vm, SearchDataSources(DataSources, listed),
                                      SearchScoped(Preferences, d.ns, scoped),
                                      SearchScoped(Instancetypes, d.ns, scoped)) :
          GoesOn(c, [call[c] EXCEPT !.docs[1].content.body = <<vm>>,
                                    !.missed = ~("all" \in listed /\ Cardinality(scoped) = 2)])
  BY <1>1 DEF Search
<1>3. PICK vm \in BuildTemplateParams(r.vm, SearchDataSources(DataSources, listed),
                                      SearchScoped(Preferences, d.ns, scoped),
                                      SearchScoped(Instancetypes, d.ns, scoped)) :
          GoesOn(c, [call[c] EXCEPT !.docs[1].content.body = <<vm>>,
                                    !.missed = ~("all" \in listed /\ Cardinality(scoped) = 2)])
  BY <1>2
<1> DEFINE missed == ~("all" \in listed /\ Cardinality(scoped) = 2)
           made == [d.content EXCEPT !.body = <<vm>>]
           next == [call[c] EXCEPT !.docs[1].content.body = <<vm>>, !.missed = missed]
<1>4. AsAsked(r, vm, missed)
  BY <1>3, RenderedAsAsked
<1>5. DOMAIN call[c] = DOMAIN NoCall
  BY DEF CallsShaped
<1>6. /\ DOMAIN next = DOMAIN NoCall
      /\ next.docs = [call[c].docs EXCEPT ![1] = [call[c].docs[1] EXCEPT !.content = [call[c].docs[1].content EXCEPT !.body = <<vm>>]]]
      /\ next.request = r /\ next.began = call[c].began
      /\ next.kinds = call[c].kinds /\ next.ended = call[c].ended
      /\ next.plan = call[c].plan /\ next.missed = missed
  <2> HIDE DEF missed
  <2> QED
    BY <1>5 DEF NoCall
<1>7. next.docs = <<[d EXCEPT !.content = made]>>
  <2>1. next.docs = [<<d>> EXCEPT ![1] = [d EXCEPT !.content = made]]
    BY <1>1, <1>6
  <2>2. \A e : [<<d>> EXCEPT ![1] = e] = <<e>>
    OBVIOUS
  <2> HIDE DEF next, made, d
  <2> QED
    BY <2>1, <2>2, Zenon
<1>8. GoesOn(c, next)
  BY <1>3
<1> HIDE DEF next, missed
<1>9. Goes(c, next, Tail(call[c].plan))
  BY <1>6, <1>8 DEF GoesOn
<1>10. /\ call'[c].plan = Tail(call[c].plan) /\ call'[c].missed = missed
       /\ call'[c].docs = <<[d EXCEPT !.content = made]>>
  BY <1>6, <1>7, <1>9, NextDoes DEF Carries
<1>11. made.body[1] = vm /\ Chosen(r, d.content, made, missed)
  <2>1. d.content = Content(d.content)
    BY DEF IsDocument
  <2>2. made.body = <<vm>>
    BY <2>1 DEF Content
  <2>3. made.body[1] = vm
    BY <2>2
  <2> HIDE DEF made
  <2> QED
    BY <1>4, <2>3 DEF Chosen, made
<1>12. [d EXCEPT !.content = made].content = made
  BY DEF IsDocument
<1>13. d \in Placed(d)
  BY DEF Placed
<1> HIDE DEF made, d
<1>14. Head(call'[c].docs).content = made
  <2>1. \A e : Head(<<e>>) = e
    OBVIOUS
  <2> QED
    BY <1>10, <1>12, <2>1, Zenon
<1> QED
  BY <1>10, <1>11, <1>13, <1>14 DEF Drafted, d, r

\* The kind of what is drafted is looked up.
LEMMA CreationMaps ==
  ASSUME CallsShaped, NEW c \in Calls, MapKind(c), Tool(c) = "vm_create",
         IsDocument(call[c].request.doc), Drafted(call[c].request, call[c].docs, call[c].missed)
  PROVE  /\ UNCHANGED <<objects, changes>>
         /\ \/ call'[c].plan = <<>> /\ call'[c].answer # "ok"
            \/ /\ call'[c].plan = Tail(call[c].plan)
               /\ Drafted(call[c].request, call'[c].docs, call'[c].missed)
<1> DEFINE r == call[c].request
           docs == call[c].docs
           made == Head(docs).content
<1>1. PICK e \in Placed(r.doc) : docs = <<[e EXCEPT !.content = made]>>
  BY DEF Drafted
<1>2. DOMAIN e = {"kind", "ns", "name", "content"}
  BY DEF Placed, IsDocument
<1>3. Chosen(r, r.doc.content, made, call[c].missed)
  BY DEF Drafted
<1> HIDE DEF docs, made
<1>4. docs[1] = [e EXCEPT !.content = made] /\ docs[1].ns = e.ns
  BY <1>1, <1>2
<1>5. CASE call'[c].plan = <<>> /\ call'[c].answer # "ok"
  BY <1>5, MapKindDoes DEF serverVars
<1>6. CASE /\ call'[c].plan = Tail(call[c].plan)
           /\ \E ns \in {call[c].docs[1].ns, NamespaceOrDefault(call[c].docs[1].ns)} :
                call'[c].docs = [call[c].docs EXCEPT ![1] = [call[c].docs[1] EXCEPT !.ns = ns]]
  <2>1. PICK ns \in {docs[1].ns, NamespaceOrDefault(docs[1].ns)} :
          call'[c].docs = [docs EXCEPT ![1] = [docs[1] EXCEPT !.ns = ns]]
    BY <1>6 DEF docs
  <2> DEFINE f == [e EXCEPT !.ns = ns]
             g == [f EXCEPT !.content = made]
  <2>2. f \in Placed(r.doc)
    BY <1>4, <2>1, PlacedAgain
  <2>3. [docs[1] EXCEPT !.ns = ns] = g /\ g.content = made
    BY <1>2, <1>4
  <2>4. call'[c].docs = <<g>>
    <3>1. \A x, y : [<<x>> EXCEPT ![1] = y] = <<y>>
      OBVIOUS
    <3>2. docs = <<docs[1]>>
      BY <1>1, <1>4, Zenon
    <3> HIDE DEF g, f
    <3>3. call'[c].docs = [docs EXCEPT ![1] = g]
      BY <2>1, <2>3, Zenon
    <3>4. [<<docs[1]>> EXCEPT ![1] = g] = <<g>>
      BY <3>1, Zenon
    <3> QED
      BY <3>2, <3>3, <3>4, Zenon
  <2>5. Head(<<g>>) = g
    <3> HIDE DEF g
    <3> QED
      OBVIOUS
  <2> HIDE DEF f
  <2>6. call'[c].docs \in {<<[x EXCEPT !.content = made]>> : x \in Placed(r.doc)}
    BY <2>2, <2>4
  <2> HIDE DEF g, r
  <2>7. Head(call'[c].docs).content = made
    BY <2>3, <2>4, <2>5, Zenon
  <2>8. call'[c].missed = call[c].missed
    BY MapKindDoes
  <2>9. Drafted(r, call'[c].docs, call'[c].missed)
    BY <1>3, <2>6, <2>7, <2>8 DEF Drafted, r
  <2> QED
    BY <1>6, <2>9, MapKindDoes DEF serverVars, r
<1>7. Tool(c) # "resources_list"
  OBVIOUS
<1> QED
  BY <1>5, <1>6, <1>7, MapKindDoes

\* What is drafted is stored, under the name that was asked for.
LEMMA CreationApplies ==
  ASSUME CallsShaped, NEW c \in Calls, Apply(c), call[c].plan = <<"apply">>,
         IsDocument(call[c].request.doc), Drafted(call[c].request, call[c].docs, call[c].missed)
  PROVE  LET r == call[c].request
             k == Target(r.doc)
         IN /\ call'[c].plan = <<>>
            /\ call'[c].answer = "ok" =>
                 Chosen(r, r.doc.content, After(changes', call'[c].ended, k, Under(objects', k)),
                        call'[c].missed)
<1> DEFINE r == call[c].request
           docs == call[c].docs
           made == Head(docs).content
           k == Target(r.doc)
<1>1. PICK e \in Placed(r.doc) : docs = <<[e EXCEPT !.content = made]>>
  BY DEF Drafted
<1>2. DOMAIN e = {"kind", "ns", "name", "content"}
  BY DEF Placed, IsDocument
<1>3. Chosen(r, r.doc.content, made, call[c].missed)
  BY DEF Drafted
<1> HIDE DEF docs, made
<1>4. Doc(c) = [e EXCEPT !.content = made]
  <2>1. \A x : Head(<<x>>) = x
    OBVIOUS
  <2> QED
    BY <1>1, <2>1, Zenon DEF Doc, docs
<1>5. Doc(c).content = made /\ KeyOf(Doc(c)) = KeyOf(e)
  BY <1>2, <1>4 DEF KeyOf
<1>6. made = Content(made)
  <2>1. r.doc.content = Content(r.doc.content)
    BY DEF IsDocument
  <2>2. made = [r.doc.content EXCEPT !.body = <<made.body[1]>>]
    BY <1>3 DEF Chosen
  <2> QED
    BY <2>1, <2>2 DEF Content
<1>7. Keeps(c) /\ PlanGoes(c)
  BY ApplyDoes
<1>8. call'[c].plan = <<>> /\ call'[c].ended = Len(changes')
  <2>1. call'[c].plan = <<>> \/ call'[c].plan = Tail(call[c].plan)
    BY ApplyDoes
  <2>2. call'[c].plan = <<>>
    BY <2>1, CreationPlans
  <2> QED
    BY <1>7, <2>2 DEF Keeps
<1>9. call'[c].missed = call[c].missed
  <2>1. DOMAIN call = Calls /\ DOMAIN call[c] = DOMAIN NoCall
    BY DEF CallsShaped
  <2>2. CASE Fails(c)
    BY <2>2, AnswersDoes DEF Fails
  <2>3. CASE GoesOn(c, [call[c] EXCEPT !.docs = Tail(@)])
    <3> DEFINE next == [call[c] EXCEPT !.docs = Tail(@)]
    <3>1. /\ DOMAIN next = DOMAIN NoCall /\ next.missed = call[c].missed
      BY <2>1 DEF NoCall
    <3>2. Goes(c, next, Tail(next.plan))
      BY <2>3 DEF GoesOn
    <3> HIDE DEF next
    <3> QED
      BY <2>1, <3>1, <3>2, GoesDoes
  <2> QED
    BY <2>2, <2>3 DEF Apply
<1>10. CASE OnPath(KeyOf(e)) /\ Put(c, KeyOf(e), made)
  <2>1. KeyOf(e) = k
    BY <1>10, AtTarget
  <2> HIDE DEF k
  <2>2. k \in DOMAIN objects' /\ Content(objects'[k]) = made
    BY <1>6, <1>10, <2>1, PutKeeps
  <2>3. Logged(c)
    BY <1>10, PutLogs
  <2>4. IsSequence(changes')
    BY <2>3, LogGrows
  <2>5. After(changes', Len(changes'), k, Under(objects', k)) = Content(Under(objects', k))
    BY <2>4, AfterAll
  <2>6. Under(objects', k) = objects'[k]
    BY <2>2 DEF Under
  <2>7. After(changes', call'[c].ended, k, Under(objects', k)) = made
    BY <1>8, <2>2, <2>5, <2>6
  <2> QED
    BY <1>3, <1>8, <1>9, <2>7 DEF k
<1>11. CASE call'[c].answer = "error"
  BY <1>8, <1>11
<1> QED
  BY <1>5, <1>10, <1>11, ApplyDoes

\* What comes next is the first step that is left.
LEMMA CreationSteps ==
  ASSUME NEW c \in Calls, Works(c)
  PROVE  /\ call[c].plan # <<>>
         /\ Head(call[c].plan) = "search" => Search(c)
         /\ Head(call[c].plan) = "map" => MapKind(c)
         /\ Head(call[c].plan) = "apply" => Apply(c)
<1> DEFINE h == Head(call[c].plan)
<1>1. /\ MapKind(c) => h = "map" /\ call[c].plan # <<>>
      /\ Read(c) => h = "get" /\ call[c].plan # <<>>
      /\ Apply(c) => h = "apply" /\ call[c].plan # <<>>
      /\ Update(c) => h \in {"halt", "start", "scale"} /\ call[c].plan # <<>>
  BY Zenon DEF At, MapKind, Read, Apply, Update
<1>2. /\ Review(c) => h = "review" /\ call[c].plan # <<>>
      /\ List(c) => h = "list" /\ call[c].plan # <<>>
      /\ Discover(c) => h = "discover" /\ call[c].plan # <<>>
      /\ Stream(c) => h = "stream" /\ call[c].plan # <<>>
      /\ Search(c) => h = "search" /\ call[c].plan # <<>>
  BY Zenon DEF At, Review, List, Discover, Stream, Search
<1>3. /\ Delete(c) => h = "delete" /\ call[c].plan # <<>>
      /\ ListManaged(c) => h \in {"services", "routes"} /\ call[c].plan # <<>>
      /\ RemoveManaged(c) => h = "remove" /\ call[c].plan # <<>>
      /\ Create(c) => h = "create" /\ call[c].plan # <<>>
  BY Zenon DEF At, Delete, ListManaged, RemoveManaged, Create
<1> HIDE DEF h
<1> QED
  BY <1>1, <1>2, <1>3 DEF Works, h

LEMMA CreationsHold ==
  ASSUME CallsShaped, CreationsKept, [Next]_vars
  PROVE  CreationsKept'
<1>1. PICK by \in Calls \cup {Elsewhere} :
        Acts(by) /\ (by \in Calls => Begin(by) \/ Works(by))
  BY NextActs
<1>2. ASSUME NEW c \in Calls
      PROVE  CreationFor(changes', objects', call'[c])
  <2>0. CreationFor(changes, objects, call[c])
    BY CreationsKeptIs
  <2>1. CASE c # by
    <3>1. call'[c] = call[c] /\ call[c].ended \in 0..Len(changes)
      BY <1>1, <2>1 DEF Acts, CallsShaped
    <3>2. \A k : After(changes', call[c].ended, k, Under(objects', k))
                   = After(changes, call[c].ended, k, Under(objects, k))
      BY <1>1, <3>1, AfterStays DEF Acts
    <3> QED
      BY <2>0, <3>1, <3>2 DEF CreationFor
  <2>2. CASE c = by /\ Begin(c)
    BY <2>2, BeginDoes, CreationBegins
  <2>3. CASE c = by /\ Works(c) /\ Tool(c) # "vm_create"
    BY <2>3, WorksDoes DEF Keeps, CreationFor, Tool
  <2>4. CASE c = by /\ Works(c) /\ Tool(c) = "vm_create"
    <3> DEFINE r == call[c].request
               p == call[c].plan
    <3>1. call'[c].request = r /\ r.tool = "vm_create" /\ p # <<>>
      BY <2>4, WorksDoes DEF Keeps, Tool
    <3>2. IsDocument(r.doc)
      BY <3>1, NoCallIs, OperationsAssumption DEF CallsShaped
    <3>3. /\ p \in {<<"search", "map", "apply">>, <<"map", "apply">>, <<"apply">>}
          /\ p = <<"search", "map", "apply">> => call[c].docs = <<r.doc>>
          /\ p \in {<<"map", "apply">>, <<"apply">>} => Drafted(r, call[c].docs, call[c].missed)
      BY <2>0, <3>1 DEF CreationFor
    <3>4. CASE p = <<"search", "map", "apply">>
      <4>1. Search(c)
        BY <2>4, <3>4, CreationSteps, CreationPlans
      <4>2. /\ call'[c].plan = Tail(p)
            /\ Drafted(r, call'[c].docs, call'[c].missed)
        BY <3>2, <3>3, <3>4, <4>1, CreationSearches
      <4>3. call'[c].plan = <<"map", "apply">>
        BY <3>4, <4>2, CreationPlans
      <4> QED
        BY <3>1, <4>2, <4>3, CreationPlans DEF CreationFor
    <3>5. CASE p = <<"map", "apply">>
      <4>1. MapKind(c)
        BY <2>4, <3>5, CreationSteps, CreationPlans
      <4>2. \/ call'[c].plan = <<>> /\ call'[c].answer # "ok"
            \/ call'[c].plan = Tail(p) /\ Drafted(r, call'[c].docs, call'[c].missed)
        BY <2>4, <3>2, <3>3, <3>5, <4>1, CreationMaps
      <4>3. Tail(p) = <<"apply">>
        BY <3>5, CreationPlans
      <4> QED
        BY <3>1, <4>2, <4>3, CreationPlans DEF CreationFor
    <3>6. CASE p = <<"apply">>
      <4>1. Apply(c)
        BY <2>4, <3>6, CreationSteps, CreationPlans
      <4> DEFINE k == Target(r.doc)
      <4>2. /\ call'[c].plan = <<>>
            /\ call'[c].answer = "ok" =>
                 Chosen(r, r.doc.content, After(changes', call'[c].ended, k, Under(objects', k)),
                        call'[c].missed)
        BY <3>2, <3>3, <3>6, <4>1, CreationApplies
      <4> QED
        BY <3>1, <4>2, CreationPlans DEF CreationFor
    <3> QED
      BY <3>3, <3>4, <3>5, <3>6
  <2> QED
    BY <1>1, <2>1, <2>2, <2>3, <2>4
<1> QED
  BY <1>2, CreationsKeptIs

LEMMA CreationsRight == OperationsInv => CreatedAsAsked
<1> SUFFICES ASSUME CallsShaped, CreationsKept, NEW c \in Calls,
                    Tool(c) = "vm_create", Over(c), call[c].answer = "ok"
             PROVE  LET r == call[c].request
                        made == ContentAfter(call[c].ended, Target(r.doc))
                    IN AsAsked(r, made.body[1], call[c].missed) /\ made.mode = r.doc.content.mode
  BY DEF CreatedAsAsked, OperationsInv
<1> DEFINE r == call[c].request
           made == ContentAfter(call[c].ended, Target(r.doc))
<1>1. Chosen(r, r.doc.content, made, call[c].missed)
  BY DEF CreationsKept
<1>2. r.doc.content = Content(r.doc.content)
  <2>1. IsDocument(r.doc)
    BY OperationsAssumption DEF CallsShaped, Over
  <2> QED
    BY <2>1 DEF IsDocument
<1> HIDE DEF made
<1>3. AsAsked(r, made.body[1], call[c].missed) /\ made = [r.doc.content EXCEPT !.body = <<made.body[1]>>]
  BY <1>1 DEF Chosen
<1>4. made.mode = r.doc.content.mode
  BY <1>2, <1>3 DEF Content
<1> QED
  BY <1>3, <1>4 DEF made

----
(* The theorems *)

LEMMA InvBegins ==
  ASSUME Init
  PROVE  OperationsInv
<1>1. /\ objects = InitialObjects /\ changes = <<>> /\ DOMAIN call = Calls /\ mapper = Unfilled
      /\ \A c \in Calls : call[c] = NoCall
  BY DEF Init
<1>2. Len(changes) = 0 /\ DOMAIN changes = {} /\ \A S : <<>> \in Seq(S)
  BY <1>1
<1>3. CallsShaped
  <2>1. IsSequence(changes)
    BY <1>1, <1>2 DEF IsSequence
  <2>2. NoCall.began = 0 /\ NoCall.ended = 0
    BY DEF NoCall
  <2> QED
    BY <1>1, <1>2, <2>1, <2>2 DEF CallsShaped
<1>4. VersionsTell
  BY <1>1, OperationsAssumption DEF VersionsTell, Recorded
<1>5. \A c \in Calls : Tool(c) \notin Reading \cup Additive \cup Replacing \cup Applying
  BY <1>1, NoCallIs, Classes DEF Tool
<1>6. PlansKept /\ ReadsKept /\ ManifestsGotTo
  BY <1>5 DEF PlansKept, ReadsKept, ManifestsGotTo
<1>7. MapperFresh
  BY <1>1, <1>5, NoCallIs DEF MapperFresh, Applying
<1>8. HintsOfOne
  BY <1>2 DEF HintsOfOne, ChangesBy, OnlyAdds
<1>9. DeletionsKept
  BY <1>1, NoCallIs DEF DeletionsKept, Tool
<1>10. PathsKept
  BY <1>1, OperationsAssumption DEF PathsKept
<1>11. \A c \in Calls : ~ Over(c)
  BY <1>1 DEF Over
<1>12. ChangedSince
  BY <1>2, <1>11 DEF ChangedSince, ChangesBy
<1>13. /\ NoCall.request.tool \notin Naming /\ NoCall.request.tool # "resources_create_or_update"
       /\ NoCall.request.tool # "vm_create"
  BY NoCallIs, Zenon DEF Naming
<1>14. \A c \in Calls : /\ Tool(c) \notin Naming /\ Tool(c) # "resources_create_or_update"
                        /\ Tool(c) # "vm_create"
  BY <1>1, <1>13 DEF Tool
<1>15. NamedKept /\ ReachedKept /\ AppliedKept /\ CreationsKept
  BY <1>14 DEF NamedKept, ReachedKept, AppliedKept, CreationsKept
<1>16. RepeatsKept
  BY <1>11 DEF RepeatsKept, Repeats
<1> QED
  BY <1>3, <1>4, <1>6, <1>7, <1>8, <1>9, <1>10, <1>12, <1>15, <1>16 DEF OperationsInv

LEMMA InvHolds ==
  ASSUME OperationsInv, [Next]_vars
  PROVE  OperationsInv'
<1>1. /\ CallsShaped /\ VersionsTell /\ PlansKept /\ ReadsKept
      /\ ManifestsGotTo /\ MapperFresh /\ HintsOfOne /\ DeletionsKept
      /\ PathsKept /\ ChangedSince /\ NamedKept /\ ReachedKept /\ AppliedKept
      /\ RepeatsKept /\ CreationsKept
  BY DEF OperationsInv
<1>2. VersionsTell'
  BY <1>1, NextActs, VersionsHold DEF Acts
<1>3. /\ CallsShaped' /\ PlansKept' /\ ReadsKept' /\ ManifestsGotTo' /\ MapperFresh'
      /\ HintsOfOne'
  BY <1>1, ShapedHolds, PlansHold, ReadsHold, ManifestsHold, MapperHolds, HintsHeld
<1>4. DeletionsKept'
  BY <1>1, DeletionsHold
<1>5. /\ PathsKept' /\ ChangedSince' /\ NamedKept' /\ ReachedKept' /\ AppliedKept'
      /\ CreationsKept'
  BY <1>1, <1>4, PathsHold, ChangedHolds, NamedHolds, ReachedHolds, AppliedHolds,
     CreationsHold
<1>6. RepeatsKept'
  BY <1>1, <1>4, RepeatsHold
<1> QED
  BY <1>2, <1>3, <1>4, <1>5, <1>6 DEF OperationsInv

\* The safety of the tools, made inductive: versions tell objects apart, the
\* plans of the tools are what they began with and do next what is left of
\* them, what a call has read, stored and been told is what it relies on, and
\* what it leaves behind is what a repetition of it finds.
THEOREM OperationsInvariant == Spec => []OperationsInv
<1>1. Init => OperationsInv
  BY InvBegins
<1>2. OperationsInv /\ [Next]_vars => OperationsInv'
  BY InvHolds
<1> QED
  BY <1>1, <1>2, PTL DEF Spec

\* No update replaces what its call has not seen, whatever other calls and
\* other clients store in between.
THEOREM NothingUnseenIsReplaced == Spec => SeenBeforeReplaced
<1>1. OperationsInv /\ [Next]_vars =>
        [\A c \in Calls :
           (/\ Tool(c) \in {"vm_start", "vm_stop", "vm_restart", "resources_scale"}
            /\ changes' # changes /\ changes'[Len(changes')].by = c)
           => changes'[Len(changes')].was = call[c].read]_vars
  BY SeenReplaced DEF OperationsInv, Replacing
<1> QED
  BY <1>1, OperationsInvariant, PTL DEF Spec, SeenBeforeReplaced

\* A kind that a manifest defines, and that discovery knew of, is known to the
\* documents after its definition.
THEOREM DefinitionsAreKnown == Spec => []OwnDefinitionsKnown
<1>1. OperationsInv => OwnDefinitionsKnown
  <2> SUFFICES ASSUME CallsShaped, PlansKept, MapperFresh, NEW c \in Calls,
                      call[c].answer = "noMatch", Doc(c).kind \in call[c].kinds,
                      NEW i \in DOMAIN call[c].request.docs,
                      i <= Len(call[c].request.docs) - Len(call[c].docs),
                      call[c].request.docs[i].kind = "CustomResourceDefinition"
               PROVE  FALSE
    BY DEF OperationsInv, OwnDefinitionsKnown
  <2> DEFINE r == call[c].request
  <2>1. r \in Requests
    BY NoCallIs DEF CallsShaped
  <2>2. IsSequence(r.docs)
    BY <2>1, OperationsAssumption
  <2>3. DOMAIN r.docs = 1..Len(r.docs)
    BY <2>2, SequenceLen
  <2>4. Tool(c) = "resources_create_or_update"
    <3>1. Tool(c) # "resources_create_or_update" => r.docs = <<>>
      BY <2>1, OperationsAssumption DEF Tool
    <3>2. r.docs # <<>>
      BY <2>3
    <3> QED
      BY <3>1, <3>2
  <2>5. HasDefined(c)
    <3>1. i \in 1 .. Len(r.docs) - Len(call[c].docs)
      <4>1. i \in Nat /\ i >= 1
        BY <2>2, <2>3, SequenceLen
      <4>2. Len(r.docs) \in Nat /\ Len(call[c].docs) \in Nat
        <5>1. MapsAndApplies(call[c].plan, call[c].docs)
          BY <2>4 DEF PlansKept, Applying
        <5> QED
          BY <2>2, <5>1, SequenceLen DEF MapsAndApplies
      <4> QED
        BY <4>1, <4>2
    <3> QED
      BY <3>1 DEF HasDefined
  <2> QED
    BY <2>4, <2>5 DEF MapperFresh
<1> QED
  BY <1>1, OperationsInvariant, PTL

\* An answer without error tells that each document of the manifest was stored,
\* and an error leaves documents of its front only.
THEOREM ManifestsAreApplied == Spec => []ManifestApplied
<1>1. OperationsInv => ManifestApplied
  <2> SUFFICES ASSUME CallsShaped, PlansKept, ManifestsGotTo, NEW c \in Calls,
                      Tool(c) \in {"resources_create_or_update", "pods_run"}, Over(c)
               PROVE  LET docs == Manifest(c)
                          stored(d) == \E n \in call[c].began..call[c].ended :
                                         ContentAfter(n, Home(d)) = d.content
                          passed == Len(docs) - Len(call[c].docs)
                      IN /\ call[c].answer = "invalid" => ChangesBy(c) = {}
                         /\ call[c].answer = "ok" =>
                              \A i \in DOMAIN docs : docs[i].kind \in ClusterKinds \/ stored(docs[i])
                         /\ Tool(c) # "pods_run" =>
                              \A i \in ChangesBy(c) : \E j \in 1..passed :
                                 /\ changes[i].key \in {KeyOf(docs[j]), Home(docs[j])}
                                 /\ Content(changes[i].now) = docs[j].content
    BY DEF OperationsInv, ManifestApplied
  <2> DEFINE r == call[c].request
  <2>1. Tool(c) \in Applying
    BY DEF Applying
  <2>2. r \in Requests /\ call[c].plan = <<>>
    BY NoCallIs DEF CallsShaped, Over
  <2>3. CASE call[c].answer = "invalid"
    <3>1. ChangesBy(c) = {}
      BY <2>1, <2>3 DEF ManifestsGotTo
    <3> QED
      BY <2>3, <3>1
  <2>4. CASE call[c].answer # "invalid"
    <3>1. PICK routes \in BOOLEAN : GotTo(c, Documents(r, routes))
      BY <2>1, <2>4 DEF ManifestsGotTo
    <3> DEFINE full == Documents(r, routes)
               passed == Len(full) - Len(call[c].docs)
               docs == Manifest(c)
    <3>2. Until(c) = call[c].ended
      BY DEF Until
    <3>3. /\ \A i \in 1..passed : \/ full[i].kind \in ClusterKinds
                                  \/ \E n \in call[c].began..call[c].ended :
                                       ContentAfter(n, Home(full[i])) = full[i].content
          /\ \A i \in ChangesBy(c) : \E j \in 1..passed :
               /\ changes[i].key \in {KeyOf(full[j]), Home(full[j])}
               /\ Content(changes[i].now) = full[j].content
      BY <3>1, <3>2 DEF GotTo
    <3>4. IsSequence(full)
      BY <2>1, <2>2, ApplyingDocuments DEF Tool
    <3>5. Len(full) \in Nat /\ DOMAIN full = 1..Len(full)
      BY <3>4, SequenceLen
    <3>6. Tool(c) # "pods_run" => docs = full
      BY <2>1, <2>2, ApplyingDocuments DEF Manifest, Applying, Tool
    <3>7. \A i \in DOMAIN docs : i \in DOMAIN full /\ docs[i] = full[i]
      <4>1. CASE Tool(c) = "pods_run"
        <5>1. docs = PodsRun(r, FALSE) /\ full = PodsRun(r, routes)
          BY <2>1, <2>2, <4>1, ApplyingDocuments DEF Manifest, Tool
        <5> HIDE DEF docs, full
        <5> QED
          BY <2>2, <5>1, RunDocuments
      <4> QED
        BY <3>6, <4>1
    <3>8. ASSUME call[c].answer = "ok" PROVE passed = Len(full)
      <4>1. call[c].docs = <<>>
        BY <2>1, <2>2, <3>8 DEF PlansKept
      <4>2. Len(call[c].docs) = 0
        BY <4>1
      <4> QED
        BY <3>5, <4>2
    <3> HIDE DEF full, docs
    <3>9. call[c].answer = "ok" =>
            \A i \in DOMAIN docs : docs[i].kind \in ClusterKinds
              \/ \E n \in call[c].began..call[c].ended :
                   ContentAfter(n, Home(docs[i])) = docs[i].content
      BY <3>3, <3>5, <3>7, <3>8
    <3>10. Tool(c) # "pods_run" =>
             \A i \in ChangesBy(c) : \E j \in 1..(Len(docs) - Len(call[c].docs)) :
               /\ changes[i].key \in {KeyOf(docs[j]), Home(docs[j])}
               /\ Content(changes[i].now) = docs[j].content
      BY <3>3, <3>6
    <3> QED
      BY <2>4, <3>9, <3>10 DEF docs
  <2> QED
    BY <2>3, <2>4
<1> QED
  BY <1>1, OperationsInvariant, PTL

\* The annotations of the tools: one that only reads changes nothing, one that
\* is not destructive overwrites nothing, and one that is idempotent changes
\* nothing when it is called again with the same arguments, nobody else having
\* changed anything since; a manifest, if no two of its documents are about one
\* object.
THEOREM HintsAreKept == Spec => []HintsHold
<1>1. OperationsInv => HintsHold
  BY RepeatsIdle
<1> QED
  BY <1>1, OperationsInvariant, PTL

\* A virtual machine is stored in the mode and with the type and the preference
\* it was asked for; with no type asked for and every list answered, with one of
\* the size asked for, and of the performance, where the cluster has any.
THEOREM VMsAreCreatedAsAsked == Spec => []CreatedAsAsked
<1>1. OperationsInv => CreatedAsAsked
  BY CreationsRight
<1> QED
  BY <1>1, OperationsInvariant, PTL

\* A pod is deleted with the services and the routes that exposed it, and with
\* nothing else, when its calls are answered and nobody else writes in between.
THEOREM PodsAreDeletedExactly == Spec => []PodsDeleteExact
<1>1. OperationsInv => PodsDeleteExact
  BY DeletionExact
<1> QED
  BY <1>1, OperationsInvariant, PTL

----
(* The sort by error rate.                                                 *)

IsSettling(f, t, i, n) ==
  f = [j \in i .. n |-> IF j = i THEN t ELSE Exchange(f[j - 1], i, j)]

LEMMA SettlingExists ==
  ASSUME NEW t, NEW i \in Nat, NEW n \in Nat, i <= n
  PROVE  \E f : IsSettling(f, t, i, n)
<1> DEFINE P == {m \in Nat : \E f : IsSettling(f, t, i, m)}
<1>1. i \in P
  <2>1. IsSettling([j \in i .. i |-> t], t, i, i)
    BY DEF IsSettling
  <2> QED
    BY <2>1
<1>2. ASSUME NEW m \in i .. n, m # i, m - 1 \in P
      PROVE  m \in P
  <2>1. PICK f : IsSettling(f, t, i, m - 1)
    BY <1>2
  <2> DEFINE g == [j \in i .. m |-> IF j = m THEN Exchange(f[m - 1], i, m) ELSE f[j]]
  <2>2. ASSUME NEW j \in i .. m
        PROVE  g[j] = IF j = i THEN t ELSE Exchange(g[j - 1], i, j)
    <3>1. CASE j = m
      <4>1. g[j] = Exchange(f[m - 1], i, m) /\ g[m - 1] = f[m - 1]
        BY <1>2, <3>1
      <4> QED
        BY <1>2, <3>1, <4>1
    <3>2. CASE j # m
      <4>1. j \in i .. m - 1 /\ g[j] = f[j] /\ (j # i => g[j - 1] = f[j - 1])
        BY <1>2, <3>2
      <4>2. f[j] = IF j = i THEN t ELSE Exchange(f[j - 1], i, j)
        BY <2>1, <4>1 DEF IsSettling
      <4> QED
        BY <4>1, <4>2
    <3> QED
      BY <3>1, <3>2
  <2>3. g = [j \in i .. m |-> g[j]]
    OBVIOUS
  <2> HIDE DEF g
  <2>4. IsSettling(g, t, i, m)
    BY <2>2, <2>3 DEF IsSettling
  <2> QED
    BY <2>4
<1>3. i .. n \subseteq P
  <2> HIDE DEF P
  <2> QED
    BY <1>1, <1>2, Stepwise
<1> QED
  BY <1>3

\* Every entry of t is also in u.
KeptIn(t, u) == \A k \in DOMAIN t : \E m \in DOMAIN u : u[m] = t[k]

Entries(E) == \A x \in E : x.rate \in Nat

\* Two places of a list exchanged, or not, so that the first has the higher rate.
Exchanged(u, t, i, j) ==
  /\ u[i].rate >= u[j].rate /\ u[i].rate >= t[i].rate
  /\ u[i] \in {t[i], t[j]} /\ u[j] \in {t[i], t[j]} /\ {u[i], u[j]} = {t[i], t[j]}
  /\ \A k \in 1 .. Len(t) : k # i /\ k # j => u[k] = t[k]

LEMMA ExchangeDoes ==
  ASSUME NEW E, Entries(E), NEW t \in Seq(E), NEW i \in 1 .. Len(t), NEW j \in 1 .. Len(t), i < j
  PROVE  /\ Exchange(t, i, j) \in Seq(E) /\ Len(Exchange(t, i, j)) = Len(t)
         /\ Exchanged(Exchange(t, i, j), t, i, j)
<1>1. t[i] \in E /\ t[j] \in E /\ t[i].rate \in Nat /\ t[j].rate \in Nat
  BY ElementOfSeq DEF Entries
<1>2. CASE t[j].rate > t[i].rate
  <2> DEFINE v == [t EXCEPT ![i] = t[j]]
             u == [v EXCEPT ![j] = t[i]]
  <2>1. Exchange(t, i, j) = u
    BY <1>2 DEF Exchange
  <2>2. /\ v \in Seq(E) /\ Len(v) = Len(t)
        /\ \A k \in 1 .. Len(t) : v[k] = IF k = i THEN t[j] ELSE t[k]
    BY <1>1, ExceptSeq
  <2> HIDE DEF v
  <2>3. /\ u \in Seq(E) /\ Len(u) = Len(t)
        /\ \A k \in 1 .. Len(t) : u[k] = IF k = j THEN t[i] ELSE v[k]
    <3>1. j \in 1 .. Len(v)
      BY <2>2
    <3> QED
      BY <1>1, <2>2, <3>1, ExceptSeq
  <2> HIDE DEF u
  <2>4. u[i] = t[j] /\ u[j] = t[i] /\ \A k \in 1 .. Len(t) : k # i /\ k # j => u[k] = t[k]
    BY <2>2, <2>3
  <2> QED
    BY <1>1, <1>2, <2>1, <2>3, <2>4 DEF Exchanged
<1>3. CASE ~ (t[j].rate > t[i].rate)
  BY <1>1, <1>3 DEF Exchange, Exchanged
<1> QED
  BY <1>2, <1>3

\* Settling leaves what is before i, keeps what is from i on there, and puts the
\* greatest of it at i.
LEMMA SettledDoes ==
  ASSUME NEW E, Entries(E), NEW t \in Seq(E), NEW i \in 1 .. Len(t)
  PROVE  LET u == Settled(t, i)
         IN /\ u \in Seq(E) /\ Len(u) = Len(t)
            /\ \A k \in 1 .. i - 1 : u[k] = t[k]
            /\ \A k \in i .. Len(t) : \E m \in i .. Len(t) : u[k] = t[m]
            /\ \A k \in i .. Len(t) : \E m \in i .. Len(t) : u[m] = t[k]
            /\ \A k \in i .. Len(t) : u[i].rate >= u[k].rate
<1>1. Len(t) \in Nat /\ i \in Nat /\ i <= Len(t) /\ Len(t) \in i .. Len(t)
  BY LenProperties
<1> DEFINE n == Len(t)
<1>2. PICK f : IsSettling(f, t, i, n) /\ Settled(t, i) = f[n]
  <2>1. \E f : IsSettling(f, t, i, n)
    BY <1>1, SettlingExists
  <2> QED
    BY <2>1 DEF Settled, IsSettling
<1> DEFINE Right(u, j) == /\ u \in Seq(E) /\ Len(u) = n
                          /\ \A k \in 1 .. i - 1 : u[k] = t[k]
                          /\ \A k \in i .. n : \E m \in i .. n : u[k] = t[m]
                          /\ \A k \in i .. n : \E m \in i .. n : u[m] = t[k]
                          /\ \A k \in i .. j : u[i].rate >= u[k].rate
           P == {j \in i .. n : Right(f[j], j)}
<1>3. i \in P
  <2>1. f[i] = t
    BY <1>1, <1>2 DEF IsSettling
  <2>2. t[i].rate \in Nat
    BY ElementOfSeq DEF Entries
  <2>3. Right(t, i)
    BY <1>1, <2>2
  <2> HIDE DEF Right
  <2> QED
    BY <1>1, <2>1, <2>3
<1>4. ASSUME NEW j \in i .. n, j # i, j - 1 \in P
      PROVE  j \in P
  <2>0. j \in Nat /\ i < j /\ j <= n /\ n \in Nat /\ j \in 1 .. n
    <3>1. j \in i .. n /\ j # i
      BY <1>4
    <3> QED
      BY <1>1, <3>1
  <2> DEFINE v == f[j - 1]
             u == Exchange(v, i, j)
  <2>1. f[j] = u
    BY <1>2, <1>4 DEF IsSettling
  <2>2. Right(v, j - 1)
    BY <1>4
  <2>3. i \in 1 .. Len(v) /\ j \in 1 .. Len(v) /\ i < j /\ v \in Seq(E) /\ Len(v) = n
    BY <1>1, <1>4, <2>2
  <2> HIDE DEF v
  <2>3a. u \in Seq(E) /\ Len(u) = Len(v) /\ Exchanged(u, v, i, j)
    BY <2>3, ExchangeDoes
  <2> HIDE DEF u
  <2>4. /\ u \in Seq(E) /\ Len(u) = Len(v)
        /\ u[i].rate >= u[j].rate /\ u[i].rate >= v[i].rate
        /\ u[i] \in {v[i], v[j]} /\ u[j] \in {v[i], v[j]} /\ {u[i], u[j]} = {v[i], v[j]}
        /\ \A k \in 1 .. Len(v) : k # i /\ k # j => u[k] = v[k]
    BY <2>3a DEF Exchanged
  <2>5. \A k \in 1 .. n : u[k] \in E /\ u[k].rate \in Nat /\ v[k].rate \in Nat
    BY <2>3, <2>4, ElementOfSeq DEF Entries
  <2>6. ASSUME NEW k \in i .. j
        PROVE  u[i].rate >= u[k].rate
    <3>1. CASE k = i
      BY <1>1, <2>5, <3>1
    <3>2. CASE k = j
      BY <2>4, <3>2
    <3>3. CASE k # i /\ k # j
      <4>1. k \in i .. j - 1 /\ k \in 1 .. n
        BY <1>1, <2>0, <3>3
      <4>2. u[k] = v[k] /\ v[i].rate >= v[k].rate /\ i \in 1 .. n
        BY <1>1, <2>2, <2>3, <2>4, <3>3, <4>1
      <4> QED
        BY <2>4, <2>5, <4>1, <4>2
    <3> QED
      BY <3>1, <3>2, <3>3
  <2>7. \A k \in 1 .. i - 1 : u[k] = t[k]
    <3> SUFFICES ASSUME NEW k \in 1 .. i - 1
                 PROVE  u[k] = t[k]
      OBVIOUS
    <3>1. k \in 1 .. n /\ k # i /\ k # j
      BY <1>1, <2>0
    <3> QED
      BY <2>2, <2>3, <2>4, <3>1
  <2>8. ASSUME NEW k \in i .. n
        PROVE  \E m \in i .. n : u[k] = t[m]
    <3>1. \E l \in i .. n : u[k] = v[l]
      <4>1. k \in 1 .. n /\ i \in i .. n /\ j \in i .. n
        BY <1>1, <2>0
      <4> QED
        BY <2>3, <2>4, <4>1
    <3> QED
      BY <2>2, <3>1
  <2>9. ASSUME NEW k \in i .. n
        PROVE  \E m \in i .. n : u[m] = t[k]
    <3>1. PICK l \in i .. n : v[l] = t[k]
      BY <2>2
    <3>2. l \in 1 .. n /\ i \in i .. n /\ j \in i .. n
      BY <1>1, <2>0
    <3>3. v[l] \in {u[i], u[j]} \/ v[l] = u[l]
      BY <2>3, <2>4, <3>2
    <3> QED
      BY <3>1, <3>2, <3>3
  <2>10. Right(u, j)
    BY <2>3, <2>4, <2>6, <2>7, <2>8, <2>9
  <2> HIDE DEF Right
  <2> QED
    BY <2>1, <2>10
<1>5. i .. n \subseteq P
  <2> HIDE DEF P
  <2> QED
    BY <1>1, <1>3, <1>4, Stepwise
<1>6. Right(f[n], n)
  BY <1>1, <1>5
<1> QED
  BY <1>2, <1>6

IsSorting(f, t, n) == f = [i \in 0 .. n |-> IF i = 0 THEN t ELSE Settled(f[i - 1], i)]

LEMMA SortingExists ==
  ASSUME NEW t, NEW n \in Nat
  PROVE  \E f : IsSorting(f, t, n)
<1> DEFINE P == {m \in Nat : \E f : IsSorting(f, t, m)}
<1>1. 0 \in P
  <2>1. IsSorting([j \in 0 .. 0 |-> t], t, 0)
    BY DEF IsSorting
  <2> QED
    BY <2>1
<1>2. ASSUME NEW m \in 0 .. n, m # 0, m - 1 \in P
      PROVE  m \in P
  <2>1. PICK f : IsSorting(f, t, m - 1)
    BY <1>2
  <2> DEFINE g == [j \in 0 .. m |-> IF j = m THEN Settled(f[m - 1], m) ELSE f[j]]
  <2>2. ASSUME NEW j \in 0 .. m
        PROVE  g[j] = IF j = 0 THEN t ELSE Settled(g[j - 1], j)
    <3>1. CASE j = m
      <4>1. g[j] = Settled(f[m - 1], m) /\ g[m - 1] = f[m - 1]
        BY <1>2, <3>1
      <4> QED
        BY <1>2, <3>1, <4>1
    <3>2. CASE j # m
      <4>1. j \in 0 .. m - 1 /\ g[j] = f[j] /\ (j # 0 => g[j - 1] = f[j - 1])
        BY <1>2, <3>2
      <4>2. f[j] = IF j = 0 THEN t ELSE Settled(f[j - 1], j)
        BY <2>1, <4>1 DEF IsSorting
      <4> QED
        BY <4>1, <4>2
    <3> QED
      BY <3>1, <3>2
  <2>3. g = [j \in 0 .. m |-> g[j]]
    OBVIOUS
  <2> HIDE DEF g
  <2>4. IsSorting(g, t, m)
    BY <2>2, <2>3 DEF IsSorting
  <2> QED
    BY <2>4
<1>3. 0 .. n \subseteq P
  <2> HIDE DEF P
  <2> QED
    BY <1>1, <1>2, Stepwise
<1> QED
  BY <1>3

\* The list in descending order of rate.
Descending(u) == \A a, b \in DOMAIN u : a < b => u[a].rate >= u[b].rate

LEMMA SortDoes ==
  ASSUME NEW E, Entries(E), NEW t \in Seq(E)
  PROVE  LET u == sortUnhealthyByImpact(t)
         IN /\ u \in Seq(E) /\ Len(u) = Len(t)
            /\ Descending(u) /\ KeptIn(t, u)
<1>1. Len(t) \in Nat /\ DOMAIN t = 1 .. Len(t)
  BY LenProperties
<1> DEFINE n == Len(t)
<1>2. PICK f : IsSorting(f, t, n) /\ sortUnhealthyByImpact(t) = f[n]
  <2>1. \E f : IsSorting(f, t, n)
    BY <1>1, SortingExists
  <2> QED
    BY <2>1 DEF sortUnhealthyByImpact, IsSorting
<1> DEFINE Right(u, i) == /\ u \in Seq(E) /\ Len(u) = n
                          /\ \A k \in 1 .. n : \E m \in 1 .. n : u[m] = t[k]
                          /\ \A a \in 1 .. i : \A b \in 1 .. n : a < b => u[a].rate >= u[b].rate
           P == {i \in 0 .. n : Right(f[i], i)}
<1>3. 0 \in P
  <2>1. f[0] = t
    BY <1>1, <1>2 DEF IsSorting
  <2>2. Right(t, 0)
    BY <1>1
  <2> HIDE DEF Right
  <2> QED
    BY <1>1, <2>1, <2>2
<1>4. ASSUME NEW i \in 0 .. n, i # 0, i - 1 \in P
      PROVE  i \in P
  <2> DEFINE v == f[i - 1]
             u == Settled(v, i)
  <2>1. f[i] = u
    BY <1>2, <1>4 DEF IsSorting
  <2>2. Right(v, i - 1)
    BY <1>4
  <2>3. i \in 1 .. Len(v) /\ v \in Seq(E) /\ Len(v) = n
    BY <1>1, <1>4, <2>2
  <2> HIDE DEF v
  <2>4. /\ u \in Seq(E) /\ Len(u) = Len(v)
        /\ \A k \in 1 .. i - 1 : u[k] = v[k]
        /\ \A k \in i .. Len(v) : \E m \in i .. Len(v) : u[k] = v[m]
        /\ \A k \in i .. Len(v) : \E m \in i .. Len(v) : u[m] = v[k]
        /\ \A k \in i .. Len(v) : u[i].rate >= u[k].rate
    BY <2>3, SettledDoes
  <2> HIDE DEF u
  <2>5. ASSUME NEW k \in 1 .. n
        PROVE  \E m \in 1 .. n : u[m] = t[k]
    <3>1. PICK l \in 1 .. n : v[l] = t[k]
      BY <2>2
    <3>2. l \in 1 .. i - 1 \/ l \in i .. n
      BY <1>1, <1>4
    <3>3. \E m \in 1 .. n : u[m] = v[l]
      <4>1. CASE l \in 1 .. i - 1
        BY <2>4, <4>1
      <4>2. CASE l \in i .. n
        <5>1. PICK m \in i .. n : u[m] = v[l]
          BY <2>3, <2>4, <4>2
        <5>2. m \in 1 .. n
          BY <1>1, <1>4
        <5> QED
          BY <5>1, <5>2
      <4> QED
        BY <3>2, <4>1, <4>2
    <3> QED
      BY <3>1, <3>3
  <2>6. ASSUME NEW a \in 1 .. i, NEW b \in 1 .. n, a < b
        PROVE  u[a].rate >= u[b].rate
    <3>1. CASE a = i
      <4>1. b \in i .. n
        BY <1>1, <1>4, <2>6, <3>1
      <4> QED
        BY <2>3, <2>4, <3>1, <4>1
    <3>2. CASE a # i
      <4>1. a \in 1 .. i - 1
        BY <3>2
      <4>2. u[a] = v[a]
        BY <2>4, <4>1
      <4>3. CASE b \in 1 .. i - 1
        <5>1. u[b] = v[b]
          BY <2>4, <4>3
        <5> QED
          BY <2>2, <2>6, <4>1, <4>2, <5>1
      <4>4. CASE b \in i .. n
        <5>1. PICK m \in i .. n : u[b] = v[m]
          BY <2>3, <2>4, <4>4
        <5>2. m \in 1 .. n /\ a < m
          BY <1>1, <1>4, <4>1
        <5> QED
          BY <2>2, <4>1, <4>2, <5>1, <5>2
      <4> QED
        BY <1>1, <1>4, <4>3, <4>4
    <3> QED
      BY <3>1, <3>2
  <2>7. Right(u, i)
    BY <2>3, <2>4, <2>5, <2>6
  <2> HIDE DEF Right
  <2> QED
    BY <2>1, <2>7
<1>5. 0 .. n \subseteq P
  <2> HIDE DEF P
  <2> QED
    BY <1>1, <1>3, <1>4, Stepwise
<1>6. Right(f[n], n)
  <2> HIDE DEF Right
  <2>1. n \in 0 .. n
    BY <1>1
  <2> QED
    BY <1>5, <2>1
<1>7. \A u : Right(u, n) => DOMAIN u = 1 .. n
  BY LenProperties
<1>8. \A u : Right(u, n) => u \in Seq(E) /\ Len(u) = Len(t) /\ Descending(u) /\ KeptIn(t, u)
  BY <1>1, <1>7 DEF Descending, KeptIn
<1> HIDE DEF Right
<1> QED
  BY <1>2, <1>6, <1>8

----
(* Sums over finite sets                                                   *)

Pick(s) == CHOOSE x \in s : TRUE

Summing(it, f, S) ==
  it = [s \in SUBSET S |-> IF s = {} THEN 0 ELSE f[Pick(s)] + it[s \ {Pick(s)}]]

SumOf(f, S) == LET it == CHOOSE it : Summing(it, f, S) IN it[S]

LEMMA Picks == \A s : s # {} => Pick(s) \in s
  BY DEF Pick

\* Induction over the subsets of a finite set, for a set of those that have a
\* property.
LEMMA Shrinking ==
  ASSUME NEW S, IsFiniteSet(S), NEW P,
         \A T \in SUBSET S : (\A x \in T : T \ {x} \in P) => T \in P
  PROVE  SUBSET S \subseteq P
<1> DEFINE Q == {n \in Nat : \A T \in SUBSET S : Cardinality(T) = n => T \in P}
<1>1. Cardinality(S) \in Nat /\ \A T \in SUBSET S : IsFiniteSet(T) /\ Cardinality(T) \in Nat
                                                    /\ Cardinality(T) <= Cardinality(S)
  BY FS_Subset, FS_CardinalityType
<1>2. 0 \in Q
  <2>1. \A T \in SUBSET S : Cardinality(T) = 0 => T = {}
    BY <1>1, FS_EmptySet
  <2> QED
    BY <2>1
<1>3. ASSUME NEW n \in 0 .. Cardinality(S), n # 0, n - 1 \in Q
      PROVE  n \in Q
  <2>1. ASSUME NEW T \in SUBSET S, Cardinality(T) = n
        PROVE  T \in P
    <3>1. ASSUME NEW x \in T
          PROVE  T \ {x} \in P
      <4>1. T \ {x} \in SUBSET S /\ Cardinality(T \ {x}) = n - 1
        BY <1>1, <2>1, FS_RemoveElement
      <4> QED
        BY <1>3, <4>1
    <3> QED
      BY <3>1
  <2> QED
    BY <2>1
<1>4. 0 .. Cardinality(S) \subseteq Q
  <2> HIDE DEF Q
  <2> QED
    BY <1>1, <1>2, <1>3, Stepwise
<1>5. ASSUME NEW T \in SUBSET S
      PROVE  T \in P
  <2>1. Cardinality(T) \in 0 .. Cardinality(S)
    BY <1>1
  <2> QED
    BY <1>4, <2>1
<1> QED
  BY <1>5

LEMMA SummingExists ==
  ASSUME NEW S, IsFiniteSet(S), NEW f
  PROVE  \E it : Summing(it, f, S)
<1> DEFINE Rule(it, s) == IF s = {} THEN 0 ELSE f[Pick(s)] + it[s \ {Pick(s)}]
           Good(it, n) == \A s \in SUBSET S : Cardinality(s) <= n => it[s] = Rule(it, s)
           P == {n \in Nat : \E it : Good(it, n)}
<1>1. Cardinality(S) \in Nat /\ \A T \in SUBSET S : IsFiniteSet(T) /\ Cardinality(T) \in Nat
                                                    /\ Cardinality(T) <= Cardinality(S)
  BY FS_Subset, FS_CardinalityType
<1>2. 0 \in P
  <2> DEFINE g == [s \in SUBSET S |-> 0]
  <2>1. \A s \in SUBSET S : Cardinality(s) <= 0 => s = {}
    BY <1>1, FS_EmptySet
  <2>2. Good(g, 0)
    BY <2>1
  <2> HIDE DEF Good
  <2> QED
    BY <2>2
<1>3. ASSUME NEW n \in 0 .. Cardinality(S), n # 0, n - 1 \in P
      PROVE  n \in P
  <2>1. PICK it : Good(it, n - 1)
    BY <1>3
  <2> DEFINE g == [s \in SUBSET S |-> Rule(it, s)]
  <2>2. ASSUME NEW s \in SUBSET S, Cardinality(s) <= n
        PROVE  g[s] = Rule(g, s)
    <3>1. CASE s = {}
      BY <3>1
    <3>2. CASE s # {}
      <4> DEFINE c == Pick(s)
                 t == s \ {c}
      <4>1. c \in s
        BY <3>2, Picks
      <4> HIDE DEF c
      <4>2. t \in SUBSET S /\ Cardinality(t) <= n - 1
        <5>1. t \in SUBSET S /\ Cardinality(t) = Cardinality(s) - 1
          BY <1>1, <4>1, FS_RemoveElement
        <5> QED
          BY <1>1, <2>2, <5>1
      <4>3. it[t] = Rule(it, t)
        BY <2>1, <4>2
      <4> HIDE DEF t, Rule
      <4>4. g[t] = it[t]
        BY <4>2, <4>3
      <4>5. g[s] = Rule(it, s)
        OBVIOUS
      <4> HIDE DEF g
      <4> QED
        BY <3>2, <4>4, <4>5 DEF Rule, t, c
    <3> QED
      BY <3>1, <3>2
  <2> HIDE DEF g, Rule
  <2>3. Good(g, n)
    BY <2>2
  <2> HIDE DEF Good
  <2> QED
    BY <2>3
<1>4. 0 .. Cardinality(S) \subseteq P
  <2> HIDE DEF P
  <2> QED
    BY <1>1, <1>2, <1>3, Stepwise
<1>5. PICK it : Good(it, Cardinality(S))
  <2> HIDE DEF Good
  <2>1. Cardinality(S) \in 0 .. Cardinality(S)
    BY <1>1
  <2>2. Cardinality(S) \in P
    BY <1>4, <2>1
  <2> QED
    BY <2>2
<1> DEFINE g == [s \in SUBSET S |-> it[s]]
<1>6. ASSUME NEW s \in SUBSET S
      PROVE  g[s] = Rule(g, s)
  <2>1. it[s] = Rule(it, s) /\ g[s] = it[s] /\ g[s \ {Pick(s)}] = it[s \ {Pick(s)}]
    BY <1>1, <1>5
  <2> HIDE DEF g
  <2> QED
    BY <2>1
<1>7. g = [s \in SUBSET S |-> g[s]]
  OBVIOUS
<1> HIDE DEF g
<1>8. Summing(g, f, S)
  BY <1>6, <1>7 DEF Summing
<1> QED
  BY <1>8

\* What is summed to is a number, whichever summand is taken first.
LEMMA SummingAdds ==
  ASSUME NEW S, IsFiniteSet(S), NEW f, \A x \in S : f[x] \in Nat,
         NEW it, Summing(it, f, S), NEW T \in SUBSET S
  PROVE  /\ it[T] \in Nat
         /\ T = {} => it[T] = 0
         /\ \A x \in T : it[T] = f[x] + it[T \ {x}]
<1>1. \A U \in SUBSET S : it[U] = IF U = {} THEN 0 ELSE f[Pick(U)] + it[U \ {Pick(U)}]
  BY DEF Summing
<1>2. \A U \in SUBSET S : it[U] \in Nat
  <2> DEFINE N == {U \in SUBSET S : it[U] \in Nat}
  <2>1. ASSUME NEW U \in SUBSET S, \A x \in U : U \ {x} \in N
        PROVE  U \in N
    <3>1. CASE U = {}
      BY <1>1, <3>1
    <3>2. CASE U # {}
      <4>1. Pick(U) \in U
        BY <3>2, Picks
      <4>2. it[U] = f[Pick(U)] + it[U \ {Pick(U)}] /\ f[Pick(U)] \in Nat
        BY <1>1, <3>2, <4>1
      <4> QED
        BY <2>1, <4>1, <4>2
    <3> QED
      BY <3>1, <3>2
  <2>2. SUBSET S \subseteq N
    <3> HIDE DEF N
    <3> QED
      BY <2>1, Shrinking
  <2> QED
    BY <2>2
<1> DEFINE Right(U) == \A x \in U : it[U] = f[x] + it[U \ {x}]
           P == {U \in SUBSET S : Right(U)}
<1>3. ASSUME NEW U \in SUBSET S, \A x \in U : U \ {x} \in P
      PROVE  U \in P
  <2> DEFINE c == Pick(U)
  <2>1. ASSUME NEW x \in U
        PROVE  it[U] = f[x] + it[U \ {x}]
    <3>1. c \in U /\ it[U] = f[c] + it[U \ {c}]
      <4>1. U # {}
        BY <2>1
      <4> QED
        BY <1>1, <4>1, Picks
    <3> HIDE DEF c
    <3>2. CASE x = c
      BY <3>1, <3>2
    <3>3. CASE x # c
      <4> DEFINE W == (U \ {c}) \ {x}
      <4>1. Right(U \ {x}) /\ Right(U \ {c})
        BY <1>3, <3>1
      <4>2. x \in U \ {c} /\ c \in U \ {x} /\ W = (U \ {x}) \ {c} /\ W \in SUBSET S
        BY <3>1, <3>3
      <4>3. it[U \ {c}] = f[x] + it[W] /\ it[U \ {x}] = f[c] + it[W]
        BY <4>1, <4>2
      <4>4. f[x] \in Nat /\ f[c] \in Nat /\ it[W] \in Nat
        BY <1>2, <3>1, <4>2
      <4> HIDE DEF W, Right
      <4> QED
        BY <3>1, <4>3, <4>4
    <3> QED
      BY <3>2, <3>3
  <2> QED
    BY <2>1
<1>4. T \in P
  <2> HIDE DEF P
  <2> QED
    BY <1>3, Shrinking
<1>5. T = {} => it[T] = 0
  BY <1>1
<1> QED
  BY <1>2, <1>4, <1>5

\* Two sums of the same summands are the same, whatever sets they are part of.
LEMMA SummingSame ==
  ASSUME NEW T, IsFiniteSet(T), NEW f, NEW g, \A x \in T : f[x] = g[x],
         NEW S, NEW it, Summing(it, f, S), T \subseteq S,
         NEW R, NEW at, Summing(at, g, R), T \subseteq R
  PROVE  it[T] = at[T]
<1> DEFINE P == {U \in SUBSET T : it[U] = at[U]}
<1>1. /\ \A U \in SUBSET S : it[U] = IF U = {} THEN 0 ELSE f[Pick(U)] + it[U \ {Pick(U)}]
      /\ \A U \in SUBSET R : at[U] = IF U = {} THEN 0 ELSE g[Pick(U)] + at[U \ {Pick(U)}]
  BY DEF Summing
<1>2. ASSUME NEW U \in SUBSET T, \A x \in U : U \ {x} \in P
      PROVE  U \in P
  <2>1. U \in SUBSET S /\ U \in SUBSET R
    OBVIOUS
  <2>2. CASE U = {}
    <3>1. it[U] = 0 /\ at[U] = 0
      BY <1>1, <2>1, <2>2
    <3> QED
      BY <3>1
  <2>3. CASE U # {}
    <3>1. Pick(U) \in U
      BY <2>3, Picks
    <3>2. f[Pick(U)] = g[Pick(U)] /\ it[U \ {Pick(U)}] = at[U \ {Pick(U)}]
      BY <1>2, <3>1
    <3>3. it[U] = f[Pick(U)] + it[U \ {Pick(U)}] /\ at[U] = g[Pick(U)] + at[U \ {Pick(U)}]
      BY <1>1, <2>1, <2>3
    <3> QED
      BY <3>2, <3>3
  <2> QED
    BY <2>2, <2>3
<1>3. T \in P
  <2> HIDE DEF P
  <2> QED
    BY <1>2, Shrinking
<1> QED
  BY <1>3

LEMMA SumIs ==
  ASSUME NEW S, IsFiniteSet(S), NEW f, NEW R, IsFiniteSet(R), S \subseteq R,
         NEW it, Summing(it, f, R)
  PROVE  it[S] = SumOf(f, S)
<1> DEFINE at == CHOOSE at : Summing(at, f, S)
<1>1. Summing(at, f, S)
  BY SummingExists
<1>2. SumOf(f, S) = at[S]
  BY DEF SumOf
<1> HIDE DEF at
<1> QED
  BY <1>1, <1>2, SummingSame

Numbers(f, S) == \A x \in S : f[x] \in Nat

LEMMA SumAdds ==
  ASSUME NEW S, IsFiniteSet(S), NEW f, Numbers(f, S)
  PROVE  /\ SumOf(f, S) \in Nat
         /\ S = {} => SumOf(f, S) = 0
         /\ \A x \in S : SumOf(f, S) = f[x] + SumOf(f, S \ {x})
<1>1. PICK it : Summing(it, f, S)
  BY SummingExists
<1>2. it[S] = SumOf(f, S)
  BY <1>1, SumIs
<1>3. ASSUME NEW x \in S
      PROVE  it[S \ {x}] = SumOf(f, S \ {x})
  <2>1. IsFiniteSet(S \ {x}) /\ S \ {x} \subseteq S
    BY FS_RemoveElement
  <2> QED
    BY <1>1, <2>1, SumIs
<1>4. S \in SUBSET S /\ \A x \in S : f[x] \in Nat
  BY DEF Numbers
<1>5. /\ it[S] \in Nat /\ (S = {} => it[S] = 0)
      /\ \A x \in S : it[S] = f[x] + it[S \ {x}]
  BY <1>1, <1>4, SummingAdds
<1> QED
  BY <1>2, <1>3, <1>5

LEMMA SumSame ==
  ASSUME NEW S, IsFiniteSet(S), NEW f, NEW g, \A x \in S : f[x] = g[x]
  PROVE  SumOf(f, S) = SumOf(g, S)
<1>1. PICK it : Summing(it, f, S)
  BY SummingExists
<1>2. PICK at : Summing(at, g, S)
  BY SummingExists
<1>3. it[S] = SumOf(f, S) /\ at[S] = SumOf(g, S)
  BY <1>1, <1>2, SumIs
<1>4. it[S] = at[S]
  BY <1>1, <1>2, SummingSame
<1> QED
  BY <1>3, <1>4

LEMMA SumGrows ==
  ASSUME NEW S, IsFiniteSet(S), NEW f, Numbers(f, S), NEW g, NEW x \in S,
         g[x] = f[x] + 1, \A y \in S : y # x => g[y] = f[y]
  PROVE  SumOf(g, S) = SumOf(f, S) + 1 /\ Numbers(g, S)
<1>1. Numbers(g, S)
  BY DEF Numbers
<1>2. IsFiniteSet(S \ {x}) /\ Numbers(f, S \ {x}) /\ f[x] \in Nat
  BY FS_RemoveElement DEF Numbers
<1>3. SumOf(g, S \ {x}) = SumOf(f, S \ {x}) /\ SumOf(f, S \ {x}) \in Nat
  <2>1. \A y \in S \ {x} : g[y] = f[y]
    OBVIOUS
  <2>2. SumOf(g, S \ {x}) = SumOf(f, S \ {x})
    BY <1>2, <2>1, SumSame
  <2>3. SumOf(f, S \ {x}) \in Nat
    BY <1>2, SumAdds
  <2> QED
    BY <2>2, <2>3
<1>4. SumOf(f, S) = f[x] + SumOf(f, S \ {x})
  BY SumAdds
<1>5. SumOf(g, S) = g[x] + SumOf(g, S \ {x})
  BY <1>1, SumAdds
<1> QED
  BY <1>1, <1>2, <1>3, <1>4, <1>5

LEMMA SumBounds ==
  ASSUME NEW S, IsFiniteSet(S), NEW f, Numbers(f, S), NEW x \in S
  PROVE  f[x] <= SumOf(f, S)
<1>1. IsFiniteSet(S \ {x}) /\ Numbers(f, S \ {x}) /\ f[x] \in Nat
  BY FS_RemoveElement DEF Numbers
<1>2. SumOf(f, S \ {x}) \in Nat
  BY <1>1, SumAdds
<1>3. SumOf(f, S) = f[x] + SumOf(f, S \ {x})
  BY SumAdds
<1> QED
  BY <1>1, <1>2, <1>3

LEMMA SumOfNothing ==
  ASSUME NEW S, IsFiniteSet(S), NEW f, \A x \in S : f[x] = 0
  PROVE  SumOf(f, S) = 0
<1> DEFINE P == {T \in SUBSET S : SumOf(f, T) = 0}
<1>1. ASSUME NEW T \in SUBSET S, \A x \in T : T \ {x} \in P
      PROVE  T \in P
  <2>1. IsFiniteSet(T) /\ Numbers(f, T)
    BY FS_Subset DEF Numbers
  <2>2. CASE T = {}
    <3>1. SumOf(f, T) = 0
      BY <2>1, <2>2, SumAdds
    <3> QED
      BY <3>1
  <2>3. CASE T # {}
    <3>1. PICK x \in T : TRUE
      BY <2>3
    <3>2. SumOf(f, T) = f[x] + SumOf(f, T \ {x})
      BY <2>1, SumAdds
    <3>3. f[x] = 0 /\ SumOf(f, T \ {x}) = 0
      BY <1>1
    <3> QED
      BY <3>2, <3>3
  <2> QED
    BY <2>2, <2>3
<1>2. S \in P
  <2> HIDE DEF P
  <2> QED
    BY <1>1, Shrinking
<1> QED
  BY <1>2

----
(* The sums of the summary                                                 *)

LEMMA TotalIs ==
  ASSUME NEW R, IsFiniteSet(R)
  PROVE  Total(R) = SumOf([r \in R |-> r.count], R)
<1> DEFINE F == [r \in R |-> r.count]
           Rule(it, s) == IF s = {} THEN 0 ELSE Pick(s).count + it[s \ {Pick(s)}]
           Counting(it) == it = [s \in SUBSET R |-> Rule(it, s)]
           it0 == CHOOSE it : Counting(it)
<1>1. Total(R) = it0[R]
  BY DEF Total, MapThenSumSet, MapThenFoldSet, Pick
<1>2. ASSUME NEW it
      PROVE  Counting(it) <=> Summing(it, F, R)
  <2>1. ASSUME NEW s \in SUBSET R
        PROVE  Rule(it, s) = IF s = {} THEN 0 ELSE F[Pick(s)] + it[s \ {Pick(s)}]
    <3>1. s # {} => F[Pick(s)] = Pick(s).count
      BY Picks
    <3> HIDE DEF F
    <3> QED
      BY <3>1
  <2> HIDE DEF Rule, F
  <2> QED
    BY <2>1 DEF Summing
<1>3. \E it : Counting(it)
  BY <1>2, SummingExists
<1>4. Counting(it0)
  <2> HIDE DEF Counting
  <2> QED
    BY <1>3
<1> HIDE DEF it0, Counting, F
<1>5. it0[R] = SumOf(F, R)
  BY <1>2, <1>4, SumIs
<1> QED
  BY <1>1, <1>5 DEF F

LEMMA CountOfIs ==
  ASSUME NEW counts, NEW S, IsFiniteSet(S)
  PROVE  CountOf(counts, S) = SumOf(counts, S)
<1> DEFINE it0 == CHOOSE it : Summing(it, counts, S)
<1>1. CountOf(counts, S) = it0[S]
  BY DEF CountOf, MapThenSumSet, MapThenFoldSet, Pick, Summing
<1>2. Summing(it0, counts, S)
  BY SummingExists
<1> HIDE DEF it0
<1> QED
  BY <1>1, <1>2, SumIs

\* The counts of a status in each namespace.
InSpaces(spaces, t) == [ns \in DOMAIN spaces |-> spaces[ns].counts[t]]

LEMMA SpacesSum ==
  ASSUME NEW spaces, IsFiniteSet(DOMAIN spaces), NEW t
  PROVE  MapThenSumSet(LAMBDA ns : spaces[ns].counts[t], DOMAIN spaces)
           = SumOf(InSpaces(spaces, t), DOMAIN spaces)
<1> DEFINE R == DOMAIN spaces
           F == InSpaces(spaces, t)
           Rule(it, s) == IF s = {} THEN 0
                          ELSE spaces[Pick(s)].counts[t] + it[s \ {Pick(s)}]
           Counting(it) == it = [s \in SUBSET R |-> Rule(it, s)]
           it0 == CHOOSE it : Counting(it)
<1>1. MapThenSumSet(LAMBDA ns : spaces[ns].counts[t], DOMAIN spaces) = it0[R]
  BY DEF MapThenSumSet, MapThenFoldSet, Pick
<1>2. ASSUME NEW it
      PROVE  Counting(it) <=> Summing(it, F, R)
  <2>1. ASSUME NEW s \in SUBSET R
        PROVE  Rule(it, s) = IF s = {} THEN 0 ELSE F[Pick(s)] + it[s \ {Pick(s)}]
    <3>1. s # {} => F[Pick(s)] = spaces[Pick(s)].counts[t]
      BY Picks DEF InSpaces
    <3> HIDE DEF F
    <3> QED
      BY <3>1
  <2> HIDE DEF Rule, F
  <2> QED
    BY <2>1 DEF Summing
<1>3. \E it : Counting(it)
  BY <1>2, SummingExists
<1>4. Counting(it0)
  <2> HIDE DEF Counting
  <2> QED
    BY <1>3
<1> HIDE DEF Counting
<1>5. IsFiniteSet(R) /\ Summing(it0, F, R)
  BY <1>2, <1>4
<1> HIDE DEF it0, F
<1>6. it0[R] = SumOf(F, R)
  BY <1>5, SumIs
<1> QED
  BY <1>1, <1>6 DEF F

----
(* What makes an entity UNHEALTHY                                          *)

Counted(R) == IsFiniteSet(R) /\ \A r \in R : r.count \in Nat

LEMMA TotalBounds ==
  ASSUME NEW R, Counted(R)
  PROVE  Total(R) \in Nat /\ \A r \in R : r.count <= Total(R)
<1> DEFINE F == [r \in R |-> r.count]
<1>1. IsFiniteSet(R) /\ Numbers(F, R) /\ \A r \in R : F[r] = r.count
  BY DEF Counted, Numbers
<1> HIDE DEF F
<1>2. Total(R) = SumOf(F, R)
  BY <1>1, TotalIs DEF F
<1>3. SumOf(F, R) \in Nat
  BY <1>1, SumAdds
<1>4. \A r \in R : F[r] <= SumOf(F, R)
  BY <1>1, SumBounds
<1> QED
  BY <1>1, <1>2, <1>3, <1>4

LEMMA SubCounted ==
  ASSUME NEW R, Counted(R), NEW Q \in SUBSET R
  PROVE  Counted(Q)
  BY FS_Subset DEF Counted

LEMMA RateIsNat ==
  ASSUME NEW R, Counted(R)
  PROVE  calculateErrorRate(R) \in Nat
<1> DEFINE Q == {r \in R : isErrorCode(r)}
           n == Total(R)
           m == Total(Q)
<1>1. n \in Nat
  BY TotalBounds
<1>2. m \in Nat
  <2>1. Counted(Q)
    BY SubCounted
  <2> HIDE DEF Q
  <2> QED
    BY <2>1, TotalBounds
<1>3. calculateErrorRate(R) = IF n = 0 THEN 0 ELSE (1000 * m) \div n
  BY DEF calculateErrorRate
<1> HIDE DEF n, m
<1>4. ASSUME n # 0
      PROVE  (1000 * m) \div n \in Nat
  <2>1. 1000 * m \in Nat /\ n \in Nat \ {0}
    BY <1>1, <1>2, <1>4
  <2>2. \A a \in Nat, b \in Nat \ {0} : a \div b \in Nat
    OBVIOUS
  <2> QED
    BY <2>1, <2>2
<1> QED
  BY <1>3, <1>4

Peer(R, r) == {q \in R : q.direction = r.direction /\ q.protocol = r.protocol}

LEMMA CodesFail ==
  ASSUME NEW R, Counted(R), NEW r \in R
  PROVE  /\ Total(Peer(R, r)) \in Nat
         /\ Total(Peer(R, r)) > 0 /\ getStatusForCodeRatio(r, Total(Peer(R, r))) = "UNHEALTHY"
              <=> /\ isErrorCode(r) /\ r.count > 0
                  /\ IF r.code = "4xx" THEN 5 * r.count >= Total(Peer(R, r))
                     ELSE 10 * r.count >= Total(Peer(R, r))
         /\ getStatusForCodeRatio(r, Total(Peer(R, r))) \in {"UNHEALTHY", "DEGRADED", "HEALTHY"}
<1> DEFINE n == Total(Peer(R, r))
<1>1. n \in Nat /\ r.count \in Nat /\ r.count <= n
  <2>1. Counted(Peer(R, r)) /\ r \in Peer(R, r)
    BY SubCounted DEF Peer
  <2>2. r.count \in Nat
    BY DEF Counted
  <2> QED
    BY <2>1, <2>2, TotalBounds
<1> HIDE DEF n
<1>2. /\ n > 0 /\ getStatusForCodeRatio(r, n) = "UNHEALTHY"
           <=> /\ isErrorCode(r) /\ r.count > 0
               /\ IF r.code = "4xx" THEN 5 * r.count >= n ELSE 10 * r.count >= n
      /\ getStatusForCodeRatio(r, n) \in {"UNHEALTHY", "DEGRADED", "HEALTHY"}
  <2>1. CASE r.code = "4xx"
    BY <1>1, <2>1 DEF getStatusForCodeRatio
  <2>2. CASE r.code # "4xx"
    BY <1>1, <2>2 DEF getStatusForCodeRatio
  <2> QED
    BY <2>1, <2>2
<1> QED
  BY <1>1, <1>2 DEF n

LEMMA FailingIs ==
  ASSUME NEW e, Counted(e.requests)
  PROVE  /\ evaluateRequestHealth(e.requests) \in {"UNHEALTHY", "DEGRADED", "HEALTHY"}
         /\ evaluateRequestHealth(e.requests) = "UNHEALTHY" <=> Failing(e)
         /\ Failing(e) => hasAnyRequests(e.requests)
<1> DEFINE R == e.requests
           found == {getStatusForCodeRatio(r, Total(Peer(R, r))) :
                       r \in {q \in R : Total(Peer(R, q)) > 0}}
           Best(s) == /\ s \in found \cup {"HEALTHY"}
                      /\ \A t \in found : Priority(t) <= Priority(s)
           Three == {"UNHEALTHY", "DEGRADED", "HEALTHY"}
<1>1. evaluateRequestHealth(R) = CHOOSE s \in Three : Best(s)
  BY DEF evaluateRequestHealth, Peer
<1>2. found \subseteq Three
  BY CodesFail
<1>3. Failing(e) <=> \E r \in R : /\ isErrorCode(r) /\ r.count > 0
                                  /\ IF r.code = "4xx" THEN 5 * r.count >= Total(Peer(R, r))
                                     ELSE 10 * r.count >= Total(Peer(R, r))
  <2>1. \A r \in R : {q \in R : <<q.direction, q.protocol>> = <<r.direction, r.protocol>>} = Peer(R, r)
    BY DEF Peer
  <2> QED
    BY <2>1 DEF Failing
<1>4. Failing(e) <=> "UNHEALTHY" \in found
  <2>1. \A r \in R : Total(Peer(R, r)) > 0 /\ getStatusForCodeRatio(r, Total(Peer(R, r))) = "UNHEALTHY"
                       <=> /\ isErrorCode(r) /\ r.count > 0
                           /\ IF r.code = "4xx" THEN 5 * r.count >= Total(Peer(R, r))
                              ELSE 10 * r.count >= Total(Peer(R, r))
    BY CodesFail
  <2>2. Failing(e) <=> \E r \in R : /\ Total(Peer(R, r)) > 0
                                    /\ getStatusForCodeRatio(r, Total(Peer(R, r))) = "UNHEALTHY"
    BY <1>3, <2>1
  <2> QED
    BY <2>2
<1> HIDE DEF found
<1>5. /\ Priority("UNHEALTHY") = 4 /\ Priority("DEGRADED") = 3 /\ Priority("HEALTHY") = 1
  BY DEF Priority
<1>6. \E s \in Three : Best(s)
  <2>1. CASE "UNHEALTHY" \in found
    BY <1>2, <1>5, <2>1
  <2>2. CASE "UNHEALTHY" \notin found /\ "DEGRADED" \in found
    BY <1>2, <1>5, <2>2
  <2>3. CASE "UNHEALTHY" \notin found /\ "DEGRADED" \notin found
    BY <1>2, <1>5, <2>3
  <2> QED
    BY <2>1, <2>2, <2>3
<1>7. evaluateRequestHealth(R) \in Three /\ Best(evaluateRequestHealth(R))
  <2> HIDE DEF Best, Three
  <2> QED
    BY <1>1, <1>6
<1>8. evaluateRequestHealth(R) = "UNHEALTHY" <=> "UNHEALTHY" \in found
  <2> DEFINE v == evaluateRequestHealth(R)
  <2>1. v \in Three /\ Best(v)
    BY <1>7
  <2> HIDE DEF v
  <2>2. v = "UNHEALTHY" <=> "UNHEALTHY" \in found
    BY <1>2, <1>5, <2>1
  <2> QED
    BY <2>2 DEF v
<1>9. Failing(e) => hasAnyRequests(R)
  BY <1>3 DEF hasAnyRequests
<1> QED
  BY <1>4, <1>7, <1>8, <1>9

IsMerging(f, w, n) ==
  f = [i \in 0 .. n |-> IF i = 0 THEN "HEALTHY" ELSE WithStatus(f[i - 1], w[i])]

LEMMA MergingExists ==
  ASSUME NEW w, NEW n \in Nat
  PROVE  \E f : IsMerging(f, w, n)
<1> DEFINE P == {m \in Nat : \E f : IsMerging(f, w, m)}
<1>1. 0 \in P
  <2>1. IsMerging([j \in 0 .. 0 |-> "HEALTHY"], w, 0)
    BY DEF IsMerging
  <2> QED
    BY <2>1
<1>2. ASSUME NEW m \in 0 .. n, m # 0, m - 1 \in P
      PROVE  m \in P
  <2>1. PICK f : IsMerging(f, w, m - 1)
    BY <1>2
  <2> DEFINE g == [j \in 0 .. m |-> IF j = m THEN WithStatus(f[m - 1], w[m]) ELSE f[j]]
  <2>2. ASSUME NEW j \in 0 .. m
        PROVE  g[j] = IF j = 0 THEN "HEALTHY" ELSE WithStatus(g[j - 1], w[j])
    <3>1. CASE j = m
      <4>1. g[j] = WithStatus(f[m - 1], w[m]) /\ g[m - 1] = f[m - 1]
        BY <1>2, <3>1
      <4> QED
        BY <1>2, <3>1, <4>1
    <3>2. CASE j # m
      <4>1. j \in 0 .. m - 1 /\ g[j] = f[j] /\ (j # 0 => g[j - 1] = f[j - 1])
        BY <1>2, <3>2
      <4>2. f[j] = IF j = 0 THEN "HEALTHY" ELSE WithStatus(f[j - 1], w[j])
        BY <2>1, <4>1 DEF IsMerging
      <4> QED
        BY <4>1, <4>2
    <3> QED
      BY <3>1, <3>2
  <2>3. g = [j \in 0 .. m |-> g[j]]
    OBVIOUS
  <2> HIDE DEF g
  <2>4. IsMerging(g, w, m)
    BY <2>2, <2>3 DEF IsMerging
  <2> QED
    BY <2>4
<1>3. 0 .. n \subseteq P
  <2> HIDE DEF P
  <2> QED
    BY <1>1, <1>2, Stepwise
<1> QED
  BY <1>3

Merged == {"UNHEALTHY", "DEGRADED", "NOT_READY", "HEALTHY"}

\* One workload status more.
LEMMA WithStatusDoes ==
  ASSUME NEW s \in Merged, NEW x, x.desired \in Nat, x.available \in Nat
  PROVE  /\ WithStatus(s, x) \in Merged
         /\ x.desired # 0 =>
              (WithStatus(s, x) = "UNHEALTHY" <=> s = "UNHEALTHY" \/ x.available = 0)
  BY DEF WithStatus, Merged

\* When nothing is scaled to 0, workload statuses are UNHEALTHY when one is down.
LEMMA StatusesDo ==
  ASSUME NEW W, \A x \in W : x.desired \in Nat /\ x.available \in Nat, NEW w \in Seq(W)
  PROVE  /\ WithStatuses(w) \in Merged
         /\ (\A i \in DOMAIN w : w[i].desired # 0) =>
              (WithStatuses(w) = "UNHEALTHY" <=>
                 \E i \in DOMAIN w : w[i].desired > 0 /\ w[i].available = 0)
<1> DEFINE n == Len(w)
<1>1. n \in Nat /\ DOMAIN w = 1 .. n /\ \A i \in 1 .. n : w[i].desired \in Nat /\ w[i].available \in Nat
  BY LenProperties, ElementOfSeq
<1>2. PICK f : IsMerging(f, w, n) /\ WithStatuses(w) = f[n]
  <2>1. \E f : IsMerging(f, w, n)
    BY <1>1, MergingExists
  <2> QED
    BY <2>1 DEF WithStatuses, IsMerging
<1> HIDE DEF n
<1> DEFINE Right(s, j) == /\ s \in Merged
                          /\ (\A i \in 1 .. n : w[i].desired # 0) =>
                               (s = "UNHEALTHY" <=> \E i \in 1 .. j : w[i].available = 0)
           P == {j \in 0 .. n : Right(f[j], j)}
<1>3. 0 \in P
  <2>1. f[0] = "HEALTHY"
    BY <1>1, <1>2 DEF IsMerging
  <2>2. Right("HEALTHY", 0)
    BY DEF Merged
  <2> HIDE DEF Right
  <2> QED
    BY <1>1, <2>1, <2>2
<1>4. ASSUME NEW j \in 0 .. n, j # 0, j - 1 \in P
      PROVE  j \in P
  <2> DEFINE s == f[j - 1]
             u == WithStatus(s, w[j])
  <2>1. f[j] = u
    BY <1>2, <1>4 DEF IsMerging
  <2>2. Right(s, j - 1)
    BY <1>4
  <2>3. j \in 1 .. n /\ j \in Nat /\ 1 .. j = (1 .. j - 1) \cup {j}
    BY <1>1, <1>4
  <2> HIDE DEF s
  <2>4. w[j].desired \in Nat /\ w[j].available \in Nat /\ s \in Merged
    BY <1>1, <2>2, <2>3
  <2>5. /\ u \in Merged
        /\ w[j].desired # 0 => (u = "UNHEALTHY" <=> s = "UNHEALTHY" \/ w[j].available = 0)
    BY <2>4, WithStatusDoes
  <2> HIDE DEF u
  <2>6. Right(u, j)
    BY <2>2, <2>3, <2>5
  <2> HIDE DEF Right
  <2> QED
    BY <2>1, <2>6
<1>5. 0 .. n \subseteq P
  <2> HIDE DEF P
  <2> QED
    BY <1>1, <1>3, <1>4, Stepwise
<1>6. Right(f[n], n)
  <2> HIDE DEF Right
  <2>1. n \in 0 .. n
    BY <1>1
  <2> QED
    BY <1>5, <2>1
<1>7. ASSUME \A i \in 1 .. n : w[i].desired # 0
      PROVE  (\E i \in 1 .. n : w[i].available = 0)
               <=> \E i \in 1 .. n : w[i].desired > 0 /\ w[i].available = 0
  BY <1>1, <1>7
<1> QED
  BY <1>1, <1>2, <1>6, <1>7

\* An entity as Kiali reports one.
Formed(e, spaces) ==
  /\ e.ns \in spaces
  /\ Counted(e.requests)
  /\ e.statuses \in Seq(ToSet(e.statuses))
  /\ \A w \in ToSet(e.statuses) : w.desired \in Nat /\ w.available \in Nat
  /\ e.type = "service" => e.statuses = <<>>

LEMMA PriorityIs ==
  /\ Priority("UNHEALTHY") = 4 /\ Priority("DEGRADED") = 3 /\ Priority("NOT_READY") = 2
  /\ Priority("HEALTHY") = 1 /\ Priority("UNKNOWN") = 0
  BY DEF Priority

LEMMA MergeDoes ==
  ASSUME NEW s \in Statuses, NEW t \in Statuses
  PROVE  /\ mergeHealthStatus(s, t) \in Statuses
         /\ mergeHealthStatus(s, t) = "UNHEALTHY" <=> s = "UNHEALTHY" \/ t = "UNHEALTHY"
<1>1. CASE Priority(s) > Priority(t)
  <2>1. mergeHealthStatus(s, t) = s
    BY <1>1 DEF mergeHealthStatus
  <2> QED
    BY <1>1, <2>1, PriorityIs DEF Statuses
<1>2. CASE ~ (Priority(s) > Priority(t))
  <2>1. mergeHealthStatus(s, t) = t
    BY <1>2 DEF mergeHealthStatus
  <2> QED
    BY <1>2, <2>1, PriorityIs DEF Statuses
<1> QED
  BY <1>1, <1>2

\* An entity that is not scaled to 0 is UNHEALTHY when a workload of it is down or
\* too many of its requests fail.
LEMMA StatusIs ==
  ASSUME NEW e, NEW spaces, Formed(e, spaces), e.type \in {"app", "service", "workload"}
  PROVE  /\ StatusOf(e) \in Statuses
         /\ ~ Scaled(e) => (StatusOf(e) = "UNHEALTHY" <=> Unhealthy(e))
<1> DEFINE w == WithStatuses(e.statuses)
           q == evaluateRequestHealth(e.requests)
           m == mergeHealthStatus(w, q)
<1>1. /\ w \in Merged
      /\ ~ Scaled(e) => (w = "UNHEALTHY" <=> Down(e))
  BY StatusesDo DEF Formed, Scaled, Down
<1>2. /\ q \in {"UNHEALTHY", "DEGRADED", "HEALTHY"}
      /\ q = "UNHEALTHY" <=> Failing(e)
      /\ Failing(e) => hasAnyRequests(e.requests)
  BY FailingIs DEF Formed
<1>3. m \in Statuses /\ (m = "UNHEALTHY" <=> w = "UNHEALTHY" \/ q = "UNHEALTHY")
  <2>1. w \in Statuses /\ q \in Statuses
    BY <1>1, <1>2 DEF Merged, Statuses
  <2> QED
    BY <2>1, MergeDoes
<1>4. e.statuses = <<>> => ~ Down(e)
  BY DEF Down
<1>5. CASE e.type = "app"
  <2>1. StatusOf(e) = IF e.statuses = <<>> THEN "UNKNOWN" ELSE m
    BY <1>5 DEF StatusOf, evaluateAppHealth
  <2> HIDE DEF w, q, m
  <2> QED
    BY <1>1, <1>2, <1>3, <1>5, <2>1 DEF Unhealthy, Statuses
<1>6. CASE e.type = "service"
  <2>1. StatusOf(e) = IF ~hasAnyRequests(e.requests) THEN "UNKNOWN" ELSE q
    BY <1>6 DEF StatusOf, evaluateServiceHealth
  <2>2. e.statuses = <<>>
    BY <1>6 DEF Formed
  <2> HIDE DEF w, q, m
  <2> QED
    BY <1>2, <1>4, <1>6, <2>1, <2>2 DEF Unhealthy, Statuses
<1>7. CASE e.type = "workload"
  <2>1. StatusOf(e) = IF e.statuses = <<>> /\ ~hasAnyRequests(e.requests) THEN "UNKNOWN" ELSE m
    BY <1>7 DEF StatusOf, evaluateWorkloadHealth
  <2> HIDE DEF w, q, m
  <2> QED
    BY <1>1, <1>2, <1>3, <1>4, <1>7, <2>1 DEF Unhealthy, Statuses
<1> QED
  BY <1>5, <1>6, <1>7

----
(* Counting entities                                                       *)

EntryOf(e) == [ns |-> e.ns, name |-> e.name, rate |-> calculateErrorRate(e.requests)]
EntriesOf(D) == {EntryOf(e) : e \in D}
WithStatusOf(D, t) == {e \in D : StatusOf(e) = t}

\* What a summary in the making says of the entities that were counted: how many
\* have which status, in all and over the namespaces, and which are UNHEALTHY.
InAll(c, D) ==
  /\ c.all \in [Statuses -> Nat]
  /\ \A t \in Statuses : c.all[t] = Cardinality(WithStatusOf(D, t))
  /\ SumOf(c.all, Statuses) = Cardinality(D)

InEach(c, spaces) ==
  /\ DOMAIN c.spaces = spaces
  /\ \A ns \in spaces : c.spaces[ns].counts \in [Statuses -> Nat]
  /\ \A t \in Statuses : c.all[t] = SumOf(InSpaces(c.spaces, t), spaces)

InTop(c, D) ==
  /\ c.top \in Seq(EntriesOf(D))
  /\ Len(c.top) = c.all["UNHEALTHY"]
  /\ \A e \in WithStatusOf(D, "UNHEALTHY") : \E i \in DOMAIN c.top : c.top[i] = EntryOf(e)

LEMMA StatusesFinite == IsFiniteSet(Statuses)
<1>1. IsFiniteSet({"UNHEALTHY"})
  BY FS_Singleton
<1>2. IsFiniteSet({"UNHEALTHY"} \cup {"DEGRADED"})
  BY <1>1, FS_AddElement
<1>3. IsFiniteSet({"UNHEALTHY"} \cup {"DEGRADED"} \cup {"NOT_READY"})
  BY <1>2, FS_AddElement
<1>4. IsFiniteSet({"UNHEALTHY"} \cup {"DEGRADED"} \cup {"NOT_READY"} \cup {"HEALTHY"})
  BY <1>3, FS_AddElement
<1>5. IsFiniteSet({"UNHEALTHY"} \cup {"DEGRADED"} \cup {"NOT_READY"} \cup {"HEALTHY"} \cup {"UNKNOWN"})
  BY <1>4, FS_AddElement
<1>6. Statuses = {"UNHEALTHY"} \cup {"DEGRADED"} \cup {"NOT_READY"} \cup {"HEALTHY"} \cup {"UNKNOWN"}
  BY DEF Statuses
<1> QED
  BY <1>5, <1>6

LEMMA NothingIs ==
  ASSUME NEW spaces, IsFiniteSet(spaces), NEW c, c = NothingCounted(spaces)
  PROVE  InAll(c, {}) /\ InEach(c, spaces) /\ InTop(c, {})
<1>1. /\ c.all = NoCounts /\ c.top = <<>>
      /\ DOMAIN c.spaces = spaces /\ \A ns \in spaces : c.spaces[ns].counts = NoCounts
  BY DEF NothingCounted, NoNamespace
<1>2. NoCounts \in [Statuses -> Nat] /\ \A t \in Statuses : NoCounts[t] = 0
  BY DEF NoCounts
<1>3. Cardinality({}) = 0
  BY FS_EmptySet
<1>4. SumOf(NoCounts, Statuses) = 0
  BY <1>2, StatusesFinite, SumOfNothing
<1>5. InAll(c, {})
  <2>1. \A t \in Statuses : WithStatusOf({}, t) = {}
    BY DEF WithStatusOf
  <2> QED
    BY <1>1, <1>2, <1>3, <1>4, <2>1 DEF InAll
<1>6. InEach(c, spaces)
  <2>1. ASSUME NEW t \in Statuses
        PROVE  SumOf(InSpaces(c.spaces, t), spaces) = 0
    <3>1. \A ns \in spaces : InSpaces(c.spaces, t)[ns] = 0
      BY <1>1, <1>2 DEF InSpaces
    <3> QED
      BY <3>1, SumOfNothing
  <2> QED
    BY <1>1, <1>2, <2>1 DEF InEach
<1>7. InTop(c, {})
  <2>1. WithStatusOf({}, "UNHEALTHY") = {} /\ "UNHEALTHY" \in Statuses
    BY DEF WithStatusOf, Statuses
  <2>2. <<>> \in Seq(EntriesOf({})) /\ Len(<<>>) = 0
    BY EmptySeq
  <2> QED
    BY <1>1, <1>2, <2>1, <2>2 DEF InTop
<1> QED
  BY <1>5, <1>6, <1>7

\* One more entity counted.
LEMMA CountDoes ==
  ASSUME NEW spaces, IsFiniteSet(spaces), NEW D, IsFiniteSet(D), NEW e, e \notin D,
         e.ns \in spaces, StatusOf(e) \in Statuses,
         NEW c, InAll(c, D), InEach(c, spaces), InTop(c, D),
         NEW d, d = Count(c, e), NEW C, C = D \cup {e}
  PROVE  InAll(d, C) /\ InEach(d, spaces) /\ InTop(d, C)
<1> DEFINE s == StatusOf(e)
<1> HIDE DEF s
<1>0. s \in Statuses /\ s = StatusOf(e)
  BY DEF s
<1>1. /\ d.all = [c.all EXCEPT ![s] = @ + 1]
      /\ d.spaces = [c.spaces EXCEPT ![e.ns] =
           [counts |-> [c.spaces[e.ns].counts EXCEPT ![s] = @ + 1],
            rate |-> c.spaces[e.ns].rate + calculateErrorRate(e.requests)]]
      /\ d.top = IF s = "UNHEALTHY" THEN Append(c.top, EntryOf(e)) ELSE c.top
  <2>1. d.all = [c.all EXCEPT ![s] = @ + 1]
    BY DEF Count, EntryOf, s
  <2>2. d.spaces = [c.spaces EXCEPT ![e.ns] =
           [counts |-> [c.spaces[e.ns].counts EXCEPT ![s] = @ + 1],
            rate |-> c.spaces[e.ns].rate + calculateErrorRate(e.requests)]]
    BY DEF Count, s
  <2>3. d.top = IF s = "UNHEALTHY" THEN Append(c.top, EntryOf(e)) ELSE c.top
    BY DEF Count, EntryOf, s
  <2> QED
    BY <2>1, <2>2, <2>3, Zenon
<1>2. IsFiniteSet(C) /\ Cardinality(C) = Cardinality(D) + 1
  BY FS_AddElement
<1>3. ASSUME NEW t \in Statuses
      PROVE  Cardinality(WithStatusOf(C, t))
               = Cardinality(WithStatusOf(D, t)) + (IF t = s THEN 1 ELSE 0)
  <2>1. IsFiniteSet(WithStatusOf(D, t)) /\ e \notin WithStatusOf(D, t)
    BY FS_Subset DEF WithStatusOf
  <2>2. Cardinality(WithStatusOf(D, t)) \in Nat
    BY <2>1, FS_CardinalityType
  <2>3. CASE t = s
    <3>1. WithStatusOf(C, t) = WithStatusOf(D, t) \cup {e}
      BY <1>0, <2>3 DEF WithStatusOf
    <3> QED
      BY <2>1, <2>2, <2>3, <3>1, FS_AddElement
  <2>4. CASE t # s
    <3>1. WithStatusOf(C, t) = WithStatusOf(D, t)
      BY <1>0, <2>4 DEF WithStatusOf
    <3> QED
      BY <2>2, <2>4, <3>1
  <2> QED
    BY <2>3, <2>4
<1>4. c.all \in [Statuses -> Nat]
  BY DEF InAll
<1>5. /\ d.all \in [Statuses -> Nat]
      /\ \A t \in Statuses : d.all[t] = c.all[t] + (IF t = s THEN 1 ELSE 0)
  BY <1>0, <1>1, <1>4
<1>6. InAll(d, C)
  <2>1. \A t \in Statuses : d.all[t] = Cardinality(WithStatusOf(C, t))
    BY <1>3, <1>5 DEF InAll
  <2>2. SumOf(d.all, Statuses) = SumOf(c.all, Statuses) + 1
    <3>1. Numbers(c.all, Statuses)
      BY <1>4 DEF Numbers
    <3>2. d.all[s] = c.all[s] + 1 /\ \A t \in Statuses : t # s => d.all[t] = c.all[t]
      BY <1>0, <1>4, <1>5
    <3> QED
      BY <1>0, <3>1, <3>2, StatusesFinite, SumGrows
  <2> QED
    BY <1>2, <1>5, <2>1, <2>2 DEF InAll
<1>7. InEach(d, spaces)
  <2>1. /\ DOMAIN c.spaces = spaces
        /\ \A ns \in spaces : c.spaces[ns].counts \in [Statuses -> Nat]
    BY DEF InEach
  <2>2. /\ DOMAIN d.spaces = spaces
        /\ d.spaces[e.ns].counts = [c.spaces[e.ns].counts EXCEPT ![s] = @ + 1]
        /\ \A ns \in spaces : ns # e.ns => d.spaces[ns] = c.spaces[ns]
    <3> DEFINE old == c.spaces[e.ns]
               more == [old.counts EXCEPT ![s] = @ + 1]
               new == [counts |-> more, rate |-> old.rate + calculateErrorRate(e.requests)]
    <3>1. d.spaces = [c.spaces EXCEPT ![e.ns] = new]
      BY <1>1
    <3>2. new.counts = more
      OBVIOUS
    <3> HIDE DEF new
    <3>3. DOMAIN d.spaces = spaces /\ d.spaces[e.ns] = new
      BY <2>1, <3>1
    <3>4. \A ns \in spaces : ns # e.ns => d.spaces[ns] = c.spaces[ns]
      BY <2>1, <3>1
    <3> QED
      BY <3>2, <3>3, <3>4
  <2>3. \A ns \in spaces : d.spaces[ns].counts \in [Statuses -> Nat]
    BY <1>0, <2>1, <2>2
  <2>4. \A t \in Statuses : d.spaces[e.ns].counts[t]
                              = c.spaces[e.ns].counts[t] + (IF t = s THEN 1 ELSE 0)
    BY <1>0, <2>1, <2>2
  <2>5. ASSUME NEW t \in Statuses
        PROVE  d.all[t] = SumOf(InSpaces(d.spaces, t), spaces)
    <3> DEFINE f == InSpaces(c.spaces, t)
               g == InSpaces(d.spaces, t)
    <3>1. /\ \A ns \in spaces : f[ns] = c.spaces[ns].counts[t] /\ g[ns] = d.spaces[ns].counts[t]
      BY <2>1, <2>2 DEF InSpaces
    <3>2. c.all[t] = SumOf(f, spaces)
      BY DEF InEach
    <3> HIDE DEF f, g
    <3>3. CASE t = s
      <4>1. Numbers(f, spaces)
        BY <2>1, <3>1 DEF Numbers
      <4>2. g[e.ns] = f[e.ns] + 1
        <5>1. d.spaces[e.ns].counts[t] = c.spaces[e.ns].counts[t] + 1
          BY <2>4, <3>3
        <5> QED
          BY <3>1, <5>1
      <4>2a. \A ns \in spaces : ns # e.ns => g[ns] = f[ns]
        BY <2>2, <3>1
      <4>3. SumOf(g, spaces) = SumOf(f, spaces) + 1
        BY <4>1, <4>2, <4>2a, SumGrows
      <4> QED
        BY <1>5, <3>2, <3>3, <4>3 DEF g
    <3>4. CASE t # s
      <4>1. \A ns \in spaces : f[ns] = g[ns]
        <5> SUFFICES ASSUME NEW ns \in spaces
                     PROVE  f[ns] = g[ns]
          OBVIOUS
        <5>1. c.spaces[e.ns].counts[t] \in Nat
          BY <2>1
        <5>2. CASE ns = e.ns
          BY <2>4, <3>1, <3>4, <5>1, <5>2
        <5>3. CASE ns # e.ns
          BY <2>2, <3>1, <5>3
        <5> QED
          BY <5>2, <5>3
      <4>2. SumOf(f, spaces) = SumOf(g, spaces)
        BY <4>1, SumSame
      <4>3. c.all[t] \in Nat
        BY <1>4
      <4> QED
        BY <1>5, <3>2, <3>4, <4>2, <4>3 DEF g
    <3> QED
      BY <3>3, <3>4
  <2> QED
    BY <2>2, <2>3, <2>5 DEF InEach
<1>8. InTop(d, C)
  <2>1. EntriesOf(D) \subseteq EntriesOf(C) /\ EntryOf(e) \in EntriesOf(C)
    BY DEF EntriesOf
  <2>2. c.top \in Seq(EntriesOf(C)) /\ Len(c.top) = c.all["UNHEALTHY"] /\ DOMAIN c.top = 1 .. Len(c.top)
    BY <2>1, SeqMonotonic, LenProperties DEF InTop
  <2>3. "UNHEALTHY" \in Statuses
    BY DEF Statuses
  <2>4. Len(c.top) \in Nat
    BY <2>2, LenProperties
  <2>5. CASE s = "UNHEALTHY"
    <3>1. /\ d.top \in Seq(EntriesOf(C)) /\ Len(d.top) = Len(c.top) + 1
          /\ \A i \in 1 .. Len(c.top) : d.top[i] = c.top[i]
          /\ d.top[Len(c.top) + 1] = EntryOf(e)
      BY <1>1, <2>1, <2>2, <2>5, AppendProperties
    <3>2. DOMAIN d.top = 1 .. Len(c.top) + 1
      BY <3>1, LenProperties
    <3>3. Len(d.top) = d.all["UNHEALTHY"]
      BY <1>5, <2>2, <2>3, <2>5, <3>1
    <3>4. ASSUME NEW x \in WithStatusOf(C, "UNHEALTHY")
          PROVE  \E i \in DOMAIN d.top : d.top[i] = EntryOf(x)
      <4>1. CASE x = e
        BY <2>4, <3>1, <3>2, <4>1
      <4>2. CASE x # e
        <5>1. x \in WithStatusOf(D, "UNHEALTHY")
          BY <4>2 DEF WithStatusOf
        <5>2. PICK i \in DOMAIN c.top : c.top[i] = EntryOf(x)
          BY <5>1 DEF InTop
        <5>3. i \in DOMAIN d.top /\ d.top[i] = c.top[i]
          BY <2>2, <2>4, <3>1, <3>2
        <5> QED
          BY <5>2, <5>3
      <4> QED
        BY <4>1, <4>2
    <3> QED
      BY <3>1, <3>3, <3>4 DEF InTop
  <2>6. CASE s # "UNHEALTHY"
    <3>1. d.top = c.top /\ d.all["UNHEALTHY"] = c.all["UNHEALTHY"]
      BY <1>1, <1>4, <1>5, <2>3, <2>6
    <3>2. WithStatusOf(C, "UNHEALTHY") \subseteq WithStatusOf(D, "UNHEALTHY")
      BY <1>0, <2>6 DEF WithStatusOf
    <3> QED
      BY <2>2, <3>1, <3>2 DEF InTop
  <2> QED
    BY <2>5, <2>6
<1> QED
  BY <1>6, <1>7, <1>8

\* The lesser of two numbers, as FiniteSetsExt chooses it.
LEMMA MinIs ==
  ASSUME NEW m \in Nat, NEW n \in Nat
  PROVE  /\ Min({m, n}) = IF m <= n THEN m ELSE n
         /\ Min({m, n}) \in Nat /\ Min({m, n}) <= n
<1>1. \E x \in {m, n} : \A y \in {m, n} : x <= y
  <2>1. m <= n \/ n <= m
    OBVIOUS
  <2> QED
    BY <2>1
<1>2. Min({m, n}) \in {m, n} /\ \A y \in {m, n} : Min({m, n}) <= y
  BY <1>1 DEF Min
<1> QED
  BY <1>2

----
(* The summary of what was counted                                         *)

\* The worst are in order and leave out nothing worse than what they show.
LEMMA RankedDoes ==
  ASSUME NEW E, Entries(E), NEW t \in Seq(E), NEW u, u = Ranked(t)
  PROVE  /\ Len(u) = Min({Len(t), TopLimit}) /\ Descending(u)
         /\ \A k \in DOMAIN t : \/ \E i \in DOMAIN u : u[i] = t[k]
                                \/ \A i \in DOMAIN u : u[i].rate >= t[k].rate
<1> DEFINE s == sortUnhealthyByImpact(t)
           m == Min({TopLimit, Len(s)})
<1>1. s \in Seq(E) /\ Len(s) = Len(t) /\ Descending(s) /\ KeptIn(t, s)
  BY SortDoes
<1>2. u = SubSeq(s, 1, m)
  BY DEF Ranked, Cut
<1> HIDE DEF s
<1>3. Len(s) \in Nat /\ DOMAIN s = 1 .. Len(s)
  BY <1>1, LenProperties
<1>4. m \in Nat /\ m <= Len(s) /\ m = Min({Len(t), TopLimit})
  <2>1. {TopLimit, Len(s)} = {Len(t), TopLimit}
    BY <1>1
  <2>2. m = Min({Len(t), TopLimit})
    BY <2>1
  <2>3. m = IF TopLimit <= Len(s) THEN TopLimit ELSE Len(s)
    BY <1>3, MinIs, HealthAssumption
  <2> HIDE DEF m
  <2> QED
    BY <1>3, <2>2, <2>3, HealthAssumption
<1> HIDE DEF m
<1>5. u \in Seq(E) /\ Len(u) = m /\ \A i \in 1 .. m : u[i] = s[i]
  <2>1. \A i \in 1 .. m : s[i] \in E
    BY <1>1, <1>3, <1>4, ElementOfSeq
  <2>2. m - 1 + 1 = m /\ (IF 1 <= m THEN m - 1 + 1 ELSE 0) = m /\ \A i \in 1 .. m : 1 + i - 1 = i
    BY <1>4
  <2>3. 1 \in Int /\ m \in Int
    BY <1>4
  <2>4. /\ SubSeq(s, 1, m) \in Seq(E)
        /\ Len(SubSeq(s, 1, m)) = IF 1 <= m THEN m - 1 + 1 ELSE 0
        /\ \A i \in 1 .. m - 1 + 1 : SubSeq(s, 1, m)[i] = s[1 + i - 1]
    <3> DEFINE v == SubSeq(s, 1, m)
    <3>1. v \in Seq(E)
      BY <2>1, <2>3, SubSeqProperties
    <3>2. Len(v) = IF 1 <= m THEN m - 1 + 1 ELSE 0
      BY <2>1, <2>3, SubSeqProperties
    <3>3. \A i \in 1 .. m - 1 + 1 : v[i] = s[1 + i - 1]
      BY <2>1, <2>3, SubSeqProperties
    <3> QED
      BY <3>1, <3>2, <3>3
  <2> QED
    BY <1>2, <2>2, <2>4
<1>6. DOMAIN u = 1 .. m
  BY <1>5, LenProperties
<1>7. Descending(u)
  <2> SUFFICES ASSUME NEW a \in 1 .. m, NEW b \in 1 .. m, a < b
               PROVE  u[a].rate >= u[b].rate
    BY <1>6 DEF Descending
  <2>1. a \in DOMAIN s /\ b \in DOMAIN s
    BY <1>3, <1>4
  <2> QED
    BY <1>1, <1>5, <2>1 DEF Descending
<1>8. ASSUME NEW k \in DOMAIN t, ~ \E i \in DOMAIN u : u[i] = t[k], NEW i \in DOMAIN u
      PROVE  u[i].rate >= t[k].rate
  <2>1. PICK l \in DOMAIN s : s[l] = t[k]
    BY <1>1 DEF KeptIn
  <2>2. l \notin 1 .. m
    BY <1>5, <1>6, <1>8, <2>1
  <2>3. i \in DOMAIN s /\ i < l
    BY <1>3, <1>4, <1>6, <2>2
  <2>4. s[i].rate >= s[l].rate
    BY <1>1, <2>1, <2>3 DEF Descending
  <2> QED
    BY <1>5, <1>6, <2>1, <2>4
<1> QED
  BY <1>4, <1>5, <1>7, <1>8

\* What SummaryExact says, of a summary s and of the entities D.
Exact(s, D) ==
  LET bad == {e \in D : Unhealthy(e)}
      plain == \A e \in D : ~Scaled(e)
      listed == {<<s.top[i].ns, s.top[i].name>> : i \in DOMAIN s.top}
  IN /\ CountOf(s.counts, Statuses) = Cardinality(D)
     /\ \A t \in Statuses :
          s.counts[t] = MapThenSumSet(LAMBDA ns : s.spaces[ns].counts[t], DOMAIN s.spaces)
     /\ plain => /\ s.counts["UNHEALTHY"] = Cardinality(bad)
                 /\ (s.status = "UNHEALTHY") <=> 2 * Cardinality(bad) > Cardinality(D)
                 /\ Len(s.top) = Min({Cardinality(bad), TopLimit})
                 /\ \A e \in bad : <<e.ns, e.name>> \notin listed =>
                      \A i \in DOMAIN s.top : s.top[i].rate >= calculateErrorRate(e.requests)
     /\ \A i, j \in DOMAIN s.top : i < j => s.top[i].rate >= s.top[j].rate

LEMMA FinishedDoes ==
  ASSUME NEW spaces, IsFiniteSet(spaces), NEW D, IsFiniteSet(D),
         \A e \in D : Formed(e, spaces) /\ e.type \in {"app", "service", "workload"},
         NEW c, InAll(c, D), InEach(c, spaces), InTop(c, D),
         NEW s, s = Finished(c)
  PROVE  Exact(s, D)
<1>1. /\ s.counts = c.all /\ s.status = computeOverallStatus(c.all) /\ s.top = Ranked(c.top)
      /\ DOMAIN s.spaces = spaces /\ \A ns \in spaces : s.spaces[ns].counts = c.spaces[ns].counts
  BY DEF Finished, InEach
<1>2. \A e \in D : /\ StatusOf(e) \in Statuses /\ calculateErrorRate(e.requests) \in Nat
                   /\ ~ Scaled(e) => (StatusOf(e) = "UNHEALTHY" <=> Unhealthy(e))
  BY StatusIs, RateIsNat DEF Formed
<1>3. CountOf(c.all, Statuses) = Cardinality(D)
  BY CountOfIs, StatusesFinite DEF InAll
<1>4. ASSUME NEW t \in Statuses
      PROVE  s.counts[t] = MapThenSumSet(LAMBDA ns : s.spaces[ns].counts[t], DOMAIN s.spaces)
  <2>1. MapThenSumSet(LAMBDA ns : s.spaces[ns].counts[t], DOMAIN s.spaces)
          = SumOf(InSpaces(s.spaces, t), DOMAIN s.spaces)
    BY <1>1, SpacesSum
  <2>2. \A ns \in spaces : InSpaces(s.spaces, t)[ns] = InSpaces(c.spaces, t)[ns]
    BY <1>1 DEF InSpaces, InEach
  <2>3. SumOf(InSpaces(s.spaces, t), spaces) = SumOf(InSpaces(c.spaces, t), spaces)
    BY <2>2, SumSame
  <2>4. c.all[t] = SumOf(InSpaces(c.spaces, t), spaces)
    BY DEF InEach
  <2>5. s.counts[t] = SumOf(InSpaces(s.spaces, t), DOMAIN s.spaces)
    BY <1>1, <2>3, <2>4
  <2> QED
    BY <2>1, <2>5, Zenon
<1>5. Entries(EntriesOf(D))
  BY <1>2 DEF Entries, EntriesOf, EntryOf
<1>6. /\ Len(s.top) = Min({Len(c.top), TopLimit}) /\ Descending(s.top)
      /\ \A k \in DOMAIN c.top : \/ \E i \in DOMAIN s.top : s.top[i] = c.top[k]
                                 \/ \A i \in DOMAIN s.top : s.top[i].rate >= c.top[k].rate
  BY <1>1, <1>5, RankedDoes DEF InTop
<1> DEFINE bad == {e \in D : Unhealthy(e)}
           listed == {<<s.top[i].ns, s.top[i].name>> : i \in DOMAIN s.top}
<1>7. ASSUME \A e \in D : ~ Scaled(e)
      PROVE  /\ s.counts["UNHEALTHY"] = Cardinality(bad)
             /\ (s.status = "UNHEALTHY") <=> 2 * Cardinality(bad) > Cardinality(D)
             /\ Len(s.top) = Min({Cardinality(bad), TopLimit})
             /\ \A e \in bad : <<e.ns, e.name>> \notin listed =>
                  \A i \in DOMAIN s.top : s.top[i].rate >= calculateErrorRate(e.requests)
  <2>1. bad = WithStatusOf(D, "UNHEALTHY")
    BY <1>2, <1>7 DEF WithStatusOf
  <2>2. "UNHEALTHY" \in Statuses /\ c.all["UNHEALTHY"] = Cardinality(bad)
    BY <2>1 DEF InAll, Statuses
  <2>3. (s.status = "UNHEALTHY") <=> 2 * Cardinality(bad) > Cardinality(D)
    <3> DEFINE b == Cardinality(bad)
               n == Cardinality(D)
    <3>1. b \in Nat /\ n \in Nat /\ b <= n
      BY FS_Subset, FS_CardinalityType
    <3>2. s.status = IF n = 0 THEN "UNKNOWN" ELSE IF b > n \div 2 THEN "UNHEALTHY"
                     ELSE IF b + c.all["DEGRADED"] > 0 THEN "DEGRADED" ELSE "HEALTHY"
      BY <1>1, <1>3, <2>2 DEF computeOverallStatus
    <3> HIDE DEF b, n
    <3>3. b > n \div 2 <=> 2 * b > n
      BY <3>1
    <3>4. s.status = "UNHEALTHY" <=> n # 0 /\ b > n \div 2
      BY <3>2
    <3> QED
      BY <3>1, <3>3, <3>4 DEF b, n
  <2>4. ASSUME NEW e \in bad, <<e.ns, e.name>> \notin listed, NEW i \in DOMAIN s.top
        PROVE  s.top[i].rate >= calculateErrorRate(e.requests)
    <3>1. PICK k \in DOMAIN c.top : c.top[k] = EntryOf(e)
      BY <2>1 DEF InTop
    <3>2. /\ EntryOf(e).ns = e.ns /\ EntryOf(e).name = e.name
          /\ EntryOf(e).rate = calculateErrorRate(e.requests)
      BY DEF EntryOf
    <3>3. ~ \E j \in DOMAIN s.top : s.top[j] = c.top[k]
      BY <2>4, <3>1, <3>2
    <3> QED
      BY <1>6, <3>1, <3>2, <3>3
  <2>5. Len(c.top) = Cardinality(bad)
    BY <2>2 DEF InTop
  <2> QED
    BY <1>1, <1>6, <2>2, <2>3, <2>4, <2>5
<1>8. \A i, j \in DOMAIN s.top : i < j => s.top[i].rate >= s.top[j].rate
  BY <1>6 DEF Descending
<1>9. CountOf(s.counts, Statuses) = Cardinality(D)
  BY <1>1, <1>3
<1> QED
  BY <1>4, <1>7, <1>8, <1>9 DEF Exact

----
(* The mesh graph: what the response names and holds is what the four      *)
(* requests brought.                                                       *)

MeshFields ==
  {"graphType", "outcome", "errors", "answer", "space", "left", "counted", "summary", "result"}

\* The errors are the parts whose request failed; a summary is there from the
\* moment the health answer is dealt with; the result is decided by all four.
MeshKept ==
  /\ DOMAIN mesh = MeshFields /\ DOMAIN mesh.outcome = Parts
  /\ \A p \in Parts : mesh.outcome[p] = "error" <=> p \in mesh.errors
  /\ mesh.outcome["health"] \in {"garbled", "json"} <=> mesh.summary # NoSummary
  /\ mesh.result # "none" => AllDone
  /\ mesh.result = "failed" => \E p \in RawParts : mesh.outcome[p] = "garbled"
  /\ mesh.result = "returned" => \A p \in RawParts : mesh.outcome[p] # "garbled"

MeshInv == Called => MeshKept

\* A summary that was computed is none that is missing.
LEMMA SummaryThere ==
  /\ \A counted : Finished(counted) # NoSummary
  /\ EmptySummary # NoSummary
<1>1. NoSummary.status = "none"
  BY DEF NoSummary
<1>2. ASSUME NEW counted
      PROVE  Finished(counted) # NoSummary
  <2>1. computeOverallStatus(counted.all) # "none"
    BY DEF computeOverallStatus
  <2>2. Finished(counted).status = computeOverallStatus(counted.all)
    BY DEF Finished
  <2> QED
    BY <1>1, <2>1, <2>2
<1>3. EmptySummary.status = ""
  BY DEF EmptySummary, Finished
<1> QED
  BY <1>1, <1>2, <1>3

LEMMA MeshStarts ==
  ASSUME NEW t, mesh' = MeshStart(t)
  PROVE  MeshKept'
BY DEF MeshKept, MeshStart, MeshFields, Parts, RawParts, AllDone

LEMMA MeshAnswersRaw ==
  ASSUME MeshInv, NEW p \in RawParts, AnswerRaw(p)
  PROVE  MeshKept'
<1>1. /\ MeshKept /\ p \in Parts /\ p # "health" /\ mesh.outcome[p] = "waiting"
  BY DEF AnswerRaw, MeshInv, Parts, RawParts
<1>2. PICK b \in Bodies :
        mesh' = [mesh EXCEPT !.outcome[p] = b,
                             !.errors = IF b = "error" THEN @ \cup {p} ELSE @]
  BY DEF AnswerRaw
<1>3. /\ DOMAIN mesh' = MeshFields /\ mesh'.outcome = [mesh.outcome EXCEPT ![p] = b]
      /\ mesh'.errors = IF b = "error" THEN mesh.errors \cup {p} ELSE mesh.errors
      /\ mesh'.summary = mesh.summary /\ mesh'.result = mesh.result
  BY <1>1, <1>2 DEF MeshKept, MeshFields
<1>4. mesh.result = "none"
  BY <1>1 DEF MeshKept, AllDone, Bodies
<1> QED
  BY <1>1, <1>3, <1>4 DEF MeshKept, AllDone

LEMMA MeshAnswersHealth ==
  ASSUME MeshInv, AnswerHealth
  PROVE  MeshKept'
<1>1. MeshKept /\ "health" \in Parts /\ mesh.outcome["health"] = "waiting"
  BY DEF AnswerHealth, MeshInv, Parts
<1>2. mesh.result = "none" /\ mesh.summary = NoSummary
  BY <1>1 DEF MeshKept, AllDone, Bodies
<1>3. CASE mesh' = [mesh EXCEPT !.outcome["health"] = "error", !.errors = @ \cup {"health"}]
  <2>1. /\ DOMAIN mesh' = MeshFields /\ mesh'.outcome = [mesh.outcome EXCEPT !["health"] = "error"]
        /\ mesh'.errors = mesh.errors \cup {"health"}
        /\ mesh'.summary = mesh.summary /\ mesh'.result = mesh.result
    BY <1>1, <1>3 DEF MeshKept, MeshFields
  <2> QED
    BY <1>1, <1>2, <2>1 DEF MeshKept
<1>4. CASE mesh' = [mesh EXCEPT !.outcome["health"] = "empty"]
  <2>1. /\ DOMAIN mesh' = MeshFields /\ mesh'.outcome = [mesh.outcome EXCEPT !["health"] = "empty"]
        /\ mesh'.errors = mesh.errors
        /\ mesh'.summary = mesh.summary /\ mesh'.result = mesh.result
    BY <1>1, <1>4 DEF MeshKept, MeshFields
  <2> QED
    BY <1>1, <1>2, <2>1 DEF MeshKept
<1>5. CASE mesh' = [mesh EXCEPT !.outcome["health"] = "garbled", !.summary = EmptySummary]
  <2>1. /\ DOMAIN mesh' = MeshFields /\ mesh'.outcome = [mesh.outcome EXCEPT !["health"] = "garbled"]
        /\ mesh'.errors = mesh.errors
        /\ mesh'.summary = EmptySummary /\ mesh'.result = mesh.result
    BY <1>1, <1>5 DEF MeshKept, MeshFields
  <2> QED
    BY <1>1, <1>2, <2>1, SummaryThere DEF MeshKept
<1>6. CASE \E a \in HealthAnswers :
             mesh' = [mesh EXCEPT !.outcome["health"] = "counting", !.answer = a,
                                  !.left = {e \in a.entities :
                                              e.type = HealthType(mesh.graphType)},
                                  !.counted = NothingCounted(a.spaces)]
  <2>1. /\ DOMAIN mesh' = MeshFields /\ mesh'.outcome = [mesh.outcome EXCEPT !["health"] = "counting"]
        /\ mesh'.errors = mesh.errors
        /\ mesh'.summary = mesh.summary /\ mesh'.result = mesh.result
    BY <1>1, <1>6 DEF MeshKept, MeshFields
  <2> QED
    BY <1>1, <1>2, <2>1 DEF MeshKept
<1> QED
  BY <1>3, <1>4, <1>5, <1>6 DEF AnswerHealth

LEMMA MeshFinishesHealth ==
  ASSUME MeshInv, FinishHealth
  PROVE  MeshKept'
<1>1. MeshKept /\ "health" \in Parts /\ mesh.outcome["health"] = "counting"
  BY DEF FinishHealth, MeshInv, Parts
<1>2. mesh.result = "none"
  BY <1>1 DEF MeshKept, AllDone, Bodies
<1>3. /\ DOMAIN mesh' = MeshFields /\ mesh'.outcome = [mesh.outcome EXCEPT !["health"] = "json"]
      /\ mesh'.errors = mesh.errors
      /\ mesh'.summary = Finished(mesh.counted) /\ mesh'.result = mesh.result
  BY <1>1 DEF MeshKept, MeshFields, FinishHealth
<1> QED
  BY <1>1, <1>2, <1>3, SummaryThere DEF MeshKept

LEMMA MeshCountsOn ==
  ASSUME MeshInv, NEW e, CountEntity(e)
  PROVE  MeshKept'
<1>1. MeshKept
  BY DEF CountEntity, MeshInv
<1>2. /\ DOMAIN mesh' = MeshFields /\ mesh'.outcome = mesh.outcome
      /\ mesh'.errors = mesh.errors /\ mesh'.summary = mesh.summary /\ mesh'.result = mesh.result
  BY <1>1 DEF MeshKept, MeshFields, CountEntity
<1> QED
  BY <1>1, <1>2 DEF MeshKept, AllDone

LEMMA MeshResponds ==
  ASSUME MeshInv, Respond
  PROVE  MeshKept'
<1>1. MeshKept /\ AllDone
  BY DEF Respond, MeshInv
<1>2. /\ DOMAIN mesh' = MeshFields /\ mesh'.outcome = mesh.outcome
      /\ mesh'.errors = mesh.errors /\ mesh'.summary = mesh.summary
      /\ mesh'.result = IF \E p \in RawParts : mesh.outcome[p] = "garbled"
                        THEN "failed" ELSE "returned"
  BY <1>1 DEF MeshKept, MeshFields, Respond
<1> QED
  BY <1>1, <1>2 DEF MeshKept, AllDone

LEMMA MeshInvHolds == MeshInv /\ [DiagnosticsNext]_diagnosticsVars => MeshInv'
<1> SUFFICES ASSUME MeshInv, [DiagnosticsNext]_diagnosticsVars
             PROVE  MeshInv'
  OBVIOUS
<1>1. CASE UNCHANGED mesh
  BY <1>1 DEF MeshInv, Called, MeshKept, AllDone
<1>2. CASE GetMeshGraph
  BY <1>2, MeshStarts DEF GetMeshGraph, MeshInv
<1>3. CASE MeshNext
  BY <1>3, MeshAnswersRaw, MeshAnswersHealth, MeshFinishesHealth, MeshResponds, MeshCountsOn
     DEF MeshNext, MeshInv
<1> QED
  BY <1>1, <1>2, <1>3 DEF DiagnosticsNext, diagnosticsVars

\* Whatever the requests to Kiali bring and in whatever order: a mesh graph that
\* is returned shows or names as failed each of its parts that was not empty, and
\* one that fails has a body that is not JSON (get_mesh_graph.go).
THEOREM MeshPartsAccounted == DiagnosticsSpec => []EveryPartAccounted
<1>1. DiagnosticsInit => MeshInv
  BY DEF DiagnosticsInit, MeshInv, Called
<1>2. MeshInv /\ [DiagnosticsNext]_diagnosticsVars => MeshInv'
  BY MeshInvHolds
<1>3. MeshInv => EveryPartAccounted
  <2> SUFFICES ASSUME Called, MeshKept
               PROVE  EveryPartAccounted
    BY DEF MeshInv, EveryPartAccounted
  <2>1. ASSUME mesh.result = "returned", NEW p \in Parts
        PROVE  IF mesh.outcome[p] = "empty" THEN ~Shown(p) /\ p \notin mesh.errors
               ELSE Shown(p) # (p \in mesh.errors)
    <3>1. mesh.outcome[p] \in Bodies /\ (p # "health" => p \in RawParts /\ mesh.outcome[p] # "garbled")
      BY <2>1 DEF MeshKept, AllDone, Parts
    <3>2. CASE p = "health"
      BY <3>1, <3>2 DEF MeshKept, Shown, Bodies
    <3>3. CASE p # "health"
      BY <3>1, <3>3 DEF MeshKept, Shown, Bodies
    <3> QED
      BY <3>2, <3>3
  <2> QED
    BY <2>1 DEF EveryPartAccounted, MeshKept
<1> QED
  BY <1>1, <1>2, <1>3, PTL DEF DiagnosticsSpec

----
\* The health answer is counted: what is counted so far is exact, and so is the
\* summary made of all of it.
HealthKept ==
  /\ mesh.outcome["health"] # "counting" => mesh.left = {}
  /\ mesh.outcome["health"] = "counting" =>
       /\ mesh.answer \in HealthAnswers /\ mesh.left \subseteq Entities
       /\ InAll(mesh.counted, Entities \ mesh.left)
       /\ InEach(mesh.counted, mesh.answer.spaces)
       /\ InTop(mesh.counted, Entities \ mesh.left)
  /\ mesh.outcome["health"] = "json" => Exact(mesh.summary, Entities)

HealthInv == MeshInv /\ (Called => HealthKept)

LEMMA AnswersFormed ==
  ASSUME NEW a \in HealthAnswers, NEW g, NEW D, D = {e \in a.entities : e.type = HealthType(g)}
  PROVE  /\ IsFiniteSet(D) /\ IsFiniteSet(a.spaces)
         /\ \A e \in D : Formed(e, a.spaces) /\ e.type \in {"app", "service", "workload"}
<1>1. IsFiniteSet(a.spaces) /\ IsFiniteSet(a.entities) /\ D \subseteq a.entities
  BY HealthAssumption
<1>2. IsFiniteSet(D)
  BY <1>1, FS_Subset
<1>3. ASSUME NEW e \in D
      PROVE  Formed(e, a.spaces)
  BY <1>1, HealthAssumption DEF Formed, Counted
<1>4. HealthType(g) \in {"app", "service", "workload"}
  BY DEF HealthType
<1> QED
  BY <1>1, <1>2, <1>3, <1>4

\* What the health answer has nothing to do with.
LEMMA HealthStays ==
  ASSUME HealthKept, mesh'.outcome["health"] = mesh.outcome["health"],
         mesh'.answer = mesh.answer, mesh'.graphType = mesh.graphType,
         mesh'.left = mesh.left, mesh'.counted = mesh.counted, mesh'.summary = mesh.summary
  PROVE  HealthKept'
<1>1. Entities' = Entities
  BY DEF Entities
<1> QED
  BY <1>1 DEF HealthKept

LEMMA HealthStarts ==
  ASSUME NEW t, mesh' = MeshStart(t)
  PROVE  HealthKept'
<1>1. mesh'.outcome = [p \in Parts |-> "waiting"] /\ mesh'.left = {}
  BY DEF MeshStart
<1>2. mesh'.outcome["health"] = "waiting"
  BY <1>1 DEF Parts
<1> QED
  BY <1>1, <1>2 DEF HealthKept

LEMMA HealthRaw ==
  ASSUME MeshInv, HealthKept, NEW p \in RawParts, AnswerRaw(p)
  PROVE  HealthKept'
<1>1. PICK b \in Bodies :
        mesh' = [mesh EXCEPT !.outcome[p] = b,
                             !.errors = IF b = "error" THEN @ \cup {p} ELSE @]
  BY DEF AnswerRaw
<1>2. MeshKept /\ p # "health" /\ "health" \in Parts
  BY DEF AnswerRaw, MeshInv, RawParts, Parts
<1>3. /\ mesh'.outcome = [mesh.outcome EXCEPT ![p] = b]
      /\ mesh'.answer = mesh.answer /\ mesh'.graphType = mesh.graphType
      /\ mesh'.left = mesh.left /\ mesh'.counted = mesh.counted /\ mesh'.summary = mesh.summary
  BY <1>1, <1>2 DEF MeshKept, MeshFields
<1>4. mesh'.outcome["health"] = mesh.outcome["health"]
  BY <1>2, <1>3 DEF MeshKept
<1> QED
  BY <1>3, <1>4, HealthStays

LEMMA HealthAnswered ==
  ASSUME MeshInv, HealthKept, AnswerHealth
  PROVE  HealthKept'
<1>1. MeshKept /\ "health" \in Parts /\ mesh.outcome["health"] = "waiting" /\ mesh.left = {}
  BY DEF AnswerHealth, MeshInv, Parts, HealthKept
<1>2. CASE mesh' = [mesh EXCEPT !.outcome["health"] = "error", !.errors = @ \cup {"health"}]
  <2>1. mesh'.outcome["health"] = "error" /\ mesh'.left = {}
    BY <1>1, <1>2 DEF MeshKept, MeshFields
  <2> QED
    BY <2>1 DEF HealthKept
<1>3. CASE mesh' = [mesh EXCEPT !.outcome["health"] = "empty"]
  <2>1. mesh'.outcome["health"] = "empty" /\ mesh'.left = {}
    BY <1>1, <1>3 DEF MeshKept, MeshFields
  <2> QED
    BY <2>1 DEF HealthKept
<1>4. CASE mesh' = [mesh EXCEPT !.outcome["health"] = "garbled", !.summary = EmptySummary]
  <2>1. mesh'.outcome["health"] = "garbled" /\ mesh'.left = {}
    BY <1>1, <1>4 DEF MeshKept, MeshFields
  <2> QED
    BY <2>1 DEF HealthKept
<1>5. ASSUME NEW a \in HealthAnswers,
             mesh' = [mesh EXCEPT !.outcome["health"] = "counting", !.answer = a,
                                  !.left = {e \in a.entities :
                                              e.type = HealthType(mesh.graphType)},
                                  !.counted = NothingCounted(a.spaces)]
      PROVE  HealthKept'
  <2> DEFINE D == {e \in a.entities : e.type = HealthType(mesh.graphType)}
             c == NothingCounted(a.spaces)
  <2>1. /\ mesh'.outcome["health"] = "counting" /\ mesh'.answer = a /\ mesh'.left = D
        /\ mesh'.counted = c /\ mesh'.graphType = mesh.graphType
    BY <1>1, <1>5 DEF MeshKept, MeshFields
  <2>2. Entities' = D
    BY <2>1 DEF Entities
  <2>3. IsFiniteSet(a.spaces)
    BY HealthAssumption
  <2>4. InAll(c, {}) /\ InEach(c, a.spaces) /\ InTop(c, {})
    BY <2>3, NothingIs
  <2>5. D \ D = {}
    OBVIOUS
  <2> HIDE DEF c, D
  <2> QED
    BY <2>1, <2>2, <2>4, <2>5 DEF HealthKept
<1> QED
  BY <1>2, <1>3, <1>4, <1>5 DEF AnswerHealth

LEMMA HealthCounts ==
  ASSUME MeshInv, HealthKept, NEW e, CountEntity(e)
  PROVE  HealthKept'
<1>1. MeshKept /\ e \in mesh.left /\ mesh.outcome["health"] = "counting"
  BY DEF CountEntity, MeshInv, HealthKept
<1>2. /\ mesh'.outcome = mesh.outcome /\ mesh'.answer = mesh.answer
      /\ mesh'.graphType = mesh.graphType /\ mesh'.left = mesh.left \ {e}
      /\ mesh'.counted = Count(mesh.counted, e)
  BY <1>1 DEF MeshKept, MeshFields, CountEntity
<1>3. Entities' = Entities
  BY <1>2 DEF Entities
<1> DEFINE D == Entities \ mesh.left
           C == Entities \ (mesh.left \ {e})
<1>4. /\ mesh.answer \in HealthAnswers /\ mesh.left \subseteq Entities
      /\ InAll(mesh.counted, D) /\ InEach(mesh.counted, mesh.answer.spaces) /\ InTop(mesh.counted, D)
  BY <1>1 DEF HealthKept
<1>5. /\ IsFiniteSet(Entities) /\ IsFiniteSet(mesh.answer.spaces)
      /\ Formed(e, mesh.answer.spaces) /\ e.type \in {"app", "service", "workload"}
  BY <1>1, <1>4, AnswersFormed DEF Entities
<1>6. IsFiniteSet(D) /\ e \notin D /\ C = D \cup {e}
  BY <1>1, <1>4, <1>5, FS_Subset
<1>7. e.ns \in mesh.answer.spaces /\ StatusOf(e) \in Statuses
  BY <1>5, StatusIs DEF Formed
<1> HIDE DEF D, C
<1>8. /\ InAll(mesh'.counted, C) /\ InEach(mesh'.counted, mesh.answer.spaces)
      /\ InTop(mesh'.counted, C)
  BY <1>2, <1>4, <1>5, <1>6, <1>7, CountDoes
<1> QED
  BY <1>1, <1>2, <1>3, <1>4, <1>8 DEF HealthKept, C

LEMMA HealthFinishes ==
  ASSUME MeshInv, HealthKept, FinishHealth
  PROVE  HealthKept'
<1>1. MeshKept /\ "health" \in Parts /\ mesh.outcome["health"] = "counting" /\ mesh.left = {}
  BY DEF FinishHealth, MeshInv, Parts
<1>2. /\ mesh'.outcome["health"] = "json" /\ mesh'.summary = Finished(mesh.counted)
      /\ mesh'.answer = mesh.answer /\ mesh'.graphType = mesh.graphType /\ mesh'.left = mesh.left
  BY <1>1 DEF MeshKept, MeshFields, FinishHealth
<1>3. Entities' = Entities
  BY <1>2 DEF Entities
<1>4. /\ mesh.answer \in HealthAnswers /\ Entities \ mesh.left = Entities
      /\ InAll(mesh.counted, Entities) /\ InEach(mesh.counted, mesh.answer.spaces)
      /\ InTop(mesh.counted, Entities)
  <2>1. Entities \ mesh.left = Entities
    BY <1>1
  <2> QED
    BY <1>1, <2>1 DEF HealthKept
<1>5. /\ IsFiniteSet(Entities) /\ IsFiniteSet(mesh.answer.spaces)
      /\ \A e \in Entities : /\ Formed(e, mesh.answer.spaces)
                             /\ e.type \in {"app", "service", "workload"}
  BY <1>4, AnswersFormed DEF Entities
<1>6. Exact(mesh'.summary, Entities)
  BY <1>2, <1>4, <1>5, FinishedDoes
<1> QED
  BY <1>1, <1>2, <1>3, <1>6 DEF HealthKept

LEMMA HealthResponds ==
  ASSUME MeshInv, HealthKept, Respond
  PROVE  HealthKept'
<1>1. MeshKept
  BY DEF Respond, MeshInv
<1>2. /\ mesh'.outcome = mesh.outcome /\ mesh'.answer = mesh.answer
      /\ mesh'.graphType = mesh.graphType /\ mesh'.left = mesh.left
      /\ mesh'.counted = mesh.counted /\ mesh'.summary = mesh.summary
  BY <1>1 DEF MeshKept, MeshFields, Respond
<1> QED
  BY <1>2, HealthStays

\* However the entities of the health answer are ranged over, and however many
\* there are: the summary counts each of them once, in its namespace and in all;
\* it shows the worst, in order; and the mesh is UNHEALTHY when more than half of
\* it is (health_calculation.go: computeHealthSummary, sortUnhealthyByImpact).
THEOREM SummariesAreExact == DiagnosticsSpec => []SummaryExact
<1>1. DiagnosticsInit => HealthInv
  BY DEF DiagnosticsInit, HealthInv, MeshInv, Called
<1>2. HealthInv /\ [DiagnosticsNext]_diagnosticsVars => HealthInv'
  <2> SUFFICES ASSUME HealthInv, [DiagnosticsNext]_diagnosticsVars
               PROVE  HealthInv'
    OBVIOUS
  <2>1. MeshInv'
    BY MeshInvHolds DEF HealthInv
  <2>2. CASE UNCHANGED mesh
    BY <2>1, <2>2, HealthStays DEF HealthInv, Called
  <2>3. CASE GetMeshGraph
    BY <2>1, <2>3, HealthStarts DEF GetMeshGraph, HealthInv
  <2>4. CASE MeshNext
    <3>1. Called
      BY <2>4 DEF MeshNext, AnswerRaw, AnswerHealth, FinishHealth, Respond
    <3> QED
      BY <2>1, <2>4, <3>1, HealthRaw, HealthAnswered, HealthFinishes, HealthResponds, HealthCounts
         DEF MeshNext, HealthInv
  <2> QED
    BY <2>2, <2>3, <2>4 DEF DiagnosticsNext, diagnosticsVars
<1>3. HealthInv => SummaryExact
  BY DEF HealthInv, HealthKept, SummaryExact, Exact
<1> QED
  BY <1>1, <1>2, <1>3, PTL DEF DiagnosticsSpec

----
(* The reports: what a prompt shows was there while it ran.                *)

ClusterFields ==
  {"prompt", "args", "step", "gathered", "namespace", "scoped", "warned", "failures",
   "sections", "queue", "noted", "events", "total"}
ClusterSteps == {"Namespace", "Gather", "EventNamespaces", "Events", "Count", "done"}

\* The events that a report may list.
Heard ==
  {e \in UNION {ToSet(w.events) : w \in ToSet(story)} :
     Noteworthy(e) /\ (report.scoped => e.ns = report.args.namespace)}
InNamespace ==
  Cardinality({i \in DOMAIN world.events :
                 world.events[i].ns = report.args.namespace /\ Noteworthy(world.events[i])})
Untouched == report.failures = 0 /\ Len(story) = 1

\* The heading agrees with the namespace that is read.
Headed ==
  report.step # "Namespace" =>
    /\ report.namespace = IF report.scoped THEN report.args.namespace ELSE ""
    /\ report.scoped => report.args.namespace # ""

SectionsShown ==
  \A kind \in DOMAIN report.sections :
    report.sections[kind] # Absent =>
      /\ report.step # "Namespace"
      /\ \E w \in ToSet(story) : Shows(report.sections[kind], kind, w)

\* What has been noted is of the scope; within a namespace one read notes all.
EventsNoted ==
  /\ report.noted \in Seq(Heard)
  /\ report.step \in {"Namespace", "Gather", "EventNamespaces"} => report.noted = <<>>
  /\ report.step = "Events" /\ report.scoped =>
       \/ report.queue = <<report.args.namespace>> /\ report.noted = <<>>
       \/ report.queue = <<>> /\ (Untouched => Len(report.noted) = InNamespace)

EventsCounted ==
  report.events # Absent =>
    /\ report.step \in {"Count", "done"}
    /\ \A i \in DOMAIN report.events.listed : report.events.listed[i] \in Heard
    /\ Untouched /\ report.scoped =>
         report.events.warnings + report.events.errors = InNamespace

ClusterKept ==
  /\ DOMAIN report = ClusterFields /\ report.step \in ClusterSteps /\ report.failures \in Nat
  /\ Headed /\ SectionsShown /\ EventsNoted /\ EventsCounted

GuideFields ==
  {"prompt", "args", "failures", "step", "vm", "vmi", "volumes", "pods", "queue", "logs", "events"}
GuideSteps == {"refused", "VM", "VMI", "Pods", "Logs", "done"}
WasThere(o, kind) == o # Absent => o.kind = kind /\ \E w \in ToSet(story) : o \in w.objects
PodsOf(r) == IF r.pods = Absent THEN {} ELSE r.pods.of

\* Each part of a guide is of the parts that were read before it.
GuideKept ==
  /\ DOMAIN report = GuideFields /\ report.step \in GuideSteps
  /\ report.step = "VM" => report.vm = Absent
  /\ report.step \in {"VM", "VMI"} => report.vmi = Absent /\ report.volumes = Absent
  /\ report.step \in {"VM", "VMI", "Pods"} => report.pods = Absent /\ report.queue = {}
  /\ WasThere(report.vm, "VirtualMachine") /\ WasThere(report.vmi, "VirtualMachineInstance")
  /\ report.volumes # Absent =>
       IF report.vm # Absent /\ report.vm.volumes # <<>>
       THEN report.volumes = [kind |-> "VirtualMachine", volumes |-> report.vm.volumes]
       ELSE /\ report.vmi # Absent
            /\ report.volumes = [kind |-> "VirtualMachineInstance", volumes |-> report.vmi.volumes]
  /\ report.pods # Absent => \E w \in ToSet(story) : report.pods.of = Launchers(w)
  /\ report.step = "Logs" /\ report.logs = Absent => report.queue = {}
  /\ report.step = "Logs" /\ report.logs # Absent =>
       DOMAIN report.logs = {"of"} /\ report.logs.of \cup report.queue = PodsOf(report)
  /\ report.step = "done" => report.logs = Absent \/ report.logs.of = PodsOf(report)

StoryKept == story \in Seq(Worlds) /\ Len(story) > 0 /\ story[Len(story)] = world

ReportInv ==
  /\ world \in Worlds
  /\ report.prompt = "cluster-health-check" => StoryKept /\ ClusterKept
  /\ report.prompt = "vm-troubleshoot" => StoryKept /\ GuideKept

LEMMA WorldIsOfStory ==
  ASSUME StoryKept
  PROVE  world \in ToSet(story)
<1>1. Len(story) \in DOMAIN story
  BY LenProperties DEF StoryKept
<1> QED
  BY <1>1 DEF StoryKept, ToSet

\* What a request leaves of the report, answered or failed.
LEMMA AnsweredWhat ==
  ASSUME NEW good, NEW failed, Answered(good, failed), "failures" \in DOMAIN failed
  PROVE  /\ UNCHANGED <<world, story>>
         /\ \/ report' = good
            \/ /\ DOMAIN report' = DOMAIN failed
               /\ report'.failures = failed.failures + 1
               /\ \A f \in DOMAIN failed : f # "failures" => report'[f] = failed[f]
BY DEF Answered

LEMMA ClusterAnswered ==
  ASSUME NEW good, NEW failed, Answered(good, failed), DOMAIN failed = ClusterFields
  PROVE  /\ UNCHANGED <<world, story>>
         /\ \/ report' = good
            \/ /\ DOMAIN report' = ClusterFields /\ report'.failures = failed.failures + 1
               /\ report'.step = failed.step /\ report'.namespace = failed.namespace
               /\ report'.scoped = failed.scoped /\ report'.args = failed.args
               /\ report'.sections = failed.sections /\ report'.noted = failed.noted
               /\ report'.events = failed.events /\ report'.queue = failed.queue
               /\ report'.gathered = failed.gathered /\ report'.total = failed.total
BY AnsweredWhat DEF ClusterFields

LEMMA HealthCheckStarts ==
  ASSUME NEW a, world \in Worlds, report' = ClusterStart(a), story' = <<world>>, world' = world
  PROVE  (StoryKept /\ ClusterKept)'
<1>1. StoryKept'
  BY DEF StoryKept
<1>2. DOMAIN report' = ClusterFields
  BY DEF ClusterStart, ClusterFields
<1>3. /\ report'.step = "Namespace" /\ report'.failures = 0 /\ report'.noted = <<>>
      /\ report'.events = Absent /\ \A kind \in DOMAIN report'.sections : report'.sections[kind] = Absent
  BY DEF ClusterStart
<1>4. report'.noted \in Seq(Heard')
  BY <1>3, EmptySeq
<1> QED
  BY <1>1, <1>2, <1>3, <1>4
     DEF ClusterKept, ClusterSteps, Headed, SectionsShown, EventsNoted, EventsCounted

LEMMA NamespaceIsChecked ==
  ASSUME ReportInv, CheckNamespace
  PROVE  (StoryKept /\ ClusterKept)'
<1>1. /\ StoryKept /\ ClusterKept /\ report.step = "Namespace"
      /\ UNCHANGED <<world, story>> /\ world \in Worlds
  BY DEF CheckNamespace, Making, ReportInv
<1>2. PICK found \in BOOLEAN :
        /\ found => report.args.namespace \in world.namespaces
        /\ report' = [report EXCEPT !.step = "Gather",
                                    !.namespace = NamespaceFor(found),
                                    !.warned = report.args.namespace # "" /\ ~found,
                                    !.scoped = found]
  BY DEF CheckNamespace
<1>3. /\ DOMAIN report' = ClusterFields /\ report'.step = "Gather"
      /\ report'.namespace = NamespaceFor(found) /\ report'.scoped = found
      /\ report'.args = report.args /\ report'.failures = report.failures
      /\ report'.sections = report.sections /\ report'.noted = report.noted
      /\ report'.events = report.events
  BY <1>1, <1>2 DEF ClusterKept, ClusterFields
<1>4. found => report.args.namespace # ""
  BY <1>1, <1>2, ReportsAssumption
<1>5. report.noted = <<>> /\ report.events = Absent
  BY <1>1 DEF ClusterKept, EventsNoted, EventsCounted
<1>6. Headed'
  BY <1>3, <1>4 DEF Headed, NamespaceFor
<1>7. SectionsShown'
  BY <1>1, <1>3 DEF ClusterKept, SectionsShown
<1>8. EventsNoted'
  BY <1>3, <1>5, EmptySeq DEF EventsNoted
<1> QED
  BY <1>1, <1>3, <1>5, <1>6, <1>7, <1>8
     DEF ClusterKept, ClusterSteps, EventsCounted, StoryKept

\* A section shows its kind in the scope that the heading announces.
LEMMA DiagnosisShows ==
  ASSUME NEW kind, Headed, report.step # "Namespace"
  PROVE  Shows(Diagnosis(ListOf(world, kind, report.namespace)), kind, world)
<1> DEFINE items == {o \in world.objects : o.kind = kind /\ InScope(o)}
<1>1. ListOf(world, kind, report.namespace) = items
  BY DEF ListOf, InScope, Headed
<1>2. /\ Diagnosis(items).total = Cardinality(items)
      /\ Diagnosis(items).troubled = {o \in items : Troubled(o)}
  BY DEF Diagnosis
<1> HIDE DEF items
<1>3. /\ Diagnosis(items).troubled \subseteq items
      /\ \A o \in items : o \in Diagnosis(items).troubled <=> Troubled(o)
  BY <1>2
<1> QED
  BY <1>1, <1>2, <1>3 DEF Shows, items

\* The section a step gathers, where it leads and what it puts there.
GatherKind == Gathered[report.gathered + 1]
GatherLater == IF report.gathered + 1 < Len(Gathered) THEN "Gather"
               ELSE IF report.args.events THEN "EventNamespaces" ELSE "Count"
GatherNew == Diagnosis(ListOf(world, GatherKind, report.namespace))
KindServed == GatherKind # "ClusterOperator" \/ world.openshift

LEMMA GatherDoes ==
  ASSUME ReportInv, Gather
  PROVE  /\ StoryKept /\ ClusterKept /\ report.step = "Gather"
         /\ UNCHANGED <<world, story>> /\ DOMAIN report' = ClusterFields
         /\ report'.step = GatherLater /\ report'.namespace = report.namespace
         /\ report'.scoped = report.scoped /\ report'.args = report.args
         /\ report'.noted = report.noted /\ report'.events = report.events
         /\ report'.gathered = report.gathered + 1
         /\ \/ /\ KindServed /\ report'.failures = report.failures
               /\ report'.sections = [report.sections EXCEPT ![GatherKind] = GatherNew]
            \/ /\ ~KindServed /\ report'.failures = report.failures
               /\ report'.sections = report.sections
            \/ report'.failures = report.failures + 1 /\ report'.sections = report.sections
<1> DEFINE next == [report EXCEPT !.gathered = @ + 1, !.step = GatherLater]
           good == [next EXCEPT !.sections[GatherKind] = GatherNew]
<1>1. StoryKept /\ ClusterKept /\ report.step = "Gather"
  BY DEF Gather, Making, ReportInv
<1>2. \/ KindServed /\ Answered(good, next)
      \/ ~KindServed /\ Answered(next, next)
  BY DEF Gather, GatherKind, GatherLater, GatherNew, KindServed
<1>3. /\ DOMAIN next = ClusterFields /\ next.step = GatherLater /\ next.namespace = report.namespace
      /\ next.scoped = report.scoped /\ next.args = report.args
      /\ next.failures = report.failures /\ next.sections = report.sections
      /\ next.noted = report.noted /\ next.events = report.events
      /\ next.gathered = report.gathered + 1
  BY <1>1 DEF ClusterKept, ClusterFields
<1>4. /\ DOMAIN good = ClusterFields /\ good.step = GatherLater /\ good.namespace = report.namespace
      /\ good.scoped = report.scoped /\ good.args = report.args
      /\ good.failures = report.failures /\ good.sections = [report.sections EXCEPT ![GatherKind] = GatherNew]
      /\ good.noted = report.noted /\ good.events = report.events
      /\ good.gathered = report.gathered + 1
  <2> HIDE DEF next
  <2> QED
    BY <1>3 DEF ClusterFields
<1> HIDE DEF next, good
<1>5. CASE KindServed /\ Answered(good, next)
  BY <1>1, <1>3, <1>4, <1>5, ClusterAnswered
<1>6. CASE ~KindServed /\ Answered(next, next)
  BY <1>1, <1>3, <1>6, ClusterAnswered
<1> QED
  BY <1>2, <1>5, <1>6

LEMMA SectionIsGathered ==
  ASSUME ReportInv, Gather
  PROVE  (StoryKept /\ ClusterKept)'
<1>1. StoryKept /\ ClusterKept /\ report.step = "Gather"
  BY GatherDoes
<1>2. /\ report'.failures \in {report.failures, report.failures + 1}
      /\ report'.sections \in {report.sections, [report.sections EXCEPT ![GatherKind] = GatherNew]}
      /\ UNCHANGED <<world, story>>
  BY GatherDoes
<1>3. GatherLater \in {"Gather", "EventNamespaces", "Count"}
  BY DEF GatherLater
<1>4. Shows(GatherNew, GatherKind, world) /\ world \in ToSet(story)
  BY <1>1, DiagnosisShows, WorldIsOfStory DEF ClusterKept, GatherNew
<1>5. report.noted = <<>> /\ report.events = Absent
  BY <1>1 DEF ClusterKept, EventsNoted, EventsCounted
<1>6. Headed'
  BY GatherDoes DEF ClusterKept, Headed
<1>7. SectionsShown'
  <2> SUFFICES ASSUME NEW k \in DOMAIN report'.sections, report'.sections[k] # Absent
               PROVE  (\E w \in ToSet(story) : Shows(report.sections[k], k, w))'
    BY <1>2, <1>3, GatherDoes DEF SectionsShown
  <2>1. ASSUME NEW w, Shows(report'.sections[k], k, w)
        PROVE  Shows(report.sections[k], k, w)'
    BY <2>1, GatherDoes DEF Shows, InScope
  <2>2. \/ k \in DOMAIN report.sections /\ report'.sections[k] = report.sections[k]
        \/ k = GatherKind /\ report'.sections[k] = GatherNew
    BY <1>2
  <2> QED
    <3>1. \E w \in ToSet(story) : Shows(report'.sections[k], k, w)
      BY <1>1, <1>4, <2>2 DEF ClusterKept, SectionsShown
    <3> QED
      BY <1>2, <2>1, <3>1
<1>8. EventsNoted'
  BY <1>3, <1>5, GatherDoes, EmptySeq DEF EventsNoted
<1> QED
  BY <1>1, <1>2, <1>3, <1>5, GatherDoes, <1>6, <1>7, <1>8
     DEF ClusterKept, ClusterSteps, EventsCounted, StoryKept

\* What a step that leaves a part alone has to say of it.
LEMMA SectionsStay ==
  ASSUME SectionsShown, ToSet(story) \subseteq ToSet(story'), report'.step # "Namespace" \/ report.step = report'.step,
         report'.sections = report.sections, report'.scoped = report.scoped,
         report'.args = report.args
  PROVE  SectionsShown'
<1> SUFFICES ASSUME NEW k \in DOMAIN report.sections, report.sections[k] # Absent
             PROVE  /\ report'.step # "Namespace"
                    /\ (\E w \in ToSet(story) : Shows(report.sections[k], k, w))'
  BY DEF SectionsShown
<1>1. report'.step # "Namespace"
  BY DEF SectionsShown
<1>2. PICK w \in ToSet(story) : Shows(report.sections[k], k, w)
  BY DEF SectionsShown
<1>3. Shows(report.sections[k], k, w)'
  BY <1>2 DEF Shows, InScope
<1> QED
  BY <1>1, <1>3

LEMMA HeardStays ==
  ASSUME ToSet(story) \subseteq ToSet(story'), report'.scoped = report.scoped,
         report'.args = report.args
  PROVE  Heard \subseteq Heard' /\ Seq(Heard) \subseteq Seq(Heard')
<1>1. Heard \subseteq Heard'
  BY DEF Heard
<1> QED
  BY <1>1, SeqMonotonic

\* What a choice of the events' namespaces does to the report.
AllNamespaces == report.namespace = ""

LEMMA EventNamespacesDo ==
  ASSUME ReportInv, EventNamespaces
  PROVE  /\ StoryKept /\ ClusterKept /\ report.step = "EventNamespaces"
         /\ UNCHANGED <<world, story>> /\ DOMAIN report' = ClusterFields
         /\ report'.step = "Events" /\ report'.namespace = report.namespace
         /\ report'.scoped = report.scoped /\ report'.args = report.args
         /\ report'.failures \in {report.failures, report.failures + 1}
         /\ report'.sections = report.sections /\ report'.gathered = report.gathered
         /\ report'.noted = report.noted /\ report'.events = report.events
         /\ ~AllNamespaces => report'.queue = <<report.namespace>>
<1> DEFINE next == [report EXCEPT !.step = "Events"]
           one == [next EXCEPT !.queue = <<report.namespace>>]
           many(q) == [next EXCEPT !.queue = q]
<1>1. StoryKept /\ ClusterKept /\ report.step = "EventNamespaces"
  BY DEF EventNamespaces, Making, ReportInv
<1>2. \/ ~AllNamespaces /\ report' = one /\ UNCHANGED <<world, story>>
      \/ AllNamespaces /\ \E q, p : Answered(many(q), many(p))
  BY DEF EventNamespaces, AllNamespaces
<1>3. /\ DOMAIN next = ClusterFields /\ next.step = "Events" /\ next.namespace = report.namespace
      /\ next.scoped = report.scoped /\ next.args = report.args
      /\ next.failures = report.failures /\ next.sections = report.sections
      /\ next.noted = report.noted /\ next.events = report.events
      /\ next.gathered = report.gathered
  BY <1>1 DEF ClusterKept, ClusterFields
<1>4. ASSUME NEW q
      PROVE  /\ DOMAIN many(q) = ClusterFields /\ many(q).step = "Events"
             /\ many(q).namespace = report.namespace /\ many(q).queue = q
             /\ many(q).scoped = report.scoped /\ many(q).args = report.args
             /\ many(q).failures = report.failures /\ many(q).sections = report.sections
             /\ many(q).noted = report.noted /\ many(q).events = report.events
             /\ many(q).gathered = report.gathered
  <2> HIDE DEF next
  <2> QED
    BY <1>3 DEF ClusterFields
<1> HIDE DEF next
<1>5. one = many(<<report.namespace>>)
  OBVIOUS
<1> HIDE DEF many, one
<1>6. CASE ~AllNamespaces /\ report' = one /\ UNCHANGED <<world, story>>
  BY <1>1, <1>4, <1>5, <1>6
<1>7. CASE AllNamespaces /\ \E q, p : Answered(many(q), many(p))
  <2>1. PICK q, p : Answered(many(q), many(p))
    BY <1>7
  <2>2. \/ report' = many(q)
        \/ /\ DOMAIN report' = ClusterFields /\ report'.failures = many(p).failures + 1
           /\ report'.step = many(p).step /\ report'.namespace = many(p).namespace
           /\ report'.scoped = many(p).scoped /\ report'.args = many(p).args
           /\ report'.sections = many(p).sections /\ report'.noted = many(p).noted
           /\ report'.events = many(p).events /\ report'.gathered = many(p).gathered
    BY <1>4, <2>1, ClusterAnswered
  <2>3. UNCHANGED <<world, story>>
    BY <2>1 DEF Answered
  <2>4. CASE report' = many(q)
    BY <1>1, <1>4, <1>7, <2>3, <2>4
  <2>5. CASE report' # many(q)
    BY <1>1, <1>4, <1>7, <2>2, <2>3, <2>5
  <2> QED
    BY <2>4, <2>5
<1> QED
  BY <1>2, <1>6, <1>7

LEMMA EventNamespacesAreChosen ==
  ASSUME ReportInv, EventNamespaces
  PROVE  (StoryKept /\ ClusterKept)'
<1>1. report.noted = <<>> /\ report.events = Absent
  BY EventNamespacesDo DEF ClusterKept, EventsNoted, EventsCounted
<1>2. Headed'
  BY EventNamespacesDo DEF ClusterKept, Headed
<1>3. SectionsShown'
  BY EventNamespacesDo, SectionsStay DEF ClusterKept
<1>4. EventsNoted'
  BY EventNamespacesDo, <1>1, EmptySeq DEF ClusterKept, EventsNoted, Headed, AllNamespaces
<1>5. EventsCounted' /\ StoryKept'
  BY EventNamespacesDo, <1>1 DEF EventsCounted, StoryKept
<1>6. report'.failures \in Nat /\ report'.step \in ClusterSteps
  <2>1. report.failures \in Nat
    BY EventNamespacesDo DEF ClusterKept
  <2>2. report'.failures \in {report.failures, report.failures + 1} /\ report'.step = "Events"
    BY EventNamespacesDo
  <2> QED
    BY <2>1, <2>2 DEF ClusterSteps
<1> QED
  BY EventNamespacesDo, <1>2, <1>3, <1>4, <1>5, <1>6 DEF ClusterKept

\* The events a reading notes, and what it does to the report.
EventsFound == {e \in ToSet(world.events) : e.ns = Head(report.queue) /\ Noteworthy(e)}

LEMMA ReadEventsDo ==
  ASSUME ReportInv, ReadEvents
  PROVE  /\ StoryKept /\ ClusterKept /\ report.step = "Events" /\ report.queue # <<>>
         /\ world \in Worlds
         /\ UNCHANGED <<world, story>> /\ DOMAIN report' = ClusterFields
         /\ report'.step = "Events" /\ report'.namespace = report.namespace
         /\ report'.scoped = report.scoped /\ report'.args = report.args
         /\ report'.sections = report.sections /\ report'.gathered = report.gathered
         /\ report'.events = report.events /\ report'.queue = Tail(report.queue)
         /\ \/ /\ report'.failures = report.failures
               /\ report'.noted = report.noted \o Filtered(world.events, EventsFound)
            \/ report'.failures = report.failures + 1 /\ report'.noted = report.noted
<1> DEFINE next == [report EXCEPT !.queue = Tail(@)]
           more == Filtered(world.events, EventsFound)
           good == [next EXCEPT !.noted = @ \o more]
<1>1. /\ StoryKept /\ ClusterKept /\ report.step = "Events" /\ report.queue # <<>>
      /\ world \in Worlds
  BY DEF ReadEvents, Making, ReportInv
<1>2. Answered(good, next)
  BY DEF ReadEvents, EventsFound
<1>3. /\ DOMAIN next = ClusterFields /\ next.step = "Events" /\ next.namespace = report.namespace
      /\ next.scoped = report.scoped /\ next.args = report.args
      /\ next.failures = report.failures /\ next.sections = report.sections
      /\ next.noted = report.noted /\ next.events = report.events
      /\ next.queue = Tail(report.queue) /\ next.gathered = report.gathered
  BY <1>1 DEF ClusterKept, ClusterFields
<1>4. /\ DOMAIN good = ClusterFields /\ good.step = "Events" /\ good.namespace = report.namespace
      /\ good.scoped = report.scoped /\ good.args = report.args
      /\ good.failures = report.failures /\ good.sections = report.sections
      /\ good.noted = report.noted \o more /\ good.events = report.events
      /\ good.queue = Tail(report.queue) /\ good.gathered = report.gathered
  <2> HIDE DEF next, more
  <2> QED
    BY <1>3 DEF ClusterFields
<1> HIDE DEF next, good
<1>5. more = Filtered(world.events, EventsFound)
  OBVIOUS
<1> HIDE DEF more
<1>6. /\ UNCHANGED <<world, story>> /\ DOMAIN report' = ClusterFields
      /\ report'.step = "Events" /\ report'.namespace = report.namespace
      /\ report'.scoped = report.scoped /\ report'.args = report.args
      /\ report'.sections = report.sections /\ report'.gathered = report.gathered
      /\ report'.events = report.events /\ report'.queue = Tail(report.queue)
      /\ \/ report'.failures = report.failures /\ report'.noted = report.noted \o more
         \/ report'.failures = report.failures + 1 /\ report'.noted = report.noted
  BY <1>2, <1>3, <1>4, ClusterAnswered
<1> QED
  BY <1>1, <1>5, <1>6

LEMMA EventsAreRead ==
  ASSUME ReportInv, ReadEvents
  PROVE  (StoryKept /\ ClusterKept)'
<1> DEFINE more == Filtered(world.events, EventsFound)
<1>1. /\ StoryKept /\ ClusterKept /\ report.step = "Events" /\ report.queue # <<>>
      /\ world \in Worlds
  BY ReadEventsDo
<1>2. /\ UNCHANGED <<world, story>> /\ report'.step = "Events"
      /\ \/ report'.failures = report.failures /\ report'.noted = report.noted \o more
         \/ report'.failures = report.failures + 1 /\ report'.noted = report.noted
  BY ReadEventsDo
<1> HIDE DEF more
<1>3. report.events = Absent /\ report.noted \in Seq(Heard)
  BY <1>1 DEF ClusterKept, EventsCounted, EventsNoted
<1>4. report.scoped => /\ report.queue = <<report.args.namespace>> /\ report.noted = <<>>
                       /\ Head(report.queue) = report.args.namespace /\ Tail(report.queue) = <<>>
  <2>1. \A n : Head(<<n>>) = n /\ Tail(<<n>>) = <<>>
    OBVIOUS
  <2> QED
    BY <1>1, <2>1 DEF ClusterKept, EventsNoted
<1>5. /\ more \in Seq(ToSet(world.events) \cap EventsFound)
      /\ Len(more) = Cardinality(Places(world.events, EventsFound))
  <2>1. world.events \in Seq(ToSet(world.events))
    BY <1>1, ReportsAssumption
  <2> QED
    BY <2>1, FilteredWhat DEF more
<1>6. world \in ToSet(story)
  BY <1>1, WorldIsOfStory
<1>7. more \in Seq(Heard)
  <2>1. ToSet(world.events) \cap EventsFound \subseteq Heard
    BY <1>4, <1>6 DEF Heard, EventsFound
  <2> QED
    BY <1>5, <2>1, SeqMonotonic
<1>8. report'.noted \in Seq(Heard) /\ Seq(Heard) \subseteq Seq(Heard')
  BY <1>2, <1>3, <1>7, ReadEventsDo, HeardStays, ConcatProperties
<1>9. report.scoped => Len(more) = InNamespace
  <2>1. report.scoped => Places(world.events, EventsFound)
                           = {i \in DOMAIN world.events :
                                world.events[i].ns = report.args.namespace
                                  /\ Noteworthy(world.events[i])}
    BY <1>4 DEF Places, ToSet, EventsFound
  <2> QED
    BY <1>5, <2>1 DEF InNamespace
<1>10. EventsNoted'
  <2>1. InNamespace' = InNamespace
    BY ReadEventsDo DEF InNamespace
  <2>2. report.failures \in Nat
    BY <1>1 DEF ClusterKept
  <2>3. report.scoped => \/ report'.failures # 0
                         \/ report'.noted = more
    <3>1. report.failures + 1 # 0
      BY <2>2
    <3>2. <<>> \o more = more
      BY <1>7, ConcatEmptySeq
    <3> QED
      BY <1>2, <1>4, <3>1, <3>2
  <2> QED
    BY <1>4, <1>8, <1>9, <2>1, <2>3, ReadEventsDo DEF EventsNoted, Untouched
<1>11. Headed'
  BY ReadEventsDo DEF ClusterKept, Headed
<1>12. SectionsShown'
  BY ReadEventsDo, SectionsStay DEF ClusterKept
<1>13. /\ DOMAIN report' = ClusterFields /\ report'.events = report.events
       /\ report.failures \in Nat
  BY ReadEventsDo DEF ClusterKept
<1> QED
  BY <1>1, <1>2, <1>3, <1>10, <1>11, <1>12, <1>13
     DEF ClusterKept, ClusterSteps, EventsCounted, StoryKept

\* What is noted is warnings and errors.
LEMMA NotedAreCounted ==
  ASSUME EventsNoted
  PROVE  LET T(type) == {e \in ToSet(report.noted) : e.type = type}
         IN /\ Len(Filtered(report.noted, T("Warning"))) + Len(Filtered(report.noted, T("Error")))
                 = Len(report.noted)
            /\ Len(report.noted) \in Nat
<1> DEFINE T(type) == {e \in ToSet(report.noted) : e.type = type}
<1>1. report.noted \in Seq(Heard) /\ Len(report.noted) \in Nat
  BY LenProperties DEF EventsNoted
<1>2. T("Warning") \cap T("Error") = {}
  OBVIOUS
<1>3. ASSUME NEW i \in DOMAIN report.noted
      PROVE  report.noted[i] \in T("Warning") \cup T("Error")
  <2>1. report.noted[i] \in ToSet(report.noted) /\ Noteworthy(report.noted[i])
    BY <1>1, LenProperties, ElementOfSeq DEF ToSet, Heard
  <2> QED
    BY <2>1 DEF Noteworthy
<1> HIDE DEF T
<1>4. Len(Filtered(report.noted, T("Warning"))) + Len(Filtered(report.noted, T("Error")))
        = Len(report.noted)
  BY <1>1, <1>2, <1>3, FilteredApart
<1> QED
  BY <1>1, <1>4 DEF T

\* What a health check makes of the events it has noted.
ShownEvents == SubSeq(report.noted, 1, Min({EventLimit, Len(report.noted)}))
EventsSummed == LET T(type) == {e \in ToSet(report.noted) : e.type = type}
                IN [warnings |-> Len(Filtered(report.noted, T("Warning"))),
                    errors |-> Len(Filtered(report.noted, T("Error"))), listed |-> ShownEvents]

LEMMA NoteEventsDoes ==
  ASSUME ReportInv, NoteEvents
  PROVE  /\ StoryKept /\ ClusterKept /\ report.step = "Events" /\ report.queue = <<>>
         /\ UNCHANGED <<world, story>>
         /\ DOMAIN report' = ClusterFields /\ report'.step = "Count"
         /\ report'.namespace = report.namespace /\ report'.scoped = report.scoped
         /\ report'.args = report.args /\ report'.failures = report.failures
         /\ report'.sections = report.sections /\ report'.gathered = report.gathered
         /\ report'.noted = report.noted /\ report'.events = EventsSummed
         /\ EventsSummed.warnings + EventsSummed.errors = Len(report.noted)
         /\ EventsSummed.listed = ShownEvents /\ EventsSummed # Absent /\ Len(report.noted) \in Nat
<1>1. /\ StoryKept /\ ClusterKept /\ report.step = "Events" /\ report.queue = <<>>
      /\ UNCHANGED <<world, story>>
  BY DEF NoteEvents, Making, ReportInv
<1>2. report' = [report EXCEPT !.step = "Count", !.events = EventsSummed]
  BY DEF NoteEvents, EventsSummed, ShownEvents
<1>3. EventsNoted
  BY <1>1 DEF ClusterKept
<1>4. /\ EventsSummed.warnings + EventsSummed.errors = Len(report.noted)
      /\ EventsSummed.listed = ShownEvents /\ EventsSummed # Absent /\ Len(report.noted) \in Nat
  BY <1>3, NotedAreCounted DEF EventsSummed, Absent
<1> QED
  BY <1>1, <1>2, <1>4 DEF ClusterKept, ClusterFields

LEMMA EventsAreNoted ==
  ASSUME ReportInv, NoteEvents
  PROVE  (StoryKept /\ ClusterKept)'
<1> DEFINE cut == Min({EventLimit, Len(report.noted)})
<1>1. /\ report.noted \in Seq(Heard) /\ Len(report.noted) \in Nat
      /\ \A i \in 1 .. Len(report.noted) : report.noted[i] \in Heard
  <2>1. report.noted \in Seq(Heard)
    BY NoteEventsDoes DEF ClusterKept, EventsNoted
  <2> QED
    BY <2>1, LenProperties, ElementOfSeq
<1>2. \A i \in DOMAIN ShownEvents : ShownEvents[i] \in Heard
  <2>1. cut \in Nat /\ cut <= Len(report.noted)
    BY <1>1, MinIs, ReportsAssumption
  <2>2. \A i \in 1 .. cut : report.noted[i] \in Heard
    BY <1>1, <2>1
  <2>3. ShownEvents = SubSeq(report.noted, 1, cut)
    BY DEF ShownEvents
  <2> HIDE DEF cut
  <2>4. ShownEvents \in Seq(Heard)
    BY <2>1, <2>2, <2>3, SubSeqProperties
  <2>5. DOMAIN ShownEvents = 1 .. Len(ShownEvents)
    BY <2>4, LenProperties
  <2> QED
    BY <2>4, <2>5, ElementOfSeq
<1>3. Heard' = Heard /\ InNamespace' = InNamespace /\ (Untouched' <=> Untouched)
  BY NoteEventsDoes DEF Heard, InNamespace, Untouched
<1>4. EventsCounted'
  <2>1. report.scoped /\ Untouched => Len(report.noted) = InNamespace
    <3>1. \A n : <<n>> # <<>>
      OBVIOUS
    <3> QED
      BY <3>1, NoteEventsDoes DEF ClusterKept, EventsNoted
  <2> QED
    BY <1>2, <1>3, <2>1, NoteEventsDoes DEF EventsCounted
<1>5. EventsNoted'
  BY <1>1, <1>3, NoteEventsDoes DEF EventsNoted
<1>6. Headed'
  BY NoteEventsDoes DEF ClusterKept, Headed
<1>7. SectionsShown'
  BY NoteEventsDoes, SectionsStay DEF ClusterKept
<1>8. StoryKept' /\ report'.failures \in Nat /\ report'.step \in ClusterSteps
  BY NoteEventsDoes DEF ClusterKept, ClusterSteps, StoryKept
<1> QED
  BY NoteEventsDoes, <1>4, <1>5, <1>6, <1>7, <1>8 DEF ClusterKept

\* What a count of the namespaces does to the report.
LEMMA CountNamespacesDo ==
  ASSUME ReportInv, CountNamespaces
  PROVE  /\ StoryKept /\ ClusterKept /\ report.step = "Count"
         /\ UNCHANGED <<world, story>> /\ DOMAIN report' = ClusterFields
         /\ report'.step = "done" /\ report'.namespace = report.namespace
         /\ report'.scoped = report.scoped /\ report'.args = report.args
         /\ report'.sections = report.sections /\ report'.gathered = report.gathered
         /\ report'.noted = report.noted /\ report'.events = report.events
         /\ report'.failures \in Nat /\ report'.failures >= report.failures
         /\ report'.failures = 0 => report'.total = Cardinality(world.namespaces)
<1> DEFINE done == [report EXCEPT !.step = "done"]
           good == [done EXCEPT !.total = Cardinality(world.namespaces)]
<1>1. StoryKept /\ ClusterKept /\ report.step = "Count"
  BY DEF CountNamespaces, Making, ReportInv
<1>2. Answered(good, done)
  BY DEF CountNamespaces
<1>3. /\ DOMAIN done = ClusterFields /\ done.step = "done" /\ done.namespace = report.namespace
      /\ done.scoped = report.scoped /\ done.args = report.args
      /\ done.failures = report.failures /\ done.sections = report.sections
      /\ done.noted = report.noted /\ done.events = report.events
      /\ done.gathered = report.gathered
  BY <1>1 DEF ClusterKept, ClusterFields
<1>4. /\ DOMAIN good = ClusterFields /\ good.step = "done" /\ good.namespace = report.namespace
      /\ good.scoped = report.scoped /\ good.args = report.args
      /\ good.failures = report.failures /\ good.sections = report.sections
      /\ good.noted = report.noted /\ good.events = report.events
      /\ good.gathered = report.gathered /\ good.total = Cardinality(world.namespaces)
  <2> HIDE DEF done
  <2> QED
    BY <1>3 DEF ClusterFields
<1> HIDE DEF done, good
<1>5. \/ report'.failures = report.failures /\ report'.total = Cardinality(world.namespaces)
      \/ report'.failures = report.failures + 1
  BY <1>2, <1>3, <1>4, ClusterAnswered
<1>6. report.failures \in Nat
  BY <1>1 DEF ClusterKept
<1>7. /\ report'.failures \in Nat /\ report'.failures >= report.failures
      /\ report'.failures = 0 => report'.total = Cardinality(world.namespaces)
  BY <1>5, <1>6
<1> QED
  BY <1>1, <1>2, <1>3, <1>4, <1>7, ClusterAnswered

LEMMA NamespacesAreCounted ==
  ASSUME ReportInv, CountNamespaces
  PROVE  (StoryKept /\ ClusterKept)'
<1>1. report.failures \in Nat /\ (report'.failures = 0 => report.failures = 0)
  <2>1. report.failures \in Nat
    BY CountNamespacesDo DEF ClusterKept
  <2> QED
    BY <2>1, CountNamespacesDo
<1>2. Heard' = Heard /\ InNamespace' = InNamespace /\ (Untouched' => Untouched)
  BY <1>1, CountNamespacesDo DEF Heard, InNamespace, Untouched
<1>3. EventsCounted'
  BY <1>2, CountNamespacesDo DEF ClusterKept, EventsCounted
<1>4. EventsNoted'
  BY <1>2, CountNamespacesDo DEF ClusterKept, EventsNoted
<1>5. Headed'
  BY CountNamespacesDo DEF ClusterKept, Headed
<1>6. SectionsShown'
  BY CountNamespacesDo, SectionsStay DEF ClusterKept
<1>7. StoryKept' /\ report'.step \in ClusterSteps
  BY CountNamespacesDo DEF ClusterSteps, StoryKept
<1> QED
  BY CountNamespacesDo, <1>3, <1>4, <1>5, <1>6, <1>7 DEF ClusterKept

\* The cluster changes while a report is made: what it was stays in the story.
LEMMA StoryGoesOn ==
  ASSUME ReportInv, StoryKept, ChangeWorld
  PROVE  /\ StoryKept' /\ world' \in Worlds /\ report' = report
         /\ ToSet(story) \subseteq ToSet(story') /\ Len(story') > 1
<1>1. PICK w \in Worlds \ {world} : world' = w /\ story' = Append(story, w) /\ report' = report
  BY DEF ChangeWorld
<1>2. /\ story' \in Seq(Worlds) /\ Len(story') = Len(story) + 1
      /\ \A i \in 1 .. Len(story) : story'[i] = story[i]
      /\ story'[Len(story) + 1] = w
  BY <1>1, AppendProperties DEF StoryKept
<1>3. /\ Len(story) \in Nat /\ DOMAIN story = 1 .. Len(story)
      /\ DOMAIN story' = 1 .. Len(story')
  BY <1>2, LenProperties DEF StoryKept
<1>4. ToSet(story) \subseteq ToSet(story')
  BY <1>2, <1>3 DEF ToSet
<1> QED
  BY <1>1, <1>2, <1>3, <1>4 DEF StoryKept

LEMMA HealthCheckOutlivesChange ==
  ASSUME ReportInv, StoryKept, ClusterKept, ChangeWorld
  PROVE  ClusterKept'
<1>1. /\ report' = report /\ ToSet(story) \subseteq ToSet(story') /\ Len(story') > 1
  BY StoryGoesOn
<1>2. Heard \subseteq Heard' /\ Seq(Heard) \subseteq Seq(Heard') /\ ~Untouched'
  BY <1>1, HeardStays DEF Untouched
<1>3. SectionsShown'
  BY <1>1, SectionsStay DEF ClusterKept
<1>4. EventsCounted'
  BY <1>1, <1>2 DEF ClusterKept, EventsCounted
<1>5. EventsNoted'
  BY <1>1, <1>2 DEF ClusterKept, EventsNoted
<1> QED
  BY <1>1, <1>3, <1>4, <1>5 DEF ClusterKept, Headed

LEMMA GuideAnswered ==
  ASSUME NEW good, NEW failed, Answered(good, failed), DOMAIN failed = GuideFields
  PROVE  /\ UNCHANGED <<world, story>>
         /\ \/ report' = good
            \/ /\ DOMAIN report' = GuideFields /\ report'.failures = failed.failures + 1
               /\ report'.events = failed.events
               /\ report'.step = failed.step /\ report'.args = failed.args
               /\ report'.vm = failed.vm /\ report'.vmi = failed.vmi
               /\ report'.volumes = failed.volumes /\ report'.pods = failed.pods
               /\ report'.queue = failed.queue /\ report'.logs = failed.logs
BY AnsweredWhat DEF GuideFields

LEMMA GuideStarts ==
  ASSUME NEW a, world \in Worlds, report' = GuideStart(a), story' = <<world>>, world' = world
  PROVE  (StoryKept /\ GuideKept)'
<1>1. StoryKept'
  BY DEF StoryKept
<1>2. /\ DOMAIN report' = GuideFields /\ report'.step \in {"refused", "VM"}
      /\ report'.vm = Absent /\ report'.vmi = Absent /\ report'.volumes = Absent
      /\ report'.pods = Absent /\ report'.queue = {}
  BY DEF GuideStart, GuideFields
<1> QED
  BY <1>1, <1>2 DEF GuideKept, GuideSteps, WasThere

\* What is fetched is of the kind asked for, and there.
LEMMA FetchedWasThere ==
  ASSUME NEW kind, world \in ToSet(story)
  PROVE  WasThere(Fetched(kind), kind)
<1>1. Fetched(kind) = Absent \/ Fetched(kind) \in Fetchable(world, kind)
  BY DEF Fetched
<1> QED
  BY <1>1 DEF WasThere, Fetchable

LEMMA FetchVMDoes ==
  ASSUME ReportInv, FetchVM
  PROVE  /\ StoryKept /\ GuideKept /\ report.step = "VM" /\ world \in Worlds
         /\ UNCHANGED <<world, story>> /\ DOMAIN report' = GuideFields
         /\ report'.step = "VMI" /\ report'.args = report.args /\ report'.vmi = report.vmi
         /\ report'.volumes = report.volumes /\ report'.pods = report.pods
         /\ report'.queue = report.queue /\ report'.events = report.events
         /\ \/ /\ report'.failures = report.failures
               /\ report'.vm = Fetched("VirtualMachine")
            \/ report'.failures = report.failures + 1 /\ report'.vm = report.vm
<1> DEFINE next == [report EXCEPT !.step = "VMI"]
           vm == Fetched("VirtualMachine")
           good == [next EXCEPT !.vm = vm]
<1>1. StoryKept /\ GuideKept /\ report.step = "VM" /\ world \in Worlds
  BY DEF FetchVM, Making, ReportInv
<1>2. Answered(good, next)
  BY DEF FetchVM
<1>3. /\ DOMAIN next = GuideFields /\ next.step = "VMI" /\ next.args = report.args
      /\ next.vm = report.vm /\ next.vmi = report.vmi /\ next.volumes = report.volumes
      /\ next.pods = report.pods /\ next.queue = report.queue
      /\ next.failures = report.failures /\ next.events = report.events
  BY <1>1 DEF GuideKept, GuideFields
<1>4. /\ DOMAIN good = GuideFields /\ good.step = "VMI" /\ good.args = report.args
      /\ good.vm = vm /\ good.vmi = report.vmi /\ good.volumes = report.volumes
      /\ good.pods = report.pods /\ good.queue = report.queue
      /\ good.failures = report.failures /\ good.events = report.events
  <2> HIDE DEF next, vm
  <2> QED
    BY <1>3 DEF GuideFields
<1>5. vm = Fetched("VirtualMachine")
  OBVIOUS
<1> HIDE DEF next, good, vm
<1> QED
  BY <1>1, <1>2, <1>3, <1>4, <1>5, GuideAnswered

LEMMA MachineIsFetched ==
  ASSUME ReportInv, FetchVM
  PROVE  (StoryKept /\ GuideKept)'
<1>1. WasThere(Fetched("VirtualMachine"), "VirtualMachine")
  BY FetchVMDoes, WorldIsOfStory, FetchedWasThere
<1> QED
  BY <1>1, FetchVMDoes DEF GuideKept, GuideSteps, WasThere, StoryKept

LEMMA InstanceIsFetched ==
  ASSUME ReportInv, FetchVMI
  PROVE  (StoryKept /\ GuideKept)'
<1> DEFINE Vols(vmi) == LET source == VolumesOf(report.vm, vmi)
                        IN IF source = Absent \/ source.volumes = <<>> THEN Absent
                           ELSE [kind |-> source.kind, volumes |-> source.volumes]
           With(vmi) == [report EXCEPT !.step = "Pods", !.vmi = vmi, !.volumes = Vols(vmi)]
           vmi == Fetched("VirtualMachineInstance")
<1>1. StoryKept /\ GuideKept /\ report.step = "VMI"
  BY DEF FetchVMI, Making, ReportInv
<1>2. Answered(With(vmi), With(Absent))
  BY DEF FetchVMI
<1>3. WasThere(vmi, "VirtualMachineInstance") /\ WasThere(Absent, "VirtualMachineInstance")
  BY <1>1, WorldIsOfStory, FetchedWasThere DEF WasThere
<1>4. ASSUME NEW i, WasThere(i, "VirtualMachineInstance"), Vols(i) # Absent
      PROVE  IF report.vm # Absent /\ report.vm.volumes # <<>>
             THEN Vols(i) = [kind |-> "VirtualMachine", volumes |-> report.vm.volumes]
             ELSE i # Absent /\ Vols(i) = [kind |-> "VirtualMachineInstance", volumes |-> i.volumes]
  BY <1>1, <1>4 DEF VolumesOf, WasThere, GuideKept
<1> HIDE DEF Vols, vmi
<1>5. ASSUME NEW i
      PROVE  /\ DOMAIN With(i) = GuideFields /\ With(i).step = "Pods" /\ With(i).args = report.args
             /\ With(i).vm = report.vm /\ With(i).vmi = i /\ With(i).volumes = Vols(i)
             /\ With(i).pods = report.pods /\ With(i).queue = report.queue
             /\ With(i).logs = report.logs
  BY <1>1 DEF GuideKept, GuideFields
<1> HIDE DEF With
<1>6. PICK i : /\ WasThere(i, "VirtualMachineInstance")
               /\ UNCHANGED <<world, story>> /\ DOMAIN report' = GuideFields
               /\ report'.step = "Pods" /\ report'.args = report.args
               /\ report'.vm = report.vm /\ report'.vmi = i /\ report'.volumes = Vols(i)
               /\ report'.pods = report.pods /\ report'.queue = report.queue
  BY <1>2, <1>3, <1>5, GuideAnswered
<1>7. GuideKept'
  BY <1>1, <1>4, <1>6 DEF GuideKept, GuideSteps, WasThere
<1> QED
  BY <1>1, <1>6, <1>7 DEF StoryKept

\* What the fetch of the pods puts into the guide.
NoLogs == [of |-> {}]
SomePods == [of |-> Launchers(world)]

LEMMA FetchPodsDoes ==
  ASSUME ReportInv, FetchPods
  PROVE  /\ StoryKept /\ GuideKept /\ report.step = "Pods"
         /\ UNCHANGED <<world, story>> /\ DOMAIN report' = GuideFields
         /\ report'.step = "Logs" /\ report'.args = report.args
         /\ report'.vm = report.vm /\ report'.vmi = report.vmi /\ report'.volumes = report.volumes
         /\ report'.logs = NoLogs /\ report'.events = report.events
         /\ \/ /\ report'.failures = report.failures
               /\ report'.pods = SomePods /\ report'.queue = Launchers(world)
            \/ /\ report'.failures = report.failures + 1
               /\ report'.pods = report.pods /\ report'.queue = report.queue
<1> DEFINE next == [report EXCEPT !.step = "Logs", !.logs = NoLogs]
           good == [next EXCEPT !.pods = SomePods, !.queue = Launchers(world)]
<1>1. StoryKept /\ GuideKept /\ report.step = "Pods"
  BY DEF FetchPods, Making, ReportInv
<1>2. Answered(good, next)
  BY DEF FetchPods, NoLogs, SomePods
<1>3. /\ DOMAIN next = GuideFields /\ next.step = "Logs" /\ next.args = report.args
      /\ next.vm = report.vm /\ next.vmi = report.vmi /\ next.volumes = report.volumes
      /\ next.pods = report.pods /\ next.queue = report.queue /\ next.logs = NoLogs
      /\ next.failures = report.failures /\ next.events = report.events
  BY <1>1 DEF GuideKept, GuideFields
<1>4. /\ DOMAIN good = GuideFields /\ good.step = "Logs" /\ good.args = report.args
      /\ good.vm = report.vm /\ good.vmi = report.vmi /\ good.volumes = report.volumes
      /\ good.pods = SomePods /\ good.queue = Launchers(world) /\ good.logs = NoLogs
      /\ good.failures = report.failures /\ good.events = report.events
  <2> HIDE DEF next
  <2> QED
    BY <1>3 DEF GuideFields
<1> HIDE DEF next, good
<1> QED
  BY <1>1, <1>2, <1>3, <1>4, GuideAnswered

LEMMA PodsAreFetched ==
  ASSUME ReportInv, FetchPods
  PROVE  (StoryKept /\ GuideKept)'
<1>1. StoryKept /\ GuideKept /\ report.step = "Pods"
  BY FetchPodsDoes
<1>2. /\ DOMAIN NoLogs = {"of"} /\ NoLogs.of = {} /\ SomePods.of = Launchers(world)
      /\ NoLogs # Absent /\ SomePods # Absent
  BY DEF Absent, NoLogs, SomePods
<1>3. report.pods = Absent /\ report.queue = {}
  BY <1>1 DEF GuideKept
<1>4. world \in ToSet(story)
  BY <1>1, WorldIsOfStory
<1>5. report'.pods # Absent => (\E w \in ToSet(story) : report.pods.of = Launchers(w))'
  <2> SUFFICES ASSUME report'.pods # Absent
               PROVE  report'.pods.of = Launchers(world)' /\ world \in ToSet(story)'
    BY FetchPodsDoes
  <2>1. Launchers(world)' = Launchers(world)
    BY FetchPodsDoes DEF Launchers
  <2> QED
    BY <1>2, FetchPodsDoes, <1>3, <1>4, <2>1
<1>6. report'.logs.of \cup report'.queue = PodsOf(report')
  BY <1>2, FetchPodsDoes, <1>3 DEF PodsOf
<1>7. GuideKept'
  BY <1>1, <1>2, FetchPodsDoes, <1>5, <1>6 DEF GuideKept, GuideSteps, WasThere
<1> QED
  BY <1>1, FetchPodsDoes, <1>7 DEF StoryKept

\* The pods of a guide stay those of a cluster there was.
LEMMA PodsStay ==
  ASSUME GuideKept, UNCHANGED <<world, story>>, report'.args = report.args,
         report'.pods = report.pods
  PROVE  report'.pods # Absent => (\E w \in ToSet(story) : report.pods.of = Launchers(w))'
<1> SUFFICES ASSUME report'.pods # Absent
             PROVE  (\E w \in ToSet(story) : report.pods.of = Launchers(w))'
  OBVIOUS
<1>1. PICK w \in ToSet(story) : report.pods.of = Launchers(w)
  BY DEF GuideKept
<1>2. Launchers(w)' = Launchers(w)
  BY DEF Launchers
<1> QED
  BY <1>1, <1>2

\* What the fetch of one pod's log puts into the guide.
MoreLogs(o) == [report.logs EXCEPT !.of = @ \cup {o}]

LEMMA FetchLogsDoes ==
  ASSUME ReportInv, NEW o \in report.queue, FetchLogs(o)
  PROVE  /\ StoryKept /\ GuideKept /\ report.step = "Logs"
         /\ UNCHANGED <<world, story>> /\ DOMAIN report' = GuideFields
         /\ report'.step = "Logs" /\ report'.args = report.args
         /\ report'.vm = report.vm /\ report'.vmi = report.vmi /\ report'.volumes = report.volumes
         /\ report'.pods = report.pods /\ report'.events = report.events
         /\ \/ /\ report'.failures = report.failures
               /\ report'.queue = report.queue \ {o} /\ report'.logs = MoreLogs(o)
            \/ /\ \/ report'.failures = report.failures /\ ~IsThere(o, world)
                  \/ report'.failures = report.failures + 1
               /\ report'.queue = {} /\ report'.logs = Absent
<1> DEFINE next == [report EXCEPT !.queue = @ \ {o}]
           ended == [report EXCEPT !.queue = {}, !.logs = Absent]
           good == [next EXCEPT !.logs.of = @ \cup {o}]
<1>1. StoryKept /\ GuideKept /\ report.step = "Logs"
  BY DEF FetchLogs, Making, ReportInv
<1>2. \/ IsThere(o, world) /\ Answered(good, ended)
      \/ ~IsThere(o, world) /\ Answered(ended, ended)
  BY DEF FetchLogs
<1>3. /\ DOMAIN ended = GuideFields /\ ended.step = "Logs" /\ ended.args = report.args
      /\ ended.vm = report.vm /\ ended.vmi = report.vmi /\ ended.volumes = report.volumes
      /\ ended.pods = report.pods /\ ended.queue = {} /\ ended.logs = Absent
      /\ ended.failures = report.failures /\ ended.events = report.events
  BY <1>1 DEF GuideKept, GuideFields
<1>4. /\ DOMAIN good = GuideFields /\ good.step = "Logs" /\ good.args = report.args
      /\ good.vm = report.vm /\ good.vmi = report.vmi /\ good.volumes = report.volumes
      /\ good.pods = report.pods /\ good.queue = report.queue \ {o} /\ good.logs = MoreLogs(o)
      /\ good.failures = report.failures /\ good.events = report.events
  BY <1>1 DEF GuideKept, GuideFields, MoreLogs
<1> HIDE DEF next, ended, good
<1>5. CASE IsThere(o, world) /\ Answered(good, ended)
  BY <1>1, <1>3, <1>4, <1>5, GuideAnswered
<1>6. CASE ~IsThere(o, world) /\ Answered(ended, ended)
  BY <1>1, <1>3, <1>6, GuideAnswered
<1> QED
  BY <1>2, <1>5, <1>6

LEMMA LogsAreFetched ==
  ASSUME ReportInv, NEW o \in report.queue, FetchLogs(o)
  PROVE  (StoryKept /\ GuideKept)'
<1>1. StoryKept /\ GuideKept
  BY FetchLogsDoes
<1>2. /\ report.logs # Absent /\ DOMAIN report.logs = {"of"}
      /\ report.logs.of \cup report.queue = PodsOf(report)
  BY FetchLogsDoes DEF GuideKept
<1>3. /\ DOMAIN MoreLogs(o) = {"of"} /\ MoreLogs(o).of = report.logs.of \cup {o}
      /\ MoreLogs(o) # Absent
  BY <1>2 DEF Absent, MoreLogs
<1>4. report'.logs # Absent => DOMAIN report'.logs = {"of"}
                               /\ report'.logs.of \cup report'.queue = PodsOf(report')
  BY <1>2, <1>3, FetchLogsDoes DEF PodsOf
<1>5. report'.pods # Absent => (\E w \in ToSet(story) : report.pods.of = Launchers(w))'
  BY <1>1, FetchLogsDoes, PodsStay
<1>6. GuideKept'
  BY <1>1, <1>3, FetchLogsDoes, <1>4, <1>5 DEF GuideKept, GuideSteps, WasThere
<1> QED
  BY <1>1, FetchLogsDoes, <1>6 DEF StoryKept

\* What the fetch of the events puts into the guide.
EventsRead == [of |-> Filtered(world.events, {e \in ToSet(world.events) : Related(e)})]

LEMMA FetchEventsDoes ==
  ASSUME ReportInv, FetchEvents
  PROVE  /\ StoryKept /\ GuideKept /\ report.step = "Logs" /\ report.queue = {}
         /\ world \in Worlds
         /\ UNCHANGED <<world, story>> /\ DOMAIN report' = GuideFields
         /\ report'.step = "done" /\ report'.args = report.args
         /\ report'.vm = report.vm /\ report'.vmi = report.vmi /\ report'.volumes = report.volumes
         /\ report'.pods = report.pods /\ report'.queue = report.queue /\ report'.logs = report.logs
         /\ \/ report'.failures = report.failures /\ report'.events = EventsRead
            \/ report'.failures = report.failures + 1 /\ report'.events = report.events
<1> DEFINE done == [report EXCEPT !.step = "done"]
           good == [done EXCEPT !.events = EventsRead]
<1>1. /\ StoryKept /\ GuideKept /\ report.step = "Logs" /\ report.queue = {}
      /\ world \in Worlds
  BY DEF FetchEvents, Making, ReportInv
<1>2. Answered(good, done)
  BY DEF FetchEvents, EventsRead
<1>3. /\ DOMAIN done = GuideFields /\ done.step = "done" /\ done.args = report.args
      /\ done.vm = report.vm /\ done.vmi = report.vmi /\ done.volumes = report.volumes
      /\ done.pods = report.pods /\ done.queue = report.queue /\ done.logs = report.logs
      /\ done.failures = report.failures /\ done.events = report.events
  BY <1>1 DEF GuideKept, GuideFields
<1>4. /\ DOMAIN good = GuideFields /\ good.step = "done" /\ good.args = report.args
      /\ good.vm = report.vm /\ good.vmi = report.vmi /\ good.volumes = report.volumes
      /\ good.pods = report.pods /\ good.queue = report.queue /\ good.logs = report.logs
      /\ good.failures = report.failures /\ good.events = EventsRead
  <2> HIDE DEF done
  <2> QED
    BY <1>3 DEF GuideFields
<1> HIDE DEF done, good
<1> QED
  BY <1>1, <1>2, <1>3, <1>4, GuideAnswered

LEMMA GuideEnds ==
  ASSUME ReportInv, FetchEvents
  PROVE  (StoryKept /\ GuideKept)'
<1>1. StoryKept /\ GuideKept /\ report.step = "Logs" /\ report.queue = {}
  BY FetchEventsDoes
<1>2. report'.logs # Absent => report'.logs.of = PodsOf(report')
  <2>1. report.logs # Absent => report.logs.of \cup {} = PodsOf(report)
    BY <1>1 DEF GuideKept
  <2> QED
    BY FetchEventsDoes, <2>1 DEF PodsOf
<1>3. report'.pods # Absent => (\E w \in ToSet(story) : report.pods.of = Launchers(w))'
  BY <1>1, FetchEventsDoes, PodsStay
<1>4. GuideKept'
  BY <1>1, FetchEventsDoes, <1>2, <1>3 DEF GuideKept, GuideSteps, WasThere
<1> QED
  BY <1>1, FetchEventsDoes, <1>4 DEF StoryKept

LEMMA GuideOutlivesChange ==
  ASSUME ReportInv, StoryKept, GuideKept, ChangeWorld
  PROVE  GuideKept'
<1>1. report' = report /\ ToSet(story) \subseteq ToSet(story')
  BY StoryGoesOn
<1>2. \A o, kind : WasThere(o, kind) => WasThere(o, kind)'
  BY <1>1 DEF WasThere
<1>3. \A w : Launchers(w)' = Launchers(w)
  BY <1>1 DEF Launchers
<1>4. report.pods # Absent => (\E w \in ToSet(story) : report.pods.of = Launchers(w))'
  BY <1>1, <1>3 DEF GuideKept
<1>5. WasThere(report.vm, "VirtualMachine")' /\ WasThere(report.vmi, "VirtualMachineInstance")'
  BY <1>1, <1>2 DEF GuideKept, WasThere
<1> QED
  BY <1>1, <1>4, <1>5 DEF GuideKept

LEMMA ReportLeftAlone ==
  ASSUME ReportInv, UNCHANGED reportVars
  PROVE  ReportInv'
<1>1. world' = world /\ story' = story /\ report' = report
  BY DEF reportVars
<1>2. ClusterKept => ClusterKept'
  <2>1. Heard' = Heard /\ InNamespace' = InNamespace /\ (Untouched' <=> Untouched)
    BY <1>1 DEF Heard, InNamespace, Untouched
  <2>2. SectionsShown => SectionsShown'
    BY <1>1, SectionsStay
  <2> QED
    BY <1>1, <2>1, <2>2 DEF ClusterKept, Headed, EventsNoted, EventsCounted
<1>3. GuideKept => GuideKept'
  <2>1. \A w : Launchers(w)' = Launchers(w)
    BY <1>1 DEF Launchers
  <2> QED
    BY <1>1, <2>1 DEF GuideKept, WasThere, PodsOf
<1> QED
  BY <1>1, <1>2, <1>3 DEF ReportInv, StoryKept

LEMMA ReportInvHolds == DiagnosticsSpec => []ReportInv
<1>1. DiagnosticsInit => ReportInv
  BY DEF DiagnosticsInit, ReportInv, NoReport
<1>2. ReportInv /\ [DiagnosticsNext]_diagnosticsVars => ReportInv'
  <2> SUFFICES ASSUME ReportInv, [DiagnosticsNext]_diagnosticsVars
               PROVE  ReportInv'
    OBVIOUS
  <2>1. world \in Worlds
    BY DEF ReportInv
  <2>2. CASE UNCHANGED reportVars
    BY <2>2, ReportLeftAlone
  <2>3. CASE AskReport
    <3>1. story' = <<world>> /\ world' = world
      BY <2>3 DEF AskReport
    <3>2. CASE \E a \in ClusterCalls : report' = ClusterStart(a)
      <4>1. report'.prompt = "cluster-health-check"
        BY <3>2 DEF ClusterStart
      <4> QED
        BY <2>1, <3>1, <3>2, <4>1, HealthCheckStarts DEF ReportInv
    <3>3. CASE \E a \in GuideCalls : report' = GuideStart(a)
      <4>1. report'.prompt = "vm-troubleshoot"
        <5>1. \A a : GuideStart(a).prompt = "vm-troubleshoot"
          BY DEF GuideStart
        <5> QED
          BY <3>3, <5>1
      <4> QED
        BY <2>1, <3>1, <3>3, <4>1, GuideStarts DEF ReportInv
    <3> QED
      BY <2>3, <3>2, <3>3 DEF AskReport
  <2>4. CASE ReportNext
    <3>1. ASSUME CheckNamespace \/ Gather \/ EventNamespaces \/ ReadEvents \/ NoteEvents
                   \/ CountNamespaces
          PROVE  ReportInv'
      <4>1. (StoryKept /\ ClusterKept)'
        BY <3>1, NamespaceIsChecked, SectionIsGathered, EventNamespacesAreChosen, EventsAreRead,
           EventsAreNoted, NamespacesAreCounted
      <4>2. world' = world
        BY <3>1 DEF CheckNamespace, Gather, EventNamespaces, ReadEvents, NoteEvents,
           CountNamespaces, Answered
      <4>3. report'.prompt = "cluster-health-check"
        <5>1. /\ report.prompt = "cluster-health-check" /\ DOMAIN report = ClusterFields
          BY <3>1 DEF ReportInv, ClusterKept, CheckNamespace, Gather, EventNamespaces, ReadEvents,
             NoteEvents, CountNamespaces, Making
        <5> QED
          BY <3>1, <5>1 DEF CheckNamespace, Gather, EventNamespaces, ReadEvents, NoteEvents,
             CountNamespaces, Answered, ClusterFields
      <4> QED
        BY <2>1, <4>1, <4>2, <4>3 DEF ReportInv
    <3>2. ASSUME \/ FetchVM \/ FetchVMI \/ FetchPods \/ FetchEvents
                 \/ \E o \in report.queue : FetchLogs(o)
          PROVE  ReportInv'
      <4>1. (StoryKept /\ GuideKept)'
        BY <3>2, MachineIsFetched, InstanceIsFetched, PodsAreFetched, LogsAreFetched, GuideEnds
      <4>2. world' = world
        BY <3>2 DEF FetchVM, FetchVMI, FetchPods, FetchEvents, FetchLogs, Answered
      <4>3. report'.prompt = "vm-troubleshoot"
        <5>1. /\ report.prompt = "vm-troubleshoot" /\ DOMAIN report = GuideFields
          BY <3>2 DEF ReportInv, GuideKept, FetchVM, FetchVMI, FetchPods, FetchEvents, FetchLogs, Making
        <5> QED
          BY <3>2, <5>1 DEF FetchVM, FetchVMI, FetchPods, FetchEvents, FetchLogs, Answered, GuideFields
      <4> QED
        BY <2>1, <4>1, <4>2, <4>3 DEF ReportInv
    <3>3. CASE ChangeWorld
      <4>1. world' \in Worlds /\ report' = report
        BY <3>3 DEF ChangeWorld
      <4> QED
        BY <3>3, <4>1, StoryGoesOn, HealthCheckOutlivesChange, GuideOutlivesChange DEF ReportInv
    <3> QED
      BY <2>4, <3>1, <3>2, <3>3 DEF ReportNext
  <2> QED
    BY <2>2, <2>3, <2>4 DEF DiagnosticsNext, diagnosticsVars
<1> QED
  BY <1>1, <1>2, PTL DEF DiagnosticsSpec

----
(* What a report leaves out: only what could not be read or was not there.  *)

Kinds(n) == {Gathered[i] : i \in 1 .. n}
LeftOutSoFar == {k \in Kinds(report.gathered) : IsLeftOut(k)}

\* A section is missing for a request that failed, and for each another one.
SectionsAsked ==
  /\ report.gathered \in 0 .. 7 /\ DOMAIN report.sections = ToSet(Gathered)
  /\ report.step = "Gather" => report.gathered < 7
  /\ report.step = "Namespace" => report.gathered = 0
  /\ report.step \notin {"Namespace", "Gather"} => report.gathered = 7
  /\ Cardinality(LeftOutSoFar) <= report.failures

EventsCut ==
  /\ report.step \in {"Count", "done"} /\ report.args.events => report.events # Absent
  /\ report.events # Absent =>
       LET shown == Len(report.events.listed)
       IN /\ shown <= EventLimit
          /\ shown < EventLimit => shown = report.events.warnings + report.events.errors

ClusterFull ==
  /\ SectionsAsked /\ EventsCut
  /\ report.step = "done" /\ report.failures = 0 =>
       \E w \in ToSet(story) : report.total = Cardinality(w.namespaces)

\* What each part of a guide says by its absence.
MachineMissed ==
  report.vm = Absent => \E w \in ToSet(story) : Fetchable(w, "VirtualMachine") = {}
InstanceMissed ==
  report.vmi = Absent => \E w \in ToSet(story) : Fetchable(w, "VirtualMachineInstance") = {}
LogsMissed ==
  report.logs = Absent => \E w \in ToSet(story), o \in report.pods.of : ~IsThere(o, w)
VolumesMissed ==
  report.volumes = Absent => \A o \in {report.vm, report.vmi} \ {Absent} : o.volumes = <<>>
EventsRelated ==
  report.events # Absent =>
    \E w \in ToSet(story) : ToSet(report.events.of) = {e \in ToSet(w.events) : Related(e)}

GuideFull ==
  /\ report.failures \in Nat /\ EventsRelated
  /\ report.step \in {"Pods", "Logs", "done"} => VolumesMissed
  /\ report.failures = 0 =>
       /\ report.step \in {"VMI", "Pods", "Logs", "done"} => MachineMissed
       /\ report.step \in {"Pods", "Logs", "done"} => InstanceMissed
       /\ report.step \in {"Logs", "done"} => report.pods # Absent /\ LogsMissed
       /\ report.step = "done" => report.events # Absent

ReportFull ==
  /\ report.prompt = "cluster-health-check" => ClusterFull
  /\ report.prompt = "vm-troubleshoot" => GuideFull

LEMMA GatheredKinds ==
  /\ Len(Gathered) = 7 /\ Kinds(7) = ToSet(Gathered) /\ Kinds(0) = {}
  /\ \A n \in 0 .. 6 : Kinds(n + 1) = Kinds(n) \cup {Gathered[n + 1]}
  /\ \A n \in 0 .. 7 : Kinds(n) \subseteq ToSet(Gathered) /\ IsFiniteSet(Kinds(n))
<1>1. Len(Gathered) = 7 /\ DOMAIN Gathered = 1 .. 7
  BY DEF Gathered
<1>2. Kinds(7) = ToSet(Gathered) /\ Kinds(0) = {}
  BY <1>1 DEF Kinds, ToSet
<1>3. \A n \in 0 .. 6 : Kinds(n + 1) = Kinds(n) \cup {Gathered[n + 1]}
  BY DEF Kinds
<1>4. \A n \in 0 .. 7 : Kinds(n) \subseteq ToSet(Gathered)
  BY <1>1 DEF Kinds, ToSet
<1>5. IsFiniteSet(Kinds(7))
  <2>1. \A n \in 0 .. 6 : IsFiniteSet(Kinds(n)) => IsFiniteSet(Kinds(n + 1))
    <3> TAKE n \in 0 .. 6
    <3> HAVE IsFiniteSet(Kinds(n))
    <3>1. IsFiniteSet(Kinds(n) \cup {Gathered[n + 1]})
      BY FS_AddElement
    <3> QED
      BY <1>3, <3>1
  <2>2. IsFiniteSet(Kinds(0))
    BY <1>2, FS_EmptySet
  <2>3. /\ IsFiniteSet(Kinds(1)) /\ IsFiniteSet(Kinds(2)) /\ IsFiniteSet(Kinds(3))
        /\ IsFiniteSet(Kinds(4)) /\ IsFiniteSet(Kinds(5)) /\ IsFiniteSet(Kinds(6))
    BY <2>1, <2>2
  <2> QED
    BY <2>1, <2>3
<1>6. \A n \in 0 .. 7 : IsFiniteSet(Kinds(n))
  BY <1>2, <1>4, <1>5, FS_Subset
<1> QED
  BY <1>1, <1>2, <1>3, <1>4, <1>6

\* Fewer sections are left out, or one more for a request that failed.
LEMMA FewerLeftOut ==
  ASSUME SectionsAsked, report.failures \in Nat, report'.failures \in Nat,
         report'.failures >= report.failures, LeftOutSoFar' \subseteq LeftOutSoFar
  PROVE  (Cardinality(LeftOutSoFar) <= report.failures)'
<1>1. IsFiniteSet(LeftOutSoFar)
  BY GatheredKinds, FS_Subset DEF SectionsAsked, LeftOutSoFar
<1>2. /\ Cardinality(LeftOutSoFar') <= Cardinality(LeftOutSoFar)
      /\ Cardinality(LeftOutSoFar) \in Nat /\ Cardinality(LeftOutSoFar') \in Nat
  BY <1>1, FS_Subset, FS_CardinalityType
<1> QED
  BY <1>2 DEF SectionsAsked

LEMMA OneMoreLeftOut ==
  ASSUME SectionsAsked, report.failures \in Nat, report'.failures = report.failures + 1,
         NEW kind, LeftOutSoFar' \subseteq LeftOutSoFar \cup {kind}
  PROVE  (Cardinality(LeftOutSoFar) <= report.failures)'
<1>1. IsFiniteSet(LeftOutSoFar)
  BY GatheredKinds, FS_Subset DEF SectionsAsked, LeftOutSoFar
<1>2. /\ IsFiniteSet(LeftOutSoFar \cup {kind})
      /\ Cardinality(LeftOutSoFar \cup {kind}) <= Cardinality(LeftOutSoFar) + 1
      /\ Cardinality(LeftOutSoFar) \in Nat
  <2>1. Cardinality(LeftOutSoFar) \in Nat
    BY <1>1, FS_CardinalityType
  <2>2. /\ IsFiniteSet(LeftOutSoFar \cup {kind})
        /\ Cardinality(LeftOutSoFar \cup {kind})
             = IF kind \in LeftOutSoFar THEN Cardinality(LeftOutSoFar)
               ELSE Cardinality(LeftOutSoFar) + 1
    BY <1>1, FS_AddElement
  <2> QED
    BY <2>1, <2>2
<1>3. /\ Cardinality(LeftOutSoFar') <= Cardinality(LeftOutSoFar \cup {kind})
      /\ Cardinality(LeftOutSoFar \cup {kind}) \in Nat /\ Cardinality(LeftOutSoFar') \in Nat
  BY <1>2, FS_Subset, FS_CardinalityType
<1> QED
  BY <1>2, <1>3 DEF SectionsAsked

\* A step that asks for no section.
LEMMA SectionsAskedStay ==
  ASSUME SectionsAsked, report.failures \in Nat, report'.failures \in Nat,
         report'.failures >= report.failures,
         report'.gathered = report.gathered, report'.sections = report.sections,
         ToSet(story) \subseteq ToSet(story'),
         \/ report.gathered = 0 /\ report'.step = "Gather"
         \/ report.gathered = 7 /\ report'.step \notin {"Namespace", "Gather"}
         \/ report'.step = report.step
  PROVE  SectionsAsked'
<1>1. LeftOutSoFar' \subseteq LeftOutSoFar
  BY DEF LeftOutSoFar, IsLeftOut
<1>2. (Cardinality(LeftOutSoFar) <= report.failures)'
  BY <1>1, FewerLeftOut
<1> QED
  BY <1>2 DEF SectionsAsked

LEMMA SectionsAskedOn ==
  ASSUME ClusterKept, ClusterFull, UNCHANGED story,
         report'.failures \in {report.failures, report.failures + 1},
         report'.gathered = report.gathered, report'.sections = report.sections,
         report.step \notin {"Namespace", "Gather"},
         report'.step \notin {"Namespace", "Gather"}
  PROVE  SectionsAsked'
<1>1. report.failures \in Nat
  BY DEF ClusterKept
<1>2. report'.failures \in Nat /\ report'.failures >= report.failures
  BY <1>1
<1>3. SectionsAsked /\ report.gathered = 7
  BY DEF ClusterFull, SectionsAsked
<1> QED
  BY <1>1, <1>2, <1>3, SectionsAskedStay

LEMMA HealthCheckStartsFull ==
  ASSUME NEW a, report' = ClusterStart(a)
  PROVE  ClusterFull'
<1>1. /\ report'.gathered = 0 /\ report'.step = "Namespace" /\ report'.failures = 0
      /\ report'.events = Absent /\ DOMAIN report'.sections = ToSet(Gathered)
  BY DEF ClusterStart
<1>2. LeftOutSoFar' = {}
  BY <1>1, GatheredKinds DEF LeftOutSoFar
<1>3. Cardinality(LeftOutSoFar)' = 0
  BY <1>2, FS_EmptySet
<1> QED
  BY <1>1, <1>3 DEF ClusterFull, SectionsAsked, EventsCut

LEMMA NamespaceIsCheckedFull ==
  ASSUME ReportInv, ClusterFull, CheckNamespace
  PROVE  ClusterFull'
<1>1. /\ ClusterKept /\ report.step = "Namespace" /\ UNCHANGED <<world, story>>
  BY DEF CheckNamespace, Making, ReportInv
<1>2. PICK found \in BOOLEAN :
        report' = [report EXCEPT !.step = "Gather",
                                 !.namespace = NamespaceFor(found),
                                 !.warned = report.args.namespace # "" /\ ~found,
                                 !.scoped = found]
  BY DEF CheckNamespace
<1>3. /\ report'.step = "Gather" /\ report'.args = report.args
      /\ report'.failures = report.failures /\ report'.sections = report.sections
      /\ report'.events = report.events /\ report'.gathered = report.gathered
  BY <1>1, <1>2 DEF ClusterKept, ClusterFields
<1>4. report.failures \in Nat
  BY <1>1 DEF ClusterKept
<1>5. SectionsAsked'
  <2>1. report.gathered = 0 /\ SectionsAsked
    BY <1>1 DEF ClusterFull, SectionsAsked
  <2>2. report'.failures \in Nat /\ report'.failures >= report.failures
    BY <1>3, <1>4
  <2>3. ToSet(story) \subseteq ToSet(story')
    BY <1>1
  <2> QED
    BY <1>3, <1>4, <2>1, <2>2, <2>3, SectionsAskedStay
<1> QED
  BY <1>1, <1>3, <1>5 DEF ClusterFull, EventsCut

LEMMA SectionIsGatheredFull ==
  ASSUME ReportInv, ClusterFull, Gather
  PROVE  ClusterFull'
<1>1. PICK kind : kind = GatherKind
  OBVIOUS
<1>2. /\ StoryKept /\ ClusterKept /\ report.step = "Gather" /\ report.failures \in Nat
      /\ SectionsAsked
  BY GatherDoes DEF ClusterKept, ClusterFull
<1>3. GatherNew # Absent
  BY DEF GatherNew, Diagnosis, Absent
<1>4. /\ GatherLater \in {"Gather", "EventNamespaces", "Count"}
      /\ GatherLater = "Gather" <=> report.gathered + 1 < 7
      /\ report.args.events => GatherLater # "Count"
  BY GatheredKinds DEF GatherLater
<1>5. /\ report.gathered \in 0 .. 6 /\ kind \in ToSet(Gathered)
      /\ Kinds(report.gathered + 1) = Kinds(report.gathered) \cup {kind}
  <2>1. report.gathered \in 0 .. 6
    BY <1>2 DEF SectionsAsked
  <2> QED
    BY <1>1, <2>1, GatheredKinds DEF GatherKind, ToSet
<1>6. world \in ToSet(story)
  BY <1>2, WorldIsOfStory
<1>7. UNCHANGED <<world, story>> /\ report'.gathered = report.gathered + 1
  BY GatherDoes
<1>8. DOMAIN report'.sections = ToSet(Gathered)
  BY <1>2, GatherDoes DEF SectionsAsked
<1>9. Kinds(report.gathered)' = Kinds(report.gathered) \cup {kind}
  BY <1>5, <1>7
<1>10. (Cardinality(LeftOutSoFar) <= report.failures)'
  <2>1. CASE KindServed /\ report'.failures = report.failures
               /\ report'.sections = [report.sections EXCEPT ![kind] = GatherNew]
    <3>1. report'.sections[kind] = GatherNew
      BY <1>2, <1>5, <2>1 DEF SectionsAsked
    <3>2. \A k \in Kinds(report.gathered) : IsLeftOut(k)' => IsLeftOut(k)
      <4> SUFFICES ASSUME NEW k \in Kinds(report.gathered), IsLeftOut(k)'
                   PROVE  IsLeftOut(k)
        OBVIOUS
      <4>1. k # kind
        BY <1>3, <3>1 DEF IsLeftOut
      <4>2. k \in DOMAIN report.sections
        BY <1>2, GatheredKinds DEF SectionsAsked
      <4> QED
        BY <1>7, <2>1, <4>1, <4>2 DEF IsLeftOut
    <3>3. ~IsLeftOut(kind)'
      BY <1>3, <3>1 DEF IsLeftOut
    <3>4. LeftOutSoFar' \subseteq LeftOutSoFar
      BY <1>9, <3>2, <3>3 DEF LeftOutSoFar
    <3> QED
      BY <1>2, <2>1, <3>4, FewerLeftOut
  <2>2. CASE ~KindServed /\ report'.failures = report.failures
               /\ report'.sections = report.sections
    <3>1. ~IsLeftOut(kind)'
      BY <1>6, <1>7, <2>2, <1>1 DEF IsLeftOut, KindServed
    <3>2. LeftOutSoFar' \subseteq LeftOutSoFar
      BY <1>7, <1>9, <2>2, <3>1 DEF LeftOutSoFar, IsLeftOut
    <3> QED
      BY <1>2, <2>2, <3>2, FewerLeftOut
  <2>3. CASE report'.failures = report.failures + 1 /\ report'.sections = report.sections
    <3>1. LeftOutSoFar' \subseteq LeftOutSoFar \cup {kind}
      BY <1>7, <1>9, <2>3 DEF LeftOutSoFar, IsLeftOut
    <3> QED
      BY <1>2, <2>3, <3>1, OneMoreLeftOut
  <2> QED
    BY <1>1, <2>1, <2>2, <2>3, GatherDoes
<1>11. SectionsAsked'
  BY <1>4, <1>5, <1>8, <1>10, GatherDoes DEF SectionsAsked
<1>12. EventsCut'
  BY <1>4, GatherDoes DEF ClusterFull, EventsCut
<1> QED
  BY <1>4, <1>11, <1>12, GatherDoes DEF ClusterFull

LEMMA EventNamespacesAreChosenFull ==
  ASSUME ReportInv, ClusterFull, EventNamespaces
  PROVE  ClusterFull'
<1>1. SectionsAsked'
  BY EventNamespacesDo, SectionsAskedOn
<1> QED
  BY <1>1, EventNamespacesDo DEF ClusterFull, EventsCut

LEMMA EventsAreReadFull ==
  ASSUME ReportInv, ClusterFull, ReadEvents
  PROVE  ClusterFull'
<1>1. SectionsAsked'
  BY ReadEventsDo, SectionsAskedOn
<1> QED
  BY <1>1, ReadEventsDo DEF ClusterFull, EventsCut

\* The list is cut at the limit, and the counts are of what was noted.
LEMMA EventsAreNotedFull ==
  ASSUME ReportInv, ClusterFull, NoteEvents
  PROVE  ClusterFull'
<1> DEFINE cut == Min({EventLimit, Len(report.noted)})
<1>1. /\ Len(EventsSummed.listed) <= EventLimit
      /\ Len(EventsSummed.listed) < EventLimit => Len(EventsSummed.listed) = Len(report.noted)
  <2>1. /\ cut = IF EventLimit <= Len(report.noted) THEN EventLimit ELSE Len(report.noted)
        /\ EventLimit \in Nat
    BY NoteEventsDoes, MinIs, ReportsAssumption
  <2>2. EventsSummed.listed = SubSeq(report.noted, 1, cut)
    BY NoteEventsDoes DEF ShownEvents
  <2> HIDE DEF cut
  <2>3. cut \in Nat /\ cut <= EventLimit /\ (cut < EventLimit => cut = Len(report.noted))
        /\ cut <= Len(report.noted)
    BY NoteEventsDoes, <2>1
  <2>4. Len(EventsSummed.listed) = cut
    <3>1. report.noted \in Seq(Heard)
      BY NoteEventsDoes DEF ClusterKept, EventsNoted
    <3>2. \A i \in 1 .. cut : report.noted[i] \in Heard
      BY NoteEventsDoes, <2>3, <3>1, ElementOfSeq
    <3>3. Len(SubSeq(report.noted, 1, cut)) = IF 1 <= cut THEN cut - 1 + 1 ELSE 0
      BY <2>3, <3>2, SubSeqProperties
    <3> QED
      BY <2>2, <2>3, <3>3
  <2> QED
    BY <2>3, <2>4
<1>2. EventsCut'
  BY <1>1, NoteEventsDoes DEF EventsCut
<1>3. SectionsAsked'
  BY NoteEventsDoes, SectionsAskedOn
<1> QED
  BY <1>2, <1>3, NoteEventsDoes DEF ClusterFull

LEMMA NamespacesAreCountedFull ==
  ASSUME ReportInv, ClusterFull, CountNamespaces
  PROVE  ClusterFull'
<1>1. report.failures \in Nat /\ SectionsAsked /\ report.gathered = 7
  BY CountNamespacesDo DEF ClusterKept, ClusterFull, SectionsAsked
<1>2. SectionsAsked'
  BY <1>1, CountNamespacesDo, SectionsAskedStay
<1>3. EventsCut'
  BY CountNamespacesDo DEF ClusterFull, EventsCut
<1>4. world \in ToSet(story)
  BY CountNamespacesDo, WorldIsOfStory
<1> QED
  BY <1>2, <1>3, <1>4, CountNamespacesDo DEF ClusterFull

LEMMA HealthCheckStaysFull ==
  ASSUME ReportInv, ClusterKept, ClusterFull, report' = report, ToSet(story) \subseteq ToSet(story')
  PROVE  ClusterFull'
<1>1. SectionsAsked'
  <2>1. report.failures \in Nat /\ report'.failures >= report.failures
    BY DEF ClusterKept
  <2> QED
    BY <2>1, SectionsAskedStay DEF ClusterFull
<1> QED
  BY <1>1 DEF ClusterFull, EventsCut

\* What is missing stays explained while the cluster changes.
LEMMA MissedStay ==
  ASSUME ToSet(story) \subseteq ToSet(story'), report'.args = report.args
  PROVE  /\ MachineMissed /\ report'.vm = report.vm => MachineMissed'
         /\ InstanceMissed /\ report'.vmi = report.vmi => InstanceMissed'
         /\ LogsMissed /\ report'.logs = report.logs /\ report'.pods = report.pods => LogsMissed'
         /\ VolumesMissed /\ report'.volumes = report.volumes /\ report'.vm = report.vm
              /\ report'.vmi = report.vmi => VolumesMissed'
         /\ EventsRelated /\ report'.events = report.events => EventsRelated'
<1>1. \A w, k : Fetchable(w, k)' = Fetchable(w, k)
  BY DEF Fetchable
<1>2. \A e : Related(e)' <=> Related(e)
  BY DEF Related
<1>3. \A o, w : IsThere(o, w)' <=> IsThere(o, w)
  BY DEF IsThere
<1>4. MachineMissed /\ report'.vm = report.vm => MachineMissed'
  BY <1>1 DEF MachineMissed
<1>5. InstanceMissed /\ report'.vmi = report.vmi => InstanceMissed'
  BY <1>1 DEF InstanceMissed
<1>6. LogsMissed /\ report'.logs = report.logs /\ report'.pods = report.pods => LogsMissed'
  BY <1>3 DEF LogsMissed
<1>7. VolumesMissed /\ report'.volumes = report.volumes /\ report'.vm = report.vm
        /\ report'.vmi = report.vmi => VolumesMissed'
  BY DEF VolumesMissed
<1>8. EventsRelated /\ report'.events = report.events => EventsRelated'
  <2> SUFFICES ASSUME EventsRelated, report'.events = report.events, report.events # Absent
               PROVE  (\E w \in ToSet(story) :
                         ToSet(report.events.of) = {e \in ToSet(w.events) : Related(e)})'
    BY DEF EventsRelated
  <2>1. PICK w \in ToSet(story) : ToSet(report.events.of) = {e \in ToSet(w.events) : Related(e)}
    BY DEF EventsRelated
  <2>2. {e \in ToSet(w.events) : Related(e)'} = {e \in ToSet(w.events) : Related(e)}
    BY <1>2
  <2>3. ToSet(report.events.of)' = ToSet(report.events.of)
    OBVIOUS
  <2> QED
    BY <2>1, <2>2, <2>3
<1> QED
  BY <1>4, <1>5, <1>6, <1>7, <1>8

LEMMA GuideStartsFull ==
  ASSUME NEW a, report' = GuideStart(a)
  PROVE  GuideFull'
<1>1. /\ report'.failures = 0 /\ report'.step \in {"refused", "VM"} /\ report'.events = Absent
  BY DEF GuideStart
<1> QED
  BY <1>1 DEF GuideFull, EventsRelated

\* What is fetched is missing only from a cluster that has it not.
LEMMA FetchedIsThere ==
  ASSUME NEW kind, world \in Worlds, world \in ToSet(story), Fetched(kind) = Absent
  PROVE  \E w \in ToSet(story) : Fetchable(w, kind) = {}
<1>1. Absent \notin world.objects
  BY ReportsAssumption
<1>2. Absent \notin Fetchable(world, kind)
  BY <1>1 DEF Fetchable
<1>3. Fetchable(world, kind) # {} => Fetched(kind) \in Fetchable(world, kind)
  BY DEF Fetched
<1> QED
  BY <1>2, <1>3

LEMMA MachineIsFetchedFull ==
  ASSUME ReportInv, GuideFull, FetchVM
  PROVE  GuideFull'
<1>1. report.failures \in Nat /\ EventsRelated
  BY DEF GuideFull
<1>2. Fetched("VirtualMachine") = Absent
        => \E w \in ToSet(story) : Fetchable(w, "VirtualMachine") = {}
  BY FetchVMDoes, WorldIsOfStory, FetchedIsThere
<1>3. /\ report'.failures \in Nat
      /\ report'.failures = 0 => report'.vm = Fetched("VirtualMachine")
  BY <1>1, FetchVMDoes
<1>4. report'.failures = 0 => MachineMissed'
  BY <1>2, <1>3, FetchVMDoes DEF MachineMissed, Fetchable
<1>5. EventsRelated'
  BY <1>1, FetchVMDoes, MissedStay
<1> QED
  BY <1>3, <1>4, <1>5, FetchVMDoes DEF GuideFull

LEMMA InstanceIsFetchedFull ==
  ASSUME ReportInv, GuideFull, FetchVMI
  PROVE  GuideFull'
<1> DEFINE Vols(vmi) == LET source == VolumesOf(report.vm, vmi)
                        IN IF source = Absent \/ source.volumes = <<>> THEN Absent
                           ELSE [kind |-> source.kind, volumes |-> source.volumes]
           With(vmi) == [report EXCEPT !.step = "Pods", !.vmi = vmi, !.volumes = Vols(vmi)]
           vmi == Fetched("VirtualMachineInstance")
<1>1. /\ StoryKept /\ GuideKept /\ report.step = "VMI" /\ world \in Worlds
      /\ report.failures \in Nat /\ EventsRelated
      /\ report.failures = 0 => MachineMissed
  BY DEF FetchVMI, Making, ReportInv, GuideFull
<1>2. Answered(With(vmi), With(Absent))
  BY DEF FetchVMI
<1>3. vmi = Absent => \E w \in ToSet(story) : Fetchable(w, "VirtualMachineInstance") = {}
  BY <1>1, WorldIsOfStory, FetchedIsThere
<1>4. ASSUME NEW i, Vols(i) = Absent
      PROVE  \A o \in {report.vm, i} \ {Absent} : o.volumes = <<>>
  <2>1. \A k, v : [kind |-> k, volumes |-> v] # Absent
    BY DEF Absent
  <2> QED
    BY <1>4, <2>1 DEF VolumesOf
<1> HIDE DEF Vols, vmi
<1>5. ASSUME NEW i
      PROVE  /\ DOMAIN With(i) = GuideFields /\ With(i).step = "Pods" /\ With(i).args = report.args
             /\ With(i).vm = report.vm /\ With(i).vmi = i /\ With(i).volumes = Vols(i)
             /\ With(i).failures = report.failures /\ With(i).events = report.events
  BY <1>1 DEF GuideKept, GuideFields
<1> HIDE DEF With
<1>6. PICK i : /\ UNCHANGED <<world, story>> /\ report'.step = "Pods" /\ report'.args = report.args
               /\ report'.vm = report.vm /\ report'.vmi = i /\ report'.volumes = Vols(i)
               /\ report'.events = report.events
               /\ \/ report'.failures = report.failures /\ i = vmi
                  \/ report'.failures = report.failures + 1
  <2>1. CASE report' = With(vmi)
    BY <1>2, <1>5, <2>1, GuideAnswered
  <2>2. CASE report' # With(vmi)
    BY <1>2, <1>5, <2>2, GuideAnswered
  <2> QED
    BY <2>1, <2>2
<1>7. /\ report'.failures \in Nat
      /\ report'.failures = 0 => report.failures = 0 /\ report'.vmi = vmi
  BY <1>1, <1>6
<1>8. report'.failures = 0 => InstanceMissed'
  BY <1>3, <1>6, <1>7 DEF InstanceMissed, Fetchable
<1>9. VolumesMissed'
  BY <1>4, <1>6 DEF VolumesMissed
<1>10. EventsRelated' /\ (report'.failures = 0 => MachineMissed')
  BY <1>1, <1>6, <1>7, MissedStay
<1> QED
  BY <1>6, <1>7, <1>8, <1>9, <1>10 DEF GuideFull

LEMMA PodsAreFetchedFull ==
  ASSUME ReportInv, GuideFull, FetchPods
  PROVE  GuideFull'
<1>1. /\ report.failures \in Nat /\ EventsRelated /\ VolumesMissed
      /\ report.failures = 0 => MachineMissed /\ InstanceMissed
  BY FetchPodsDoes DEF GuideFull
<1>2. NoLogs # Absent /\ SomePods # Absent
  BY DEF Absent, NoLogs, SomePods
<1>3. /\ report'.failures \in Nat
      /\ report'.failures = 0 => report.failures = 0 /\ report'.pods # Absent
  BY <1>1, <1>2, FetchPodsDoes
<1>4. LogsMissed'
  BY <1>2, FetchPodsDoes DEF LogsMissed
<1>5. ToSet(story) \subseteq ToSet(story')
  BY FetchPodsDoes
<1>6. /\ EventsRelated' /\ VolumesMissed'
      /\ report'.failures = 0 => MachineMissed' /\ InstanceMissed'
  BY <1>1, FetchPodsDoes, <1>3, <1>5, MissedStay
<1>7. report'.step = "Logs"
  BY FetchPodsDoes
<1> QED
  BY <1>7, <1>3, <1>4, <1>6 DEF GuideFull

LEMMA LogsAreFetchedFull ==
  ASSUME ReportInv, GuideFull, NEW o \in report.queue, FetchLogs(o)
  PROVE  GuideFull'
<1>1. /\ StoryKept /\ report.failures \in Nat /\ EventsRelated /\ VolumesMissed
      /\ report.failures = 0 => /\ MachineMissed /\ InstanceMissed /\ report.pods # Absent
  BY FetchLogsDoes DEF GuideFull
<1>2. /\ report.logs # Absent /\ DOMAIN report.logs = {"of"}
      /\ report.logs.of \cup report.queue = PodsOf(report)
  BY FetchLogsDoes DEF GuideKept
<1>3. MoreLogs(o) # Absent
  BY <1>2 DEF Absent, MoreLogs
<1>4. report'.failures \in Nat /\ (report'.failures = 0 => report.failures = 0)
  BY <1>1, FetchLogsDoes
<1>5. report'.failures = 0 => LogsMissed'
  <2> SUFFICES ASSUME report'.failures = 0, report'.logs = Absent
               PROVE  (\E w \in ToSet(story), p \in report.pods.of : ~IsThere(p, w))'
    BY DEF LogsMissed
  <2>1. ~IsThere(o, world)
    BY <1>1, <1>3, FetchLogsDoes
  <2>2. o \in report.pods.of
    BY <1>1, <1>2, <1>4 DEF PodsOf
  <2>3. world \in ToSet(story)
    BY <1>1, WorldIsOfStory
  <2>4. (~IsThere(o, world))'
    BY FetchLogsDoes, <2>1 DEF IsThere
  <2> QED
    BY FetchLogsDoes, <2>2, <2>3, <2>4
<1>6. ToSet(story) \subseteq ToSet(story')
  BY FetchLogsDoes
<1>7. /\ EventsRelated' /\ VolumesMissed'
      /\ report'.failures = 0 => MachineMissed' /\ InstanceMissed' /\ report'.pods # Absent
  BY <1>1, FetchLogsDoes, <1>4, <1>6, MissedStay
<1>8. report'.step = "Logs"
  BY FetchLogsDoes
<1> QED
  BY <1>8, <1>4, <1>5, <1>7 DEF GuideFull

LEMMA GuideEndsFull ==
  ASSUME ReportInv, GuideFull, FetchEvents
  PROVE  GuideFull'
<1> DEFINE related == {e \in ToSet(world.events) : Related(e)}
<1>1. /\ StoryKept /\ world \in Worlds /\ report.failures \in Nat
      /\ EventsRelated /\ VolumesMissed
      /\ report.failures = 0 => /\ MachineMissed /\ InstanceMissed
                                /\ report.pods # Absent /\ LogsMissed
  BY FetchEventsDoes DEF GuideFull
<1>2. EventsRead # Absent /\ ToSet(EventsRead.of) = related
  <2>1. world.events \in Seq(ToSet(world.events))
    BY <1>1, ReportsAssumption
  <2>2. IsSequence(world.events)
    BY <2>1, SequenceOfOwn
  <2>3. \A e : Has(Filtered(world.events, related), e) <=> Has(world.events, e) /\ e \in related
    BY <2>2, FilteredHas
  <2>4. \A s, e : e \in ToSet(s) <=> Has(s, e)
    BY DEF ToSet, Has
  <2>5. ToSet(Filtered(world.events, related)) = related
    BY <2>3, <2>4
  <2> QED
    BY <2>5 DEF Absent, EventsRead
<1>3. /\ report'.failures \in Nat
      /\ report'.failures = 0 => report.failures = 0 /\ report'.events = EventsRead
  BY <1>1, FetchEventsDoes
<1>4. ToSet(story) \subseteq ToSet(story') /\ world \in ToSet(story')
  BY <1>1, FetchEventsDoes, WorldIsOfStory
<1>5. EventsRelated'
  <2>1. CASE report'.events = EventsRead
    <3>1. {e \in ToSet(world.events) : Related(e)'} = related
      BY FetchEventsDoes DEF Related
    <3> HIDE DEF related
    <3>2. ToSet(report'.events.of) = {e \in ToSet(world.events) : Related(e)'}
      BY <1>2, <2>1, <3>1
    <3> QED
      BY FetchEventsDoes, <1>4, <3>2 DEF EventsRelated
  <2>2. CASE report'.events = report.events
    BY <1>1, FetchEventsDoes, <1>4, <2>2, MissedStay
  <2> QED
    BY FetchEventsDoes, <2>1, <2>2
<1>6. /\ VolumesMissed'
      /\ report'.failures = 0 => /\ MachineMissed' /\ InstanceMissed'
                                 /\ report'.pods # Absent /\ LogsMissed'
  BY <1>1, FetchEventsDoes, <1>3, <1>4, MissedStay
<1>7. report'.step = "done"
  BY FetchEventsDoes
<1> QED
  BY <1>2, <1>7, <1>3, <1>5, <1>6 DEF GuideFull

LEMMA GuideStaysFull ==
  ASSUME GuideFull, report' = report, ToSet(story) \subseteq ToSet(story')
  PROVE  GuideFull'
BY MissedStay DEF GuideFull

LEMMA ReportFullHolds == DiagnosticsSpec => []ReportFull
<1>1. DiagnosticsInit => ReportFull
  BY DEF DiagnosticsInit, ReportFull, NoReport
<1>2. ReportInv /\ ReportFull /\ [DiagnosticsNext]_diagnosticsVars => ReportFull'
  <2> SUFFICES ASSUME ReportInv, ReportFull, [DiagnosticsNext]_diagnosticsVars
               PROVE  ReportFull'
    OBVIOUS
  <2>1. ASSUME report' = report, ToSet(story) \subseteq ToSet(story')
        PROVE  ReportFull'
    <3>1. ClusterKept /\ ClusterFull => ClusterFull'
      BY <2>1, HealthCheckStaysFull
    <3>2. GuideFull => GuideFull'
      BY <2>1, GuideStaysFull
    <3> QED
      BY <2>1, <3>1, <3>2 DEF ReportFull, ReportInv
  <2>2. CASE UNCHANGED reportVars
    <3>1. report' = report /\ story' = story
      BY <2>2 DEF reportVars
    <3> QED
      BY <2>1, <3>1
  <2>3. CASE AskReport
    <3>1. CASE \E a \in ClusterCalls : report' = ClusterStart(a)
      <4>1. \A a : ClusterStart(a).prompt = "cluster-health-check"
        BY DEF ClusterStart
      <4> QED
        BY <3>1, <4>1, HealthCheckStartsFull DEF ReportFull
    <3>2. CASE \E a \in GuideCalls : report' = GuideStart(a)
      <4>1. \A a : GuideStart(a).prompt = "vm-troubleshoot"
        BY DEF GuideStart
      <4> QED
        BY <3>2, <4>1, GuideStartsFull DEF ReportFull
    <3> QED
      BY <2>3, <3>1, <3>2 DEF AskReport
  <2>4. CASE CheckNamespace \/ Gather \/ EventNamespaces \/ ReadEvents \/ NoteEvents
               \/ CountNamespaces
    <3>1. /\ report.prompt = "cluster-health-check" /\ DOMAIN report = ClusterFields
      BY <2>4 DEF ReportInv, ClusterKept, CheckNamespace, Gather, EventNamespaces, ReadEvents,
         NoteEvents, CountNamespaces, Making
    <3>2. ClusterFull'
      BY <2>4, <3>1, NamespaceIsCheckedFull, SectionIsGatheredFull, EventNamespacesAreChosenFull,
         EventsAreReadFull, EventsAreNotedFull, NamespacesAreCountedFull DEF ReportFull
    <3>3. report'.prompt = "cluster-health-check"
      BY <2>4, <3>1 DEF CheckNamespace, Gather, EventNamespaces, ReadEvents, NoteEvents,
         CountNamespaces, Answered, ClusterFields
    <3> QED
      BY <3>2, <3>3 DEF ReportFull
  <2>5. CASE FetchVM \/ FetchVMI \/ FetchPods \/ FetchEvents \/ \E o \in report.queue : FetchLogs(o)
    <3>1. /\ report.prompt = "vm-troubleshoot" /\ DOMAIN report = GuideFields
      BY <2>5 DEF ReportInv, GuideKept, FetchVM, FetchVMI, FetchPods, FetchEvents, FetchLogs, Making
    <3>2. GuideFull'
      BY <2>5, <3>1, MachineIsFetchedFull, InstanceIsFetchedFull, PodsAreFetchedFull,
         LogsAreFetchedFull, GuideEndsFull DEF ReportFull
    <3>3. report'.prompt = "vm-troubleshoot"
      BY <2>5, <3>1 DEF FetchVM, FetchVMI, FetchPods, FetchEvents, FetchLogs, Answered, GuideFields
    <3> QED
      BY <3>2, <3>3 DEF ReportFull
  <2>6. CASE ChangeWorld
    <3>1. CASE report.prompt \in {"cluster-health-check", "vm-troubleshoot"}
      <4>1. StoryKept
        BY <3>1 DEF ReportInv
      <4> QED
        BY <2>1, <2>6, <4>1, StoryGoesOn
    <3>2. CASE report.prompt \notin {"cluster-health-check", "vm-troubleshoot"}
      BY <2>6, <3>2 DEF ChangeWorld, ReportFull
    <3> QED
      BY <3>1, <3>2
  <2> QED
    BY <2>2, <2>3, <2>4, <2>5, <2>6 DEF DiagnosticsNext, diagnosticsVars, ReportNext
<1> QED
  BY <1>1, <1>2, ReportInvHolds, PTL DEF DiagnosticsSpec

\* Whatever the cluster does between the requests of a prompt, and whichever of
\* them fail: a health check shows the trouble of the scope its heading names, and
\* a guide is made of parts that belong together (health_check.go,
\* vm_troubleshoot.go).  A part is left out only where a request failed or there
\* was nothing to be read.
THEOREM ReportsAreTruthful == DiagnosticsSpec => []ReportsTruthful
<1>1. ReportInv /\ ReportFull => ReportsTruthful
  <2>1. ASSUME StoryKept, ClusterKept
        PROVE  ClusterTruthful
    <3>1. \A kind \in DOMAIN report.sections :
            report.sections[kind] # Absent =>
              \E w \in ToSet(story) : Shows(report.sections[kind], kind, w)
      BY <2>1 DEF ClusterKept, SectionsShown
    <3>2. \A i \in DOMAIN report.events.listed :
            report.events # Absent =>
            LET e == report.events.listed[i]
            IN /\ Noteworthy(e) /\ (report.scoped => e.ns = report.args.namespace)
               /\ \E w \in ToSet(story) : e \in ToSet(w.events)
      BY <2>1 DEF ClusterKept, EventsCounted, Heard
    <3>3. report.events # Absent /\ report.failures = 0 /\ Len(story) = 1 /\ report.scoped =>
            report.events.warnings + report.events.errors = InNamespace
      BY <2>1 DEF ClusterKept, EventsCounted, Untouched
    <3> QED
      BY <3>1, <3>2, <3>3 DEF ClusterTruthful, InNamespace
  <2>2. ASSUME StoryKept, GuideKept
        PROVE  GuideCoherent
    BY <2>2 DEF GuideKept, GuideCoherent, WasThere, PodsOf
  <2>3. ASSUME ClusterFull
        PROVE  ClusterWhole
    <3>1. report.step \notin {"Namespace", "Gather"} => LeftOut = LeftOutSoFar
      BY <2>3, GatheredKinds DEF ClusterFull, SectionsAsked, LeftOut, LeftOutSoFar
    <3>2. report.step \notin {"Namespace", "Gather"} => Cardinality(LeftOut) <= report.failures
      BY <2>3, <3>1 DEF ClusterFull, SectionsAsked
    <3> QED
      BY <2>3, <3>2 DEF ClusterFull, EventsCut, ClusterWhole
  <2>4. ASSUME GuideKept, GuideFull, report.step # "refused"
        PROVE  GuideWhole
    BY <2>4 DEF GuideKept, GuideSteps, GuideFull, GuideWhole, MachineMissed, InstanceMissed,
       LogsMissed, VolumesMissed, EventsRelated
  <2> QED
    BY <2>1, <2>2, <2>3, <2>4 DEF ReportInv, ReportFull, ReportsTruthful
<1> QED
  BY <1>1, ReportInvHolds, ReportFullHolds, PTL
====
