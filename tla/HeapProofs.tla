----------------------------- MODULE HeapProofs -----------------------------
(***************************************************************************)
(* Theorems about Heap, for any texts and any bounds: HeapInv is           *)
(* inductive, hence Main is always closed and only grows at its end.       *)
(*                                                                         *)
(* The argument: what the copy holds (fields copied so far, forwarded      *)
(* handles, pending objects and shapes) resolves in Main extended by       *)
(* what is pending.  Taking a slot never moves another, because the        *)
(* pending texts and shapes are new to Main and each is there once, so     *)
(* the commit appends exactly what is pending.                             *)
(*                                                                         *)
(* For the image of the graph, GraphInv adds what each copy is made of: a  *)
(* call holds the images of the fields it has copied, a handle forwarded   *)
(* without a call under way has its copy in place, and no later step of    *)
(* the copy changes an image or an entry.                                  *)
(***************************************************************************)
EXTENDS Heap, SequenceTheorems, TLAPS

\* A slot that fits some heap fits a larger one: slots are never given back.
LEMMA FitsLarger ==
    ASSUME NEW x \in Refs,
           NEW o \in Nat, NEW t \in Nat, NEW s \in Nat,
           NEW o2 \in Nat, NEW t2 \in Nat, NEW s2 \in Nat,
           o <= o2, t <= t2, s <= s2,
           Fits(x, o, t, s)
    PROVE  Fits(x, o2, t2, s2)
BY DEF Fits, Refs

LEMMA SeqLarger ==
    ASSUME NEW S, NEW T, S \subseteq T
    PROVE  Seq(S) \subseteq Seq(T)
OBVIOUS

LEMMA SumLarger ==
    \A a, b, c \in Nat : b <= c => a + b \in Nat /\ a + c \in Nat /\ a + b <= a + c
OBVIOUS

LEMMA SeqElement ==
    ASSUME NEW S, NEW s \in Seq(S), NEW k \in DOMAIN s
    PROVE  s[k] \in S
OBVIOUS

\* A concatenation has the elements of both.
LEMMA ConcatElements ==
    ASSUME NEW S, NEW s \in Seq(S), NEW t \in Seq(S), NEW u, u = s \o t
    PROVE  Elements(u) \subseteq Elements(s) \cup Elements(t)
<1>1. ASSUME NEW i \in DOMAIN u
      PROVE  u[i] \in Elements(s) \cup Elements(t)
  <2>1. CASE i \in DOMAIN s
    BY <1>1, <2>1 DEF Elements
  <2>2. CASE i \notin DOMAIN s
    <3>1. i \in 1..(Len(s) + Len(t)) /\ i > Len(s)
      BY <1>1, <2>2
    <3>2. i - Len(s) \in 1..Len(t)
      BY <3>1
    <3>3. u[i] = t[i - Len(s)]
      BY <3>1, <3>2
    <3> QED BY <3>2, <3>3 DEF Elements
  <2> QED BY <2>1, <2>2
<1> QED BY <1>1 DEF Elements

\* Committing what is new to the table appends exactly that, in its order
\* (TextTable.insert and intern_shape never find it there already).
LEMMA WithNewAppends ==
    ASSUME NEW S, NEW table \in Seq(S), NEW new \in Seq(S), Fresh(table, new)
    PROVE  WithNew(table, new) = table \o new
<1> DEFINE fresh == {i \in DOMAIN new : /\ new[i] \notin Elements(table)
                                      /\ \A j \in 1..i-1 : new[j] # new[i]}
<1>1. ASSUME NEW i \in DOMAIN new
      PROVE  i \in fresh
  <2>1. new[i] \notin Elements(table)
    BY <1>1 DEF Fresh, Elements
  <2>2. ASSUME NEW j \in 1..i-1
        PROVE  new[j] # new[i]
    <3>1. j \in DOMAIN new /\ j # i
      BY <1>1
    <3> QED BY <1>1, <3>1 DEF Fresh, Injective
  <2> QED BY <1>1, <2>1, <2>2
<1>2. fresh = DOMAIN new
  BY <1>1
<1> QED BY <1>2 DEF WithNew

\* Interning in the pending table keeps it new to Main, and the slot it
\* foretells is inside the two tables together (copy_text, copy_shape).
LEMMA IncludingFresh ==
    ASSUME NEW S, NEW table \in Seq(S), NEW more \in Seq(S), NEW x \in S,
           Fresh(table, more)
    PROVE  /\ Including(table, more, x) \in Seq(S)
           /\ Fresh(table, Including(table, more, x))
           /\ Len(more) <= Len(Including(table, more, x))
           /\ Slot(table, more, x) \in Nat \ {0}
           /\ Slot(table, more, x) <= Len(table) + Len(Including(table, more, x))
<1>1. CASE x \in Elements(table)
  <2>1. IndexOf(table, x) \in DOMAIN table
    BY <1>1 DEF IndexOf, Elements
  <2> QED BY <1>1, <2>1 DEF Including, Slot
<1>2. CASE x \notin Elements(table) /\ x \in Elements(more)
  <2>1. IndexOf(more, x) \in DOMAIN more
    BY <1>2 DEF IndexOf, Elements
  <2> QED BY <1>2, <2>1 DEF Including, Slot
<1>3. CASE x \notin Elements(table) /\ x \notin Elements(more)
  <2>1. Including(table, more, x) = Append(more, x)
    BY <1>3 DEF Including
  <2>2. Fresh(table, Append(more, x))
    BY <1>3 DEF Fresh, Injective, Elements
  <2>3. Slot(table, more, x) = Len(table) + Len(more) + 1
    BY <1>3 DEF Slot
  <2> QED BY <2>1, <2>2, <2>3
<1> QED BY <1>1, <1>2, <1>3

----------------------------------------------------------------------------
(* Evaluation.                                                             *)

\* The empty heaps satisfy the invariant.
LEMMA InitInv == Init => HeapInv
BY BoundsAssumption
   DEF Init, HeapInv, TypeOK, MainSelfContained, WorkVisible, EmptyHeap, Heaps,
       NothingForwarded, Imm, Ref, Refs, Kinds, Frames

\* A step that leaves Main and the copy alone has only the Work heap to keep.
LEMMA RunKeeps ==
    ASSUME HeapInv, UNCHANGED <<main, roots, copying>>,
           work' \in Heaps, runs' \in Nat, phase' \in {"idle", "run"}, WorkVisible'
    PROVE  HeapInv'
<1>1. TypeOK'
  BY DEF HeapInv, TypeOK, copying
<1>2. MainSelfContained'
  BY DEF HeapInv, MainSelfContained, Resolves, copying
<1> QED BY <1>1, <1>2 DEF HeapInv

\* What an evaluation can name resolves in its view.
LEMMA ValuesVisible ==
    ASSUME HeapInv, NEW x \in Values
    PROVE  x \in Refs /\ Visible(x)
<1>1. main \in Heaps /\ work \in Heaps
  BY DEF HeapInv, TypeOK
<1>2. CASE x = Imm
  BY <1>2 DEF Imm, Ref, Refs, Kinds, Visible, Resolves, Fits
<1>3. CASE x \in RefsInto("main", main)
  BY <1>1, <1>3 DEF RefsInto, Ref, Refs, Kinds, Visible, Resolves, Fits, Heaps
<1>4. CASE x \in RefsInto("work", work)
  BY <1>1, <1>4 DEF RefsInto, Ref, Refs, Kinds, Visible, Resolves, Fits, Heaps
<1> QED BY <1>2, <1>3, <1>4 DEF Values

\* A sequence of values is a sequence of references that resolve.
LEMMA SeqsVisible ==
    ASSUME HeapInv, NEW n \in Nat, NEW fields \in SeqsUpTo(Values, n)
    PROVE  fields \in Seq(Refs) /\ \A j \in DOMAIN fields : Visible(fields[j])
<1>1. PICK k \in 0..n : fields \in [1..k -> Values]
  BY DEF SeqsUpTo
<1>2. \A j \in 1..k : fields[j] \in Refs /\ Visible(fields[j])
  BY <1>1, ValuesVisible
<1>3. fields \in Seq(Refs)
  BY <1>1, <1>2
<1> QED BY <1>1, <1>2, <1>3

\* What resolves in a view still does when the Work heap has grown.
LEMMA VisibleLarger ==
    ASSUME UNCHANGED main, main \in Heaps, work \in Heaps, work' \in Heaps,
           Len(work.objects) <= Len(work'.objects),
           Len(work.texts) <= Len(work'.texts),
           Len(work.shapes) <= Len(work'.shapes)
    PROVE  \A x \in Refs : Visible(x) => Visible(x)'
BY DEF Visible, Resolves, Fits, Heaps, Refs

\* The parts of a heap and of an object.
LEMMA HeapParts ==
    /\ \A h \in Heaps : /\ h.objects \in Seq(Objects)
                        /\ h.texts \in Seq(Texts)
                        /\ h.shapes \in Seq(Seq(Refs))
    /\ \A object \in Objects : object.fields \in Seq(Refs)
BY DEF Heaps, Objects, ObjectKinds

LEMMA HeapLens ==
    \A h \in Heaps : /\ Len(h.objects) \in Nat
                     /\ Len(h.texts) \in Nat
                     /\ Len(h.shapes) \in Nat
<1>1. ASSUME NEW h \in Heaps
      PROVE  /\ Len(h.objects) \in Nat
             /\ Len(h.texts) \in Nat
             /\ Len(h.shapes) \in Nat
  BY HeapParts
<1> QED BY <1>1

\* One more object, or one object replaced.
LEMMA HeapWithObject ==
    ASSUME NEW h \in Heaps, NEW object \in Objects
    PROVE  /\ [h EXCEPT !.objects = Append(@, object)] \in Heaps
           /\ \A i \in DOMAIN h.objects : [h EXCEPT !.objects[i] = object] \in Heaps
<1>1. h.objects \in Seq(Objects) /\ Append(h.objects, object) \in Seq(Objects)
  BY HeapParts
<1>2. ASSUME NEW i \in DOMAIN h.objects
      PROVE  [h.objects EXCEPT ![i] = object] \in Seq(Objects)
  BY <1>1
<1> QED BY <1>1, <1>2 DEF Heaps

\* A new object whose fields resolve keeps the invariant.
LEMMA AddObjectKeeps ==
    ASSUME HeapInv, NEW object \in Objects, AddObject(object),
           \A j \in DOMAIN object.fields : Visible(object.fields[j])
    PROVE  HeapInv'
<1>1. /\ main \in Heaps /\ work \in Heaps /\ runs \in Nat
      /\ UNCHANGED <<main, roots, copying, runs, phase>> /\ phase = "run"
  BY DEF HeapInv, TypeOK, AddObject
<1>2. work' = [work EXCEPT !.objects = Append(@, object)]
  BY DEF AddObject
<1>3. /\ work' \in Heaps
      /\ work'.objects = Append(work.objects, object)
      /\ work'.texts = work.texts /\ work'.shapes = work.shapes
  <2>1. work' \in Heaps
    BY <1>1, <1>2, HeapWithObject
  <2> QED BY <1>1, <1>2, <2>1 DEF Heaps
<1>4. \A x \in Refs : Visible(x) => Visible(x)'
  BY <1>1, <1>3, VisibleLarger DEF Heaps
<1>5. WorkVisible'
  <2>1. ASSUME NEW i \in DOMAIN work'.objects, NEW j \in DOMAIN work'.objects[i].fields
        PROVE  /\ work'.objects[i].fields[j] \in Refs
               /\ Visible(work'.objects[i].fields[j])
    <3>1. CASE i \in DOMAIN work.objects
      <4>1. work'.objects[i] = work.objects[i]
        BY <1>1, <1>3, <3>1 DEF Heaps
      <4>2. work.objects[i] \in Objects
        BY <1>1, <3>1, HeapParts
      <4>3. work.objects[i].fields \in Seq(Refs) /\ j \in DOMAIN work.objects[i].fields
        BY <2>1, <4>1, <4>2, HeapParts
      <4> QED BY <3>1, <4>1, <4>3 DEF HeapInv, WorkVisible
    <3>2. CASE i = Len(work.objects) + 1
      <4>1. work'.objects[i] = object
        BY <1>1, <1>3, <3>2 DEF Heaps
      <4> QED BY <4>1, <2>1 DEF Objects, ObjectKinds
    <3> QED BY <1>1, <1>3, <2>1, <3>1, <3>2 DEF Heaps
  <2>2. ASSUME NEW i \in DOMAIN work'.shapes, NEW j \in DOMAIN work'.shapes[i]
        PROVE  /\ work'.shapes[i][j] \in Refs
               /\ Visible(work'.shapes[i][j])
    BY <1>1, <1>3, <2>2 DEF HeapInv, WorkVisible, Heaps
  <2> QED BY <1>4, <2>1, <2>2 DEF WorkVisible, Visible, Resolves
<1> QED BY <1>1, <1>3, <1>5, RunKeeps

\* So does giving an object its fields.
LEMMA SetObjectKeeps ==
    ASSUME HeapInv, NEW object \in Objects, NEW n \in DOMAIN work.objects,
           SetObject(n, object),
           \A j \in DOMAIN object.fields : Visible(object.fields[j])
    PROVE  HeapInv'
<1>1. /\ main \in Heaps /\ work \in Heaps /\ runs \in Nat
      /\ UNCHANGED <<main, roots, copying, runs, phase>> /\ phase = "run"
  BY DEF HeapInv, TypeOK, SetObject
<1>2. work' = [work EXCEPT !.objects[n] = object]
  BY DEF SetObject
<1>3. /\ work' \in Heaps
      /\ work'.objects = [work.objects EXCEPT ![n] = object]
      /\ work'.texts = work.texts /\ work'.shapes = work.shapes
  <2>1. work' \in Heaps
    BY <1>1, <1>2, HeapWithObject
  <2> QED BY <1>1, <1>2, <2>1 DEF Heaps
<1>4. \A x \in Refs : Visible(x) => Visible(x)'
  <2>1. Len(work'.objects) = Len(work.objects)
    BY <1>1, <1>3, HeapParts
  <2>2. Len(work.objects) \in Nat /\ Len(work.texts) \in Nat /\ Len(work.shapes) \in Nat
    BY <1>1, HeapParts
  <2> QED BY <1>1, <1>3, <2>1, <2>2, VisibleLarger
<1>5. WorkVisible'
  <2>1. ASSUME NEW i \in DOMAIN work'.objects, NEW j \in DOMAIN work'.objects[i].fields
        PROVE  /\ work'.objects[i].fields[j] \in Refs
               /\ Visible(work'.objects[i].fields[j])
    <3>0. i \in DOMAIN work.objects
      BY <1>1, <1>3, <2>1, HeapParts
    <3>1. CASE i # n
      <4>1. work'.objects[i] = work.objects[i]
        BY <1>3, <3>0, <3>1
      <4>2. work.objects[i] \in Objects
        BY <1>1, <3>0, HeapParts
      <4>3. work.objects[i].fields \in Seq(Refs) /\ j \in DOMAIN work.objects[i].fields
        BY <2>1, <4>1, <4>2, HeapParts
      <4> QED BY <3>0, <4>1, <4>3 DEF HeapInv, WorkVisible
    <3>2. CASE i = n
      <4>1. work'.objects[i] = object
        BY <1>3, <3>0, <3>2
      <4> QED BY <4>1, <2>1 DEF Objects, ObjectKinds
    <3> QED BY <3>1, <3>2
  <2>2. ASSUME NEW i \in DOMAIN work'.shapes, NEW j \in DOMAIN work'.shapes[i]
        PROVE  /\ work'.shapes[i][j] \in Refs
               /\ Visible(work'.shapes[i][j])
    BY <1>1, <1>3, <2>2 DEF HeapInv, WorkVisible, Heaps
  <2> QED BY <1>4, <2>1, <2>2 DEF WorkVisible, Visible, Resolves
<1> QED BY <1>1, <1>3, <1>5, RunKeeps

\* An empty Work heap is visible.
LEMMA EmptyWork ==
    ASSUME HeapInv, UNCHANGED <<main, roots, copying>>, work' = EmptyHeap,
           runs' \in Nat, phase' \in {"idle", "run"}
    PROVE  HeapInv'
<1>1. EmptyHeap \in Heaps
  BY DEF EmptyHeap, Heaps
<1>2. WorkVisible'
  BY DEF WorkVisible, EmptyHeap
<1> QED BY <1>1, <1>2, RunKeeps

\* Every step of an evaluation keeps the invariant.
LEMMA EvaluateKeeps == HeapInv /\ Evaluate => HeapInv'
<1> SUFFICES ASSUME HeapInv, Evaluate PROVE HeapInv'
  OBVIOUS
<1>0. /\ main \in Heaps /\ work \in Heaps /\ runs \in Nat
      /\ phase \in {"idle", "run", "copy"}
      /\ MaxFields \in Nat
  BY BoundsAssumption DEF HeapInv, TypeOK
<1>1. CASE StartRun
  BY <1>0, <1>1, EmptyWork DEF StartRun
<1>2. CASE Allocate
  <2>1. PICK k \in Allocated, fields \in SeqsUpTo(Values, MaxFields) :
            AddObject(Object(k, fields))
    BY <1>2 DEF Allocate
  <2>2. fields \in Seq(Refs) /\ \A j \in DOMAIN fields : Visible(fields[j])
    BY <1>0, SeqsVisible
  <2>3. Object(k, fields) \in Objects /\ Object(k, fields).fields = fields
    BY <2>2, BoundsAssumption DEF Object, Objects, ObjectKinds
  <2> QED BY <2>1, <2>2, <2>3, AddObjectKeeps
<1>3. CASE AllocateDict
  <2>0. PICK i \in DOMAIN work.shapes : \E values \in [1..Len(work.shapes[i]) -> Values] :
            AddObject(Object("data", <<Ref("shape", "work", i)>> \o values))
    BY <1>3 DEF AllocateDict
  <2>1. PICK values \in [1..Len(work.shapes[i]) -> Values] :
            AddObject(Object("data", <<Ref("shape", "work", i)>> \o values))
    BY <2>0
  <2> DEFINE s == Ref("shape", "work", i)
             fields == <<s>> \o values
  <2>2. Len(work.shapes[i]) \in Nat /\ i \in 1..Len(work.shapes) /\ work.shapes[i] \in Seq(Refs)
    BY <1>0, HeapParts
  <2>3. values \in SeqsUpTo(Values, Len(work.shapes[i]))
    BY <2>2 DEF SeqsUpTo
  <2>4. values \in Seq(Refs) /\ \A j \in DOMAIN values : Visible(values[j])
    BY <2>2, <2>3, SeqsVisible
  <2>5. s \in Refs /\ Visible(s)
    BY <2>2 DEF Ref, Refs, Kinds, Visible, Fits
  <2> HIDE DEF s
  <2>6. fields \in Seq(Refs) /\ \A j \in DOMAIN fields : Visible(fields[j])
    <3>1. fields \in Seq(Refs) /\ Len(fields) = 1 + Len(values)
      BY <2>4, <2>5
    <3>2. ASSUME NEW j \in DOMAIN fields PROVE Visible(fields[j])
      <4>1. CASE j = 1
        <5>1. fields[j] = s
          BY <2>4, <2>5, <4>1
        <5> QED BY <2>5, <5>1
      <4>2. CASE j # 1
        <5>1. j - 1 \in DOMAIN values /\ fields[j] = values[j - 1]
          BY <2>4, <2>5, <3>1, <3>2, <4>2
        <5> QED BY <2>4, <5>1
      <4> QED BY <4>1, <4>2
    <3> QED BY <3>1, <3>2
  <2> HIDE DEF fields
  <2>7. Object("data", fields) \in Objects /\ Object("data", fields).fields = fields
    BY <2>6 DEF Object, Objects, ObjectKinds
  <2>8. AddObject(Object("data", fields))
    BY <2>1 DEF fields, s
  <2> QED BY <2>6, <2>7, <2>8, AddObjectKeeps
<1>4. CASE Reserve
  <2>1. Reserved \in Objects /\ Reserved.fields = <<>>
    BY DEF Reserved, Object, Objects, ObjectKinds
  <2> QED BY <1>4, <2>1, AddObjectKeeps DEF Reserve
<1>5. CASE MakeUpLink
  <2> DEFINE link == Object("uplink", <<>>)
  <2>1. link \in Objects /\ link.fields = <<>>
    BY DEF Object, Objects, ObjectKinds
  <2>2. AddObject(link)
    BY <1>5 DEF MakeUpLink
  <2> HIDE DEF link
  <2> QED BY <2>1, <2>2, AddObjectKeeps
<1>6. CASE InternShape
  <2>1. PICK fields \in SeqsUpTo(TextIds, MaxFields) :
            work' = [work EXCEPT !.shapes = Append(@, fields)]
    BY <1>6 DEF InternShape
  <2>2. fields \in SeqsUpTo(Values, MaxFields)
    BY DEF SeqsUpTo, TextIds
  <2>3. fields \in Seq(Refs) /\ \A j \in DOMAIN fields : Visible(fields[j])
    BY <1>0, <2>2, SeqsVisible
  <2>4. /\ work.objects \in Seq(Objects) /\ work.texts \in Seq(Texts)
        /\ work.shapes \in Seq(Seq(Refs))
    BY <1>0, HeapParts
  <2>5. /\ work'.objects = work.objects /\ work'.texts = work.texts
        /\ work'.shapes = Append(work.shapes, fields)
        /\ work' \in Heaps
    <3>1. Append(work.shapes, fields) \in Seq(Seq(Refs))
      BY <2>3, <2>4
    <3> QED BY <1>0, <2>1, <3>1 DEF Heaps
  <2>6. UNCHANGED <<main, roots, copying, runs, phase>> /\ phase = "run"
    BY <1>6 DEF InternShape
  <2>7. \A x \in Refs : Visible(x) => Visible(x)'
    BY <1>0, <2>3, <2>4, <2>5, <2>6, VisibleLarger
  <2>8. WorkVisible'
    <3>1. ASSUME NEW i \in DOMAIN work'.objects, NEW j \in DOMAIN work'.objects[i].fields
          PROVE  /\ work'.objects[i].fields[j] \in Refs
                 /\ Visible(work'.objects[i].fields[j])
      <4>1. work.objects[i] \in Objects
        BY <2>4, <2>5, <3>1
      <4>2. work.objects[i].fields \in Seq(Refs)
        BY <4>1, HeapParts
      <4> QED BY <2>5, <3>1, <4>2 DEF HeapInv, WorkVisible
    <3>2. ASSUME NEW i \in DOMAIN work'.shapes, NEW j \in DOMAIN work'.shapes[i]
          PROVE  work'.shapes[i][j] \in Refs /\ Visible(work'.shapes[i][j])
      <4>1. CASE i \in DOMAIN work.shapes
        BY <2>4, <2>5, <3>2, <4>1 DEF HeapInv, WorkVisible
      <4>2. CASE i = Len(work.shapes) + 1
        BY <2>3, <2>4, <2>5, <3>2, <4>2
      <4> QED BY <2>3, <2>4, <2>5, <3>2, <4>1, <4>2
    <3> QED BY <2>7, <3>1, <3>2 DEF WorkVisible, Visible, Resolves
  <2> QED BY <1>0, <2>5, <2>6, <2>8, RunKeeps
<1>7. CASE Discard
  BY <1>0, <1>7, EmptyWork DEF Discard
<1>8. ASSUME NEW i \in DOMAIN work.objects, Initialize(i) PROVE HeapInv'
  <2>1. PICK fields \in SeqsUpTo(Values, MaxFields) : SetObject(i, Object("data", fields))
    BY <1>8 DEF Initialize
  <2>2. fields \in Seq(Refs) /\ \A j \in DOMAIN fields : Visible(fields[j])
    BY <1>0, SeqsVisible
  <2>3. Object("data", fields) \in Objects /\ Object("data", fields).fields = fields
    BY <2>2 DEF Object, Objects, ObjectKinds
  <2> QED BY <1>8, <2>1, <2>2, <2>3, SetObjectKeeps
<1>9. ASSUME NEW i \in DOMAIN work.objects, InitializeUpLink(i) PROVE HeapInv'
  <2>1. PICK v \in Values : SetObject(i, Object("uplink", <<v>>))
    BY <1>9 DEF InitializeUpLink
  <2>2. v \in Refs /\ Visible(v)
    BY ValuesVisible
  <2> DEFINE link == Object("uplink", <<v>>)
  <2>3. link \in Objects /\ link.fields = <<v>>
    BY <2>2 DEF Object, Objects, ObjectKinds
  <2>4. \A j \in DOMAIN link.fields : Visible(link.fields[j])
    BY <2>2, <2>3
  <2> HIDE DEF link
  <2>5. SetObject(i, link)
    BY <2>1 DEF link
  <2> QED BY <1>9, <2>3, <2>4, <2>5, SetObjectKeeps
<1>10. ASSUME NEW t \in Texts, InternText(t) PROVE HeapInv'
  <2>1. /\ UNCHANGED <<main, roots, copying, runs, phase>> /\ phase = "run"
        /\ work' = [work EXCEPT !.texts = Append(@, t)]
    BY <1>10 DEF InternText
  <2>2. /\ work.objects \in Seq(Objects) /\ work.texts \in Seq(Texts)
        /\ work.shapes \in Seq(Seq(Refs))
    BY <1>0, HeapParts
  <2>3. /\ work'.objects = work.objects /\ work'.shapes = work.shapes
        /\ work'.texts = Append(work.texts, t)
        /\ work' \in Heaps
    <3>1. Append(work.texts, t) \in Seq(Texts)
      BY <2>2
    <3> QED BY <1>0, <2>1, <3>1 DEF Heaps
  <2>4. \A x \in Refs : Visible(x) => Visible(x)'
    BY <1>0, <2>1, <2>2, <2>3, VisibleLarger
  <2>5. WorkVisible'
    <3>1. ASSUME NEW i \in DOMAIN work'.objects, NEW j \in DOMAIN work'.objects[i].fields
          PROVE  /\ work'.objects[i].fields[j] \in Refs
                 /\ Visible(work'.objects[i].fields[j])
      <4>1. work.objects[i] \in Objects
        BY <2>2, <2>3, <3>1
      <4>2. work.objects[i].fields \in Seq(Refs)
        BY <4>1, HeapParts
      <4> QED BY <2>3, <3>1, <4>2 DEF HeapInv, WorkVisible
    <3>2. ASSUME NEW i \in DOMAIN work'.shapes, NEW j \in DOMAIN work'.shapes[i]
          PROVE  work'.shapes[i][j] \in Refs /\ Visible(work'.shapes[i][j])
      BY <2>2, <2>3, <3>2 DEF HeapInv, WorkVisible
    <3> QED BY <2>4, <3>1, <3>2 DEF WorkVisible, Visible, Resolves
  <2> QED BY <1>0, <2>1, <2>3, <2>5, RunKeeps
<1> QED BY <1>1, <1>2, <1>3, <1>4, <1>5, <1>6, <1>7, <1>8, <1>9, <1>10 DEF Evaluate

----------------------------------------------------------------------------
(* The copy.                                                               *)

\* What an object or a shape of the Work heap is made of resolves.
LEMMA KnownFields ==
    ASSUME HeapInv, NEW x \in Known, x.at = "work", x.kind \in {"object", "shape"}
    PROVE  Fields(x) \in Seq(Known)
<1>1. work \in Heaps /\ x \in Refs /\ Visible(x)
  BY DEF HeapInv, TypeOK, Known
<1>2. CASE x.kind = "object"
  <2>1. x.slot \in DOMAIN work.objects
    BY <1>1, <1>2, HeapParts DEF Visible, Resolves, Fits, Refs
  <2>2. work.objects[x.slot].fields \in Seq(Refs)
    BY <1>1, <2>1, HeapParts
  <2>3. \A j \in DOMAIN work.objects[x.slot].fields : work.objects[x.slot].fields[j] \in Known
    BY <2>1, <2>2 DEF HeapInv, WorkVisible, Known
  <2> QED BY <1>2, <2>2, <2>3 DEF Fields
<1>3. CASE x.kind = "shape"
  <2>1. x.slot \in DOMAIN work.shapes
    BY <1>1, <1>3, HeapParts DEF Visible, Resolves, Fits, Refs
  <2>2. work.shapes[x.slot] \in Seq(Refs)
    BY <1>1, <2>1, HeapParts
  <2>3. \A j \in DOMAIN work.shapes[x.slot] : work.shapes[x.slot][j] \in Known
    BY <2>1, <2>2 DEF HeapInv, WorkVisible, Known
  <2> QED BY <1>3, <2>2, <2>3 DEF Fields
<1> QED BY <1>2, <1>3

\* Every frame copies values that resolve in the view.
LEMMA FieldsKnown ==
    ASSUME HeapInv, phase = "copy", NEW f \in GoodFrames
    PROVE  Fields(f.of) \in Seq(Known)
<1>1. CASE f.of = Imm
  BY <1>1 DEF HeapInv, Fields, Imm, Ref
<1>2. CASE f.of # Imm
  <2>1. f.of \in Known /\ f.of.at = "work" /\ f.of.kind \in {"object", "shape"}
    BY <1>2 DEF GoodFrames
  <2> QED BY <2>1, KnownFields
<1> QED BY <1>1, <1>2

\* The call under way, and the value it copies next.
LEMMA TopGood ==
    ASSUME HeapInv, phase = "copy"
    PROVE  /\ Len(path) \in Nat \ {0} /\ Len(path) \in DOMAIN path
           /\ path \in Seq(GoodFrames)
           /\ Top \in GoodFrames
           /\ Top.done \in Seq(Coming)
           /\ Fields(Top.of) \in Seq(Known)
           /\ Copying => Wanted \in Known /\ Len(Top.done) < Len(Fields(Top.of))
<1>1. /\ Len(path) \in Nat \ {0} /\ Len(path) \in DOMAIN path
      /\ path \in Seq(GoodFrames)
      /\ Top \in GoodFrames
  BY DEF HeapInv, FramesOK, Top
<1>2. Fields(Top.of) \in Seq(Known)
  BY <1>1, FieldsKnown
<1>3. Top.done \in Seq(Coming) /\ Len(Top.done) <= Len(Fields(Top.of))
  BY <1>1 DEF GoodFrames
<1>4. Copying => Wanted \in Known /\ Len(Top.done) < Len(Fields(Top.of))
  BY <1>2, <1>3 DEF Copying, Copied, Wanted
<1> QED BY <1>1, <1>2, <1>3, <1>4

\* References that were good stay good while the copy only adds to what is
\* pending and to what is forwarded.
LEMMA GoodGrows ==
    ASSUME HeapInv, phase = "copy", InCopy, pending' \in Heaps,
           Len(pending.objects) <= Len(pending'.objects),
           Len(pending.texts) <= Len(pending'.texts),
           Len(pending.shapes) <= Len(pending'.shapes),
           DOMAIN fwd \subseteq DOMAIN fwd'
    PROVE  /\ Coming \subseteq Coming'
           /\ Known' = Known
           /\ GoodFrames \subseteq GoodFrames'
<1>1. /\ main \in Heaps /\ pending \in Heaps
      /\ UNCHANGED <<main, work, roots, runs, phase, root>>
  BY DEF HeapInv, TypeOK, InCopy
<1>2. Coming \subseteq Coming'
  <2>1. /\ Len(main.objects) \in Nat /\ Len(main.texts) \in Nat /\ Len(main.shapes) \in Nat
        /\ Len(pending.objects) \in Nat /\ Len(pending.texts) \in Nat
        /\ Len(pending.shapes) \in Nat
        /\ Len(pending'.objects) \in Nat /\ Len(pending'.texts) \in Nat
        /\ Len(pending'.shapes) \in Nat
    BY <1>1, HeapLens
  <2> DEFINE o == Len(main.objects) + Len(pending.objects)
             t == Len(main.texts) + Len(pending.texts)
             n == Len(main.shapes) + Len(pending.shapes)
             o2 == Len(main.objects) + Len(pending'.objects)
             t2 == Len(main.texts) + Len(pending'.texts)
             n2 == Len(main.shapes) + Len(pending'.shapes)
  <2>3. /\ o \in Nat /\ t \in Nat /\ n \in Nat
        /\ o2 \in Nat /\ t2 \in Nat /\ n2 \in Nat
        /\ o <= o2 /\ t <= t2 /\ n <= n2
    BY <2>1, SumLarger
  <2>2. ASSUME NEW x \in Coming PROVE x \in Coming'
    <3>1. /\ x \in Refs /\ x.at = "main"
          /\ Fits(x, o, t, n)
      BY DEF Coming
    <3> HIDE DEF o, t, n, o2, t2, n2
    <3>2. Fits(x, o2, t2, n2)
      BY <2>3, <3>1, FitsLarger
    <3> QED BY <1>1, <3>1, <3>2 DEF Coming, Fits, o2, t2, n2
  <2> QED BY <2>2
<1>3. Known' = Known
  BY <1>1 DEF Known, Visible, Resolves, Fits
<1>4. ASSUME NEW f \in GoodFrames PROVE f \in GoodFrames'
  <2>1. f \in [of : Refs, done : Seq(Coming)]
    BY <1>4 DEF GoodFrames
  <2>2. f.done \in Seq(Coming')
    BY <1>2, <2>1
  <2>3. f \in [of : Refs, done : Seq(Coming')]
    BY <2>1, <2>2
  <2>4. Fields(f.of)' = Fields(f.of)
    BY <1>1 DEF Fields
  <2> QED BY <1>3, <1>4, <2>3, <2>4 DEF GoodFrames
<1> QED BY <1>2, <1>3, <1>4

\* A step of the copy has only its own variables to keep.
LEMMA CopyKeeps ==
    ASSUME HeapInv, phase = "copy", InCopy, pending' \in Heaps,
           FramesOK', ForwardingOK', PendingOK', DOMAIN fwd' \subseteq Refs
    PROVE  HeapInv'
<1>1. UNCHANGED <<main, work, roots, runs, phase, root>>
  BY DEF InCopy
<1>2. TypeOK'
  <2>1. path' \in Seq(Frames)
    <3>1. Coming' \subseteq Refs
      BY DEF Coming
    <3>2. ASSUME NEW f \in GoodFrames' PROVE f \in Frames
      <4>1. f \in [of : Refs, done : Seq(Coming')]
        BY <3>2 DEF GoodFrames
      <4>2. f.done \in Seq(Refs)
        BY <3>1, <4>1
      <4> QED BY <4>1, <4>2 DEF Frames
    <3> QED BY <3>2 DEF FramesOK
  <2>2. \A x \in DOMAIN fwd' : fwd'[x] \in Refs
    BY DEF ForwardingOK, Coming
  <2> QED BY <1>1, <2>1, <2>2 DEF HeapInv, TypeOK
<1>3. MainSelfContained' /\ WorkVisible'
  BY <1>1 DEF HeapInv, MainSelfContained, WorkVisible, Visible, Resolves
<1>4. root' \in Known'
  BY <1>1 DEF HeapInv, Known, Visible, Resolves
<1> QED BY <1>2, <1>3, <1>4 DEF HeapInv

\* Taking a copied value keeps the frames.
LEMMA TakeKeeps ==
    ASSUME HeapInv, phase = "copy", Copying, InCopy, NEW x \in Coming', Take(x),
           GoodFrames \subseteq GoodFrames', Coming \subseteq Coming'
    PROVE  FramesOK'
<1>1. /\ Len(path) \in Nat \ {0} /\ Len(path) \in DOMAIN path
      /\ path \in Seq(GoodFrames)
      /\ Top \in GoodFrames
      /\ Top.done \in Seq(Coming)
      /\ Len(Top.done) < Len(Fields(Top.of))
      /\ Fields(Top.of) \in Seq(Known)
  BY TopGood
<1>0. PICK f : f = [Top EXCEPT !.done = Append(@, x)]
  OBVIOUS
<1>2. path' = [path EXCEPT ![Len(path)] = f]
  BY <1>0, <1>1 DEF Take, Top
<1>3. f \in GoodFrames'
  <2>1. Top \in [of : Refs, done : Seq(Coming)] /\ Top \in GoodFrames'
    BY <1>1 DEF GoodFrames
  <2>2. /\ f.of = Top.of /\ f.done = Append(Top.done, x)
        /\ f \in [of : Refs, done : Seq(Coming')]
    <3>1. Append(Top.done, x) \in Seq(Coming')
      BY <1>1
    <3> QED BY <1>0, <2>1, <3>1
  <2>3. Fields(f.of)' = Fields(f.of)
    BY DEF Fields, InCopy
  <2>4. Len(f.done) <= Len(Fields(f.of)')
    <3>1. Fields(f.of) = Fields(Top.of)
      BY <2>2
    <3> QED BY <1>1, <2>2, <2>3, <3>1
  <2>5. /\ f.of # Imm => /\ f.of \in Known' /\ f.of.at = "work"
                         /\ f.of.kind \in {"object", "shape"}
        /\ f.of.kind = "object" => f.of \in DOMAIN fwd'
    BY <2>1, <2>2 DEF GoodFrames
  <2> QED BY <2>2, <2>4, <2>5 DEF GoodFrames
<1>4. f.of = Top.of
  BY <1>0, <1>1 DEF GoodFrames
<1>5. path' \in Seq(GoodFrames') /\ path' # <<>> /\ DOMAIN path' = DOMAIN path
  BY <1>1, <1>2, <1>3
<1>6. \A k \in DOMAIN path' : path'[k].of = path[k].of
  BY <1>1, <1>2, <1>4, <1>5 DEF Top
<1> QED BY <1>5, <1>6 DEF HeapInv, FramesOK

\* What is in Main resolves there whatever is pending.
LEMMA KnownComing ==
    ASSUME HeapInv, NEW x \in Known, x.at = "main"
    PROVE  x \in Coming
<1>1. main \in Heaps /\ pending \in Heaps
  BY DEF HeapInv, TypeOK
<1>2. x \in Refs /\ Fits(x, Len(main.objects), Len(main.texts), Len(main.shapes))
  BY DEF Known, Visible, Resolves
<1> DEFINE o == Len(main.objects) + Len(pending.objects)
           t == Len(main.texts) + Len(pending.texts)
           n == Len(main.shapes) + Len(pending.shapes)
<1>3. \A a, b \in Nat : a + b \in Nat /\ a <= a + b
  OBVIOUS
<1>4. /\ Len(main.objects) \in Nat /\ o \in Nat /\ Len(main.objects) <= o
      /\ Len(main.texts) \in Nat /\ t \in Nat /\ Len(main.texts) <= t
      /\ Len(main.shapes) \in Nat /\ n \in Nat /\ Len(main.shapes) <= n
  BY <1>1, <1>3, HeapLens
<1> HIDE DEF o, t, n
<1>5. Fits(x, o, t, n)
  BY <1>2, <1>4, FitsLarger
<1> QED BY <1>2, <1>5 DEF Coming, o, t, n

\* Pending objects and shapes stay good.
LEMMA PendingGrows ==
    ASSUME HeapInv, phase = "copy", Coming \subseteq Coming'
    PROVE  /\ pending.objects \in Seq([kind : ObjectKinds, fields : Seq(Coming')])
           /\ pending.shapes \in Seq(Seq(Coming'))
<1>1. /\ pending.objects \in Seq([kind : ObjectKinds, fields : Seq(Coming)])
      /\ pending.shapes \in Seq(Seq(Coming))
  BY DEF HeapInv, PendingOK
<1>2. Seq(Coming) \subseteq Seq(Coming')
  BY SeqLarger
<1>3. Seq(Seq(Coming)) \subseteq Seq(Seq(Coming'))
  BY <1>2, SeqLarger
<1> DEFINE old == [kind : ObjectKinds, fields : Seq(Coming)]
           new == [kind : ObjectKinds, fields : Seq(Coming')]
<1>4. old \subseteq new
  BY <1>2
<1> HIDE DEF old, new
<1>5. Seq(old) \subseteq Seq(new)
  BY <1>4, SeqLarger
<1> QED BY <1>1, <1>3, <1>5 DEF old, new

\* Forwarded handles stay good, and so is one more.
LEMMA ForwardingGrows ==
    ASSUME HeapInv, phase = "copy", InCopy, Coming \subseteq Coming'
    PROVE  /\ fwd' = fwd => ForwardingOK' /\ DOMAIN fwd' \subseteq Refs
           /\ \A x \in Refs, y \in Coming' :
                /\ fwd' = Extend(fwd, x, y)
                /\ y.kind = x.kind
                /\ x.kind = "object" => y.slot > Len(main.objects)
                => ForwardingOK' /\ DOMAIN fwd' \subseteq Refs /\ DOMAIN fwd \subseteq DOMAIN fwd'
<1>1. ForwardingOK /\ main' = main /\ DOMAIN fwd \subseteq Refs
  BY DEF HeapInv, TypeOK, InCopy
<1>2. fwd' = fwd => ForwardingOK' /\ DOMAIN fwd' \subseteq Refs
  BY <1>1 DEF ForwardingOK
<1>3. ASSUME NEW x \in Refs, NEW y \in Coming',
             fwd' = Extend(fwd, x, y), y.kind = x.kind,
             x.kind = "object" => y.slot > Len(main.objects)
      PROVE  ForwardingOK' /\ DOMAIN fwd' \subseteq Refs /\ DOMAIN fwd \subseteq DOMAIN fwd'
  BY <1>1, <1>3 DEF ForwardingOK, Extend
<1> QED BY <1>2, <1>3

\* What is in Main already, or forwarded already.
LEMMA CopyMainKeeps == HeapInv /\ CopyMain => HeapInv'
<1> SUFFICES ASSUME HeapInv, CopyMain PROVE HeapInv'
  OBVIOUS
<1>1. /\ phase = "copy" /\ Copying /\ InCopy /\ Take(Wanted)
      /\ Wanted.at = "main" /\ UNCHANGED <<pending, fwd>>
  BY DEF CopyMain, Copying
<1>2. pending \in Heaps /\ pending' \in Heaps
  BY <1>1 DEF HeapInv, TypeOK
<1>3. Coming \subseteq Coming' /\ GoodFrames \subseteq GoodFrames'
  BY <1>1, <1>2, HeapLens, GoodGrows
<1>4. Wanted \in Coming'
  BY <1>1, <1>3, TopGood, KnownComing
<1>5. FramesOK'
  BY <1>1, <1>3, <1>4, TakeKeeps
<1>6. ForwardingOK' /\ DOMAIN fwd' \subseteq Refs
  BY <1>1, <1>3, ForwardingGrows
<1>7. PendingOK'
  BY <1>1, <1>3, PendingGrows DEF HeapInv, PendingOK, InCopy
<1> QED BY <1>1, <1>2, <1>5, <1>6, <1>7, CopyKeeps

LEMMA CopyForwardedKeeps == HeapInv /\ CopyForwarded => HeapInv'
<1> SUFFICES ASSUME HeapInv, CopyForwarded PROVE HeapInv'
  OBVIOUS
<1>1. /\ phase = "copy" /\ Copying /\ InCopy /\ Take(fwd[Wanted])
      /\ Wanted \in DOMAIN fwd /\ UNCHANGED <<pending, fwd>>
  BY DEF CopyForwarded, Copying
<1>2. pending \in Heaps /\ pending' \in Heaps
  BY <1>1 DEF HeapInv, TypeOK
<1>3. Coming \subseteq Coming' /\ GoodFrames \subseteq GoodFrames'
  BY <1>1, <1>2, HeapLens, GoodGrows
<1>4. fwd[Wanted] \in Coming'
  BY <1>1, <1>3 DEF HeapInv, ForwardingOK
<1>5. FramesOK'
  BY <1>1, <1>3, <1>4, TakeKeeps
<1>6. ForwardingOK' /\ DOMAIN fwd' \subseteq Refs
  BY <1>1, <1>3, ForwardingGrows
<1>7. PendingOK'
  BY <1>1, <1>3, PendingGrows DEF HeapInv, PendingOK, InCopy
<1> QED BY <1>1, <1>2, <1>5, <1>6, <1>7, CopyKeeps

\* A text: the slot is where Main has it or will have it.
LEMMA CopyTextKeeps == HeapInv /\ CopyText => HeapInv'
<1> SUFFICES ASSUME HeapInv, CopyText PROVE HeapInv'
  OBVIOUS
<1>0. /\ phase = "copy" /\ Copying /\ InCopy
      /\ Wanted.at = "work" /\ Wanted.kind = "text"
  BY DEF CopyText, Copying
<1>1. PICK text, copied :
        /\ text = work.texts[Wanted.slot]
        /\ copied = Ref("text", "main", Slot(main.texts, pending.texts, text))
        /\ pending' = [pending EXCEPT !.texts = Including(main.texts, @, text)]
        /\ fwd' = Extend(fwd, Wanted, copied)
        /\ Take(copied)
  BY DEF CopyText
<1>2. main \in Heaps /\ work \in Heaps /\ pending \in Heaps
  BY DEF HeapInv, TypeOK
<1>3. Wanted \in Refs /\ Wanted.slot \in DOMAIN work.texts
  BY <1>0, <1>2, TopGood, HeapParts DEF Known, Visible, Resolves, Fits, Refs
<1>4. text \in Texts
  BY <1>1, <1>2, <1>3, HeapParts
<1> DEFINE new == Including(main.texts, pending.texts, text)
           slot == Slot(main.texts, pending.texts, text)
<1>5. /\ new \in Seq(Texts) /\ Fresh(main.texts, new)
      /\ Len(pending.texts) <= Len(new)
      /\ slot \in Nat \ {0} /\ slot <= Len(main.texts) + Len(new)
  <2>1. Fresh(main.texts, pending.texts)
    BY <1>0 DEF HeapInv, PendingOK
  <2> QED BY <1>2, <1>4, <2>1, IncludingFresh, HeapParts
<1> HIDE DEF new, slot
<1>6. /\ pending' \in Heaps
      /\ pending'.objects = pending.objects /\ pending'.shapes = pending.shapes
      /\ pending'.texts = new
  BY <1>1, <1>2, <1>5 DEF Heaps, new
<1>7. DOMAIN fwd \subseteq DOMAIN fwd'
  BY <1>1 DEF Extend
<1>8. Coming \subseteq Coming' /\ GoodFrames \subseteq GoodFrames'
  BY <1>0, <1>2, <1>5, <1>6, <1>7, HeapLens, GoodGrows
<1>9. copied \in Coming' /\ copied.kind = "text"
  <2>1. copied = Ref("text", "main", slot)
    BY <1>1 DEF slot
  <2>2. copied \in Refs /\ copied.kind = "text" /\ copied.at = "main" /\ copied.slot = slot
    BY <1>5, <2>1 DEF Ref, Refs, Kinds
  <2>3. slot <= Len(main'.texts) + Len(pending'.texts)
    BY <1>0, <1>5, <1>6 DEF InCopy
  <2> QED BY <2>2, <2>3 DEF Coming, Fits
<1>10. FramesOK'
  BY <1>0, <1>1, <1>8, <1>9, TakeKeeps
<1>11. ForwardingOK' /\ DOMAIN fwd' \subseteq Refs
  BY <1>0, <1>1, <1>3, <1>8, <1>9, ForwardingGrows
<1>12. PendingOK'
  <2>1. main' = main
    BY <1>0 DEF InCopy
  <2> QED BY <1>0, <1>5, <1>6, <1>8, <2>1, PendingGrows DEF HeapInv, PendingOK
<1> QED BY <1>0, <1>6, <1>10, <1>11, <1>12, CopyKeeps

\* A call adds a frame that has copied nothing yet.
LEMMA CallKeeps ==
    ASSUME HeapInv, phase = "copy", InCopy,
           NEW x \in Known, x.at = "work", x.kind \in {"object", "shape"},
           x.kind = "object" => x \in DOMAIN fwd', Call(x),
           GoodFrames \subseteq GoodFrames', Known' = Known
    PROVE  FramesOK'
<1>0. PICK f : f = [of |-> x, done |-> <<>>]
  OBVIOUS
<1>1. path \in Seq(GoodFrames) /\ Len(path) \in Nat \ {0}
  BY TopGood
<1>2. path' = Append(path, f)
  BY <1>0 DEF Call
<1>3. f \in GoodFrames'
  <2>1. f.of = x /\ f.done = <<>> /\ x \in Refs
    BY <1>0 DEF Known
  <2>2. f \in [of : Refs, done : Seq(Coming')]
    BY <1>0, <2>1
  <2>3. Fields(f.of)' = Fields(f.of)
    BY DEF Fields, InCopy
  <2>4. Len(f.done) <= Len(Fields(f.of)')
    <3>1. Fields(f.of) \in Seq(Known)
      BY <2>1, KnownFields
    <3> QED BY <2>1, <2>3, <3>1
  <2> QED BY <2>1, <2>2, <2>4 DEF GoodFrames
<1>4. path \in Seq(GoodFrames')
  BY <1>1, SeqLarger
<1>5. path' \in Seq(GoodFrames') /\ path' # <<>> /\ Len(path') = Len(path) + 1
  BY <1>2, <1>3, <1>4
<1>6. \A k \in DOMAIN path' : path'[k].of = Imm <=> k = 1
  <2>1. f.of # Imm
    BY <1>0 DEF Imm, Ref
  <2>2. \A k \in DOMAIN path : path[k].of = Imm <=> k = 1
    BY DEF HeapInv, FramesOK
  <2> QED BY <1>1, <1>2, <1>4, <1>5, <2>1, <2>2
<1> QED BY <1>5, <1>6 DEF FramesOK

\* A return of copy_object or copy_shape leaves its caller on the stack.
LEMMA ReturnKeeps ==
    ASSUME HeapInv, phase = "copy", Return, Top.of # Imm,
           GoodFrames \subseteq GoodFrames'
    PROVE  FramesOK'
<1>1. /\ path \in Seq(GoodFrames) /\ Len(path) \in Nat \ {0}
      /\ \A k \in DOMAIN path : path[k].of = Imm <=> k = 1
  BY TopGood DEF HeapInv, FramesOK
<1>2. Len(path) > 1
  BY <1>1 DEF Top
<1>3. path' = SubSeq(path, 1, Len(path) - 1)
  BY DEF Return
<1>4. path \in Seq(GoodFrames')
  BY <1>1, SeqLarger
<1>5. /\ path' \in Seq(GoodFrames') /\ Len(path') = Len(path) - 1
      /\ \A k \in DOMAIN path' : k \in DOMAIN path /\ path'[k] = path[k]
  BY <1>2, <1>3, <1>4
<1>6. path' # <<>>
  BY <1>1, <1>2, <1>5
<1> QED BY <1>1, <1>5, <1>6 DEF FramesOK

LEMMA EnterObjectKeeps == HeapInv /\ EnterObject => HeapInv'
<1> SUFFICES ASSUME HeapInv, EnterObject PROVE HeapInv'
  OBVIOUS
<1>0. /\ phase = "copy" /\ Copying /\ InCopy /\ Call(Wanted)
      /\ Wanted.at = "work" /\ Wanted.kind = "object"
      /\ pending' = [pending EXCEPT !.objects = Append(@, Reserved)]
  BY DEF EnterObject, Copying
<1>1. PICK y : /\ y = Ref("object", "main", Len(main.objects) + Len(pending.objects) + 1)
               /\ fwd' = Extend(fwd, Wanted, y)
  BY DEF EnterObject
<1>2. main \in Heaps /\ pending \in Heaps /\ main' = main
  BY <1>0 DEF HeapInv, TypeOK, InCopy
<1>3. Wanted \in Known /\ Wanted \in Refs
  BY <1>0, TopGood DEF Known
<1>4. Reserved \in Objects /\ Reserved \in [kind : ObjectKinds, fields : Seq(Coming')]
  BY DEF Reserved, Object, Objects, ObjectKinds
<1>5. /\ pending' \in Heaps
      /\ pending'.objects = Append(pending.objects, Reserved)
      /\ pending'.shapes = pending.shapes /\ pending'.texts = pending.texts
  <2>1. pending' \in Heaps
    BY <1>0, <1>2, <1>4, HeapWithObject
  <2> QED BY <1>0, <1>2, <2>1 DEF Heaps
<1>6. Len(pending'.objects) = Len(pending.objects) + 1
  BY <1>2, <1>5, HeapParts
<1>7. DOMAIN fwd \subseteq DOMAIN fwd' /\ Wanted \in DOMAIN fwd'
  BY <1>1 DEF Extend
<1>8. Coming \subseteq Coming' /\ GoodFrames \subseteq GoodFrames' /\ Known' = Known
  BY <1>0, <1>2, <1>5, <1>6, <1>7, HeapLens, GoodGrows
<1>9. y \in Coming' /\ y.kind = "object" /\ y.slot > Len(main.objects)
  <2>1. PICK n \in Nat, m \in Nat : n = Len(main.objects) /\ m = Len(pending.objects)
    BY <1>2, HeapLens
  <2> PICK slot : slot = n + m + 1
    OBVIOUS
  <2>2. slot \in Nat \ {0} /\ slot <= n + (m + 1) /\ slot > n
    OBVIOUS
  <2>3. y = Ref("object", "main", slot)
    BY <1>1, <2>1
  <2>4. y \in Refs /\ y.kind = "object" /\ y.at = "main" /\ y.slot = slot
    BY <2>2, <2>3 DEF Ref, Refs, Kinds
  <2>5. Len(main'.objects) = n /\ Len(pending'.objects) = m + 1
    BY <1>2, <1>6, <2>1
  <2>6. y.slot <= Len(main'.objects) + Len(pending'.objects)
    BY <2>2, <2>4, <2>5
  <2> QED BY <2>1, <2>2, <2>4, <2>6 DEF Coming, Fits
<1>10. FramesOK'
  BY <1>0, <1>3, <1>7, <1>8, CallKeeps
<1>11. ForwardingOK' /\ DOMAIN fwd' \subseteq Refs
  BY <1>0, <1>1, <1>3, <1>8, <1>9, ForwardingGrows
<1>12. PendingOK'
  <2>1. pending'.objects \in Seq([kind : ObjectKinds, fields : Seq(Coming')])
    BY <1>0, <1>4, <1>5, <1>8, PendingGrows
  <2> QED BY <1>0, <1>2, <1>5, <1>8, <2>1, PendingGrows DEF HeapInv, PendingOK
<1> QED BY <1>0, <1>5, <1>10, <1>11, <1>12, CopyKeeps

LEMMA EnterShapeKeeps == HeapInv /\ EnterShape => HeapInv'
<1> SUFFICES ASSUME HeapInv, EnterShape PROVE HeapInv'
  OBVIOUS
<1>1. /\ phase = "copy" /\ Copying /\ InCopy /\ Call(Wanted)
      /\ Wanted.at = "work" /\ Wanted.kind = "shape" /\ UNCHANGED <<pending, fwd>>
  BY DEF EnterShape, Copying
<1>2. pending \in Heaps /\ pending' \in Heaps
  BY <1>1 DEF HeapInv, TypeOK
<1>3. Coming \subseteq Coming' /\ GoodFrames \subseteq GoodFrames' /\ Known' = Known
  BY <1>1, <1>2, HeapLens, GoodGrows
<1>4. Wanted \in Known
  BY <1>1, TopGood
<1>5. FramesOK'
  BY <1>1, <1>3, <1>4, CallKeeps
<1>6. ForwardingOK' /\ DOMAIN fwd' \subseteq Refs
  BY <1>1, <1>3, ForwardingGrows
<1>7. PendingOK'
  BY <1>1, <1>3, PendingGrows DEF HeapInv, PendingOK, InCopy
<1> QED BY <1>1, <1>2, <1>5, <1>6, <1>7, CopyKeeps

\* The object goes into the slot taken for it.
LEMMA FillObjectKeeps == HeapInv /\ FillObject => HeapInv'
<1> SUFFICES ASSUME HeapInv, FillObject PROVE HeapInv'
  OBVIOUS
<1>0. /\ phase = "copy" /\ Top.of.kind = "object" /\ Return /\ InCopy /\ UNCHANGED fwd
  BY DEF FillObject
<1> PICK n : n = fwd[Top.of].slot - Len(main.objects)
  OBVIOUS
<1> PICK object : object = Object(work.objects[Top.of.slot].kind, Top.done)
  OBVIOUS
<1>1. pending' = [pending EXCEPT !.objects[n] = object]
  BY DEF FillObject
<1>2. main \in Heaps /\ work \in Heaps /\ pending \in Heaps /\ main' = main
  BY <1>0 DEF HeapInv, TypeOK, InCopy
<1>3. /\ Top.of \in Refs /\ Top.of \in Known /\ Top.of # Imm /\ Top.of.at = "work"
      /\ Top.of \in DOMAIN fwd /\ Top.done \in Seq(Coming)
  BY <1>0, TopGood DEF GoodFrames, Imm, Ref
<1>4. n \in DOMAIN pending.objects
  <2>1. /\ fwd[Top.of] \in Coming /\ fwd[Top.of].kind = "object"
        /\ fwd[Top.of].slot > Len(main.objects)
    BY <1>0, <1>3 DEF HeapInv, ForwardingOK
  <2>2. PICK a \in Nat, m \in Nat : a = Len(main.objects) /\ m = Len(pending.objects)
    BY <1>2, HeapLens
  <2> PICK slot : slot = fwd[Top.of].slot
    OBVIOUS
  <2>3. slot \in Nat /\ slot > a /\ slot <= a + m
    BY <2>1, <2>2 DEF Coming, Fits, Refs
  <2>4. slot - a \in 1..m
    <3>1. \A i, j, k \in Nat : k > i /\ k <= i + j => k - i \in 1..j
      OBVIOUS
    <3> QED BY <2>2, <2>3, <3>1
  <2>5. n = slot - a
    BY <2>2
  <2> QED BY <1>2, <2>2, <2>4, <2>5, HeapParts
<1>5. work.objects[Top.of.slot].kind \in ObjectKinds
  <2>1. Top.of.slot \in DOMAIN work.objects
    BY <1>0, <1>2, <1>3, HeapParts DEF Known, Visible, Resolves, Fits, Refs
  <2>2. work.objects[Top.of.slot] \in Objects
    BY <1>2, <2>1, HeapParts
  <2> QED BY <2>2 DEF Objects
<1>6. object \in Objects /\ object \in [kind : ObjectKinds, fields : Seq(Coming)]
  <2>1. Top.done \in Seq(Refs)
    <3>1. Coming \subseteq Refs
      BY DEF Coming
    <3> QED BY <1>3, <3>1, SeqLarger
  <2> QED BY <1>3, <1>5, <2>1 DEF Object, Objects
<1>7. /\ pending' \in Heaps
      /\ pending'.objects = [pending.objects EXCEPT ![n] = object]
      /\ pending'.texts = pending.texts /\ pending'.shapes = pending.shapes
  <2>1. pending' \in Heaps
    BY <1>1, <1>2, <1>4, <1>6, HeapWithObject
  <2> QED BY <1>1, <1>2, <2>1 DEF Heaps
<1>8. Len(pending'.objects) = Len(pending.objects)
  BY <1>2, <1>7, HeapParts
<1>9. Coming \subseteq Coming' /\ GoodFrames \subseteq GoodFrames'
  BY <1>0, <1>2, <1>7, <1>8, HeapLens, GoodGrows
<1>10. FramesOK'
  BY <1>0, <1>3, <1>9, ReturnKeeps
<1>11. ForwardingOK' /\ DOMAIN fwd' \subseteq Refs
  BY <1>0, <1>9, ForwardingGrows
<1>12. PendingOK'
  <2>1. object \in [kind : ObjectKinds, fields : Seq(Coming')]
    BY <1>6, <1>9, SeqLarger
  <2>2. pending'.objects \in Seq([kind : ObjectKinds, fields : Seq(Coming')])
    BY <1>0, <1>4, <1>7, <1>9, <2>1, PendingGrows
  <2> QED BY <1>0, <1>2, <1>7, <1>9, <2>2, PendingGrows DEF HeapInv, PendingOK
<1> QED BY <1>0, <1>7, <1>10, <1>11, <1>12, CopyKeeps

\* The shape is interned, in Main or among the pending ones.
LEMMA FillShapeKeeps == HeapInv /\ FillShape => HeapInv'
<1> SUFFICES ASSUME HeapInv, FillShape PROVE HeapInv'
  OBVIOUS
<1>0. /\ phase = "copy" /\ Top.of.kind = "shape" /\ Return /\ InCopy
      /\ pending' = [pending EXCEPT !.shapes = Including(main.shapes, @, Top.done)]
  BY DEF FillShape
<1> DEFINE new == Including(main.shapes, pending.shapes, Top.done)
<1> PICK slot : slot = Slot(main.shapes, pending.shapes, Top.done)
  OBVIOUS
<1> PICK y : y = Ref("shape", "main", slot)
  OBVIOUS
<1>1. fwd' = Extend(fwd, Top.of, y)
  BY DEF FillShape
<1>2. main \in Heaps /\ pending \in Heaps /\ main' = main
  BY <1>0 DEF HeapInv, TypeOK, InCopy
<1>3. /\ Top.of \in Refs /\ Top.of # Imm /\ Top.done \in Seq(Coming)
  BY <1>0, TopGood DEF GoodFrames, Imm, Ref
<1>4. Top.done \in Seq(Refs)
  <2>1. Coming \subseteq Refs
    BY DEF Coming
  <2> QED BY <1>3, <2>1, SeqLarger
<1>5. /\ new \in Seq(Seq(Refs)) /\ Fresh(main.shapes, new)
      /\ Len(pending.shapes) <= Len(new)
      /\ slot \in Nat \ {0} /\ slot <= Len(main.shapes) + Len(new)
  <2>1. Fresh(main.shapes, pending.shapes)
    BY <1>0 DEF HeapInv, PendingOK
  <2> QED BY <1>2, <1>4, <2>1, IncludingFresh, HeapParts
<1>6. /\ pending' \in Heaps
      /\ pending'.objects = pending.objects /\ pending'.texts = pending.texts
      /\ pending'.shapes = new
  BY <1>0, <1>2, <1>5 DEF Heaps
<1>7. DOMAIN fwd \subseteq DOMAIN fwd'
  BY <1>1 DEF Extend
<1>8. Coming \subseteq Coming' /\ GoodFrames \subseteq GoodFrames'
  BY <1>0, <1>2, <1>5, <1>6, <1>7, HeapLens, GoodGrows
<1>9. y \in Coming' /\ y.kind = "shape"
  <2>1. y \in Refs /\ y.kind = "shape" /\ y.at = "main" /\ y.slot = slot
    BY <1>5 DEF Ref, Refs, Kinds
  <2>2. slot <= Len(main'.shapes) + Len(pending'.shapes)
    BY <1>2, <1>5, <1>6
  <2> QED BY <2>1, <2>2 DEF Coming, Fits
<1>10. FramesOK'
  BY <1>0, <1>3, <1>8, ReturnKeeps
<1>11. ForwardingOK' /\ DOMAIN fwd' \subseteq Refs
  BY <1>0, <1>1, <1>3, <1>8, <1>9, ForwardingGrows
<1>12. PendingOK'
  <2>1. pending'.shapes \in Seq(Seq(Coming'))
    <3>1. pending.shapes \in Seq(Seq(Coming'))
      BY <1>0, <1>8, PendingGrows
    <3>2. Top.done \in Seq(Coming')
      BY <1>3, <1>8, SeqLarger
    <3>3. Append(pending.shapes, Top.done) \in Seq(Seq(Coming'))
      BY <3>1, <3>2
    <3> QED BY <1>6, <3>1, <3>3 DEF Including
  <2> QED BY <1>0, <1>2, <1>5, <1>6, <1>8, <2>1, PendingGrows DEF HeapInv, PendingOK
<1> QED BY <1>0, <1>6, <1>10, <1>11, <1>12, CopyKeeps

\* What a commit leaves: Main with all that was pending at its end.
LEMMA CommitAppends ==
    ASSUME HeapInv, Commit
    PROVE  /\ main' \in Heaps
           /\ main'.objects = main.objects \o pending.objects
           /\ main'.texts = main.texts \o pending.texts
           /\ main'.shapes = main.shapes \o pending.shapes
           /\ roots' = Append(roots, Top.done[1])
           /\ Top.done[1] \in Coming
<1>1. phase = "copy" /\ CopyDone /\ Len(path) = 1 /\ Copied
  BY DEF Commit, CopyDone
<1>2. /\ main.objects \in Seq(Objects) /\ pending.objects \in Seq(Objects)
      /\ main.texts \in Seq(Texts) /\ pending.texts \in Seq(Texts)
      /\ main.shapes \in Seq(Seq(Refs)) /\ pending.shapes \in Seq(Seq(Refs))
  BY HeapParts DEF HeapInv, TypeOK
<1>3. Fresh(main.texts, pending.texts) /\ Fresh(main.shapes, pending.shapes)
  BY <1>1 DEF HeapInv, PendingOK
<1>4. /\ WithNew(main.texts, pending.texts) = main.texts \o pending.texts
      /\ WithNew(main.shapes, pending.shapes) = main.shapes \o pending.shapes
  BY <1>2, <1>3, WithNewAppends
<1>5. /\ main.objects \o pending.objects \in Seq(Objects)
      /\ main.texts \o pending.texts \in Seq(Texts)
      /\ main.shapes \o pending.shapes \in Seq(Seq(Refs))
  BY <1>2
<1>6. Top.done \in Seq(Coming) /\ Len(Top.done) = 1
  <2>1. Top.of = Imm
    BY <1>1 DEF HeapInv, FramesOK, Top
  <2>2. Fields(Top.of) = <<root>>
    BY <2>1 DEF Fields, Imm, Ref
  <2> QED BY <1>1, <2>2, TopGood DEF Copied
<1>7. main' = [objects |-> main.objects \o pending.objects,
               texts   |-> main.texts \o pending.texts,
               shapes  |-> main.shapes \o pending.shapes]
  BY <1>4 DEF Commit
<1>8. main' \in Heaps
  BY <1>5, <1>7 DEF Heaps
<1>9. roots' = Append(roots, Top.done[1])
  BY DEF Commit
<1>10. Top.done[1] \in Coming
  BY <1>6
<1> QED BY <1>7, <1>8, <1>9, <1>10

\* What was going to resolve in Main does once the commit has appended it.
LEMMA ComingResolves ==
    ASSUME HeapInv, Commit, NEW x \in Refs
    PROVE  x \in Coming \/ Resolves(main, x) => Resolves(main, x)'
<1>1. main \in Heaps /\ pending \in Heaps
  BY DEF HeapInv, TypeOK
<1>2. /\ main'.objects = main.objects \o pending.objects
      /\ main'.texts = main.texts \o pending.texts
      /\ main'.shapes = main.shapes \o pending.shapes
  BY CommitAppends
<1>3. /\ Len(main'.objects) = Len(main.objects) + Len(pending.objects)
      /\ Len(main'.texts) = Len(main.texts) + Len(pending.texts)
      /\ Len(main'.shapes) = Len(main.shapes) + Len(pending.shapes)
  BY <1>1, <1>2, HeapParts
<1>4. CASE x \in Coming
  BY <1>3, <1>4 DEF Coming, Resolves
<1>5. CASE Resolves(main, x)
  <2>1. x \in Known /\ x.at = "main"
    BY <1>5 DEF Known, Visible, Resolves
  <2>2. x \in Coming
    BY <2>1, KnownComing
  <2> QED BY <1>4, <2>2
<1> QED BY <1>4, <1>5

LEMMA CommitKeeps == HeapInv /\ Commit => HeapInv'
<1> SUFFICES ASSUME HeapInv, Commit PROVE HeapInv'
  OBVIOUS
<1>0. /\ main' \in Heaps
      /\ main'.objects = main.objects \o pending.objects
      /\ main'.shapes = main.shapes \o pending.shapes
      /\ roots' = Append(roots, Top.done[1])
      /\ Top.done[1] \in Coming /\ Top.done[1] \in Refs
  BY CommitAppends DEF Coming
<1>1. /\ main.objects \in Seq(Objects) /\ pending.objects \in Seq(Objects)
      /\ main.shapes \in Seq(Seq(Refs)) /\ pending.shapes \in Seq(Seq(Refs))
      /\ roots \in Seq(Refs)
  BY HeapParts DEF HeapInv, TypeOK
<1>2. /\ pending.objects \in Seq([kind : ObjectKinds, fields : Seq(Coming)])
      /\ pending.shapes \in Seq(Seq(Coming))
      /\ Valid /\ MainSelfContained
  BY DEF HeapInv, Commit, CopyDone, PendingOK
<1>3. Coming \subseteq Refs
  BY DEF Coming
<1>4. ASSUME NEW i \in DOMAIN main'.objects
      PROVE  /\ Initialized(main'.objects[i])
             /\ \A j \in DOMAIN main'.objects[i].fields :
                   /\ main'.objects[i].fields[j] \in Refs
                   /\ \/ main'.objects[i].fields[j] \in Coming
                      \/ Resolves(main, main'.objects[i].fields[j])
  <2>0. main'.objects[i] \in Elements(main.objects) \cup Elements(pending.objects)
    <3>1. Elements(main'.objects) \subseteq Elements(main.objects) \cup Elements(pending.objects)
      BY <1>0, <1>1, ConcatElements
    <3>2. main'.objects[i] \in Elements(main'.objects)
      BY <1>4 DEF Elements
    <3> QED BY <3>1, <3>2
  <2>1. CASE main'.objects[i] \in Elements(main.objects)
    <3>1. PICK k \in DOMAIN main.objects : main'.objects[i] = main.objects[k]
      BY <2>1 DEF Elements
    <3>2. main.objects[k].fields \in Seq(Refs)
      BY <1>1, <3>1, HeapParts, SeqElement
    <3> QED BY <1>2, <3>1, <3>2 DEF MainSelfContained
  <2>2. CASE main'.objects[i] \in Elements(pending.objects)
    <3>1. PICK k \in DOMAIN pending.objects : main'.objects[i] = pending.objects[k]
      BY <2>2 DEF Elements
    <3>2. pending.objects[k].fields \in Seq(Coming)
      <4>1. pending.objects[k] \in [kind : ObjectKinds, fields : Seq(Coming)]
        BY <1>2, <3>1, SeqElement
      <4> QED BY <4>1
    <3> QED BY <1>2, <1>3, <3>1, <3>2 DEF Valid, Initialized
  <2> QED BY <2>0, <2>1, <2>2
<1>5. ASSUME NEW i \in DOMAIN main'.shapes, NEW j \in DOMAIN main'.shapes[i]
      PROVE  /\ main'.shapes[i][j] \in Refs
             /\ \/ main'.shapes[i][j] \in Coming
                \/ Resolves(main, main'.shapes[i][j])
  <2>0. main'.shapes[i] \in Elements(main.shapes) \cup Elements(pending.shapes)
    <3>1. Elements(main'.shapes) \subseteq Elements(main.shapes) \cup Elements(pending.shapes)
      BY <1>0, <1>1, ConcatElements
    <3>2. main'.shapes[i] \in Elements(main'.shapes)
      BY <1>5 DEF Elements
    <3> QED BY <3>1, <3>2
  <2>1. CASE main'.shapes[i] \in Elements(main.shapes)
    <3>1. PICK k \in DOMAIN main.shapes : main'.shapes[i] = main.shapes[k]
      BY <2>1 DEF Elements
    <3>2. main.shapes[k] \in Seq(Refs)
      BY <1>1, <3>1, SeqElement
    <3> QED BY <1>2, <1>5, <3>1, <3>2 DEF MainSelfContained
  <2>2. CASE main'.shapes[i] \in Elements(pending.shapes)
    <3>1. PICK k \in DOMAIN pending.shapes : main'.shapes[i] = pending.shapes[k]
      BY <2>2 DEF Elements
    <3>2. pending.shapes[k] \in Seq(Coming)
      BY <1>2, <3>1
    <3> QED BY <1>3, <1>5, <3>1, <3>2
  <2> QED BY <2>0, <2>1, <2>2
<1>6. ASSUME NEW i \in DOMAIN roots'
      PROVE  roots'[i] \in Refs /\ (roots'[i] \in Coming \/ Resolves(main, roots'[i]))
  BY <1>0, <1>1, <1>2 DEF MainSelfContained
<1>7. \A x \in Refs : x \in Coming \/ Resolves(main, x) => Resolves(main, x)'
  BY ComingResolves
<1>8. MainSelfContained'
  <2>1. \A x \in Refs : x \in Coming \/ Resolves(main, x) =>
            x.at = "main" /\ Fits(x, Len(main'.objects), Len(main'.texts), Len(main'.shapes))
    BY <1>7 DEF Resolves
  <2> QED BY <1>4, <1>5, <1>6, <2>1 DEF MainSelfContained, Resolves, Initialized, Foreign
<1>9. TypeOK' /\ phase' = "idle"
  <2>1. roots' \in Seq(Refs)
    BY <1>0, <1>1
  <2>2. EmptyHeap \in Heaps /\ Imm \in Refs
    BY DEF EmptyHeap, Heaps, Imm, Ref, Refs, Kinds
  <2> QED BY <1>0, <2>1, <2>2
          DEF HeapInv, TypeOK, Commit, EndRun, NothingForwarded
<1>10. WorkVisible'
  BY DEF WorkVisible, Commit, EndRun, EmptyHeap
<1> QED BY <1>8, <1>9, <1>10 DEF HeapInv

\* A publication that is refused leaves Main as it was.
LEMMA FailKeeps == HeapInv /\ Fail => HeapInv'
<1> SUFFICES ASSUME HeapInv, Fail PROVE HeapInv'
  OBVIOUS
<1>1. UNCHANGED <<main, roots>> /\ EndRun
  BY DEF Fail
<1>2. TypeOK' /\ phase' = "idle"
  <2>1. EmptyHeap \in Heaps /\ Imm \in Refs
    BY DEF EmptyHeap, Heaps, Imm, Ref, Refs, Kinds
  <2> QED BY <1>1, <2>1 DEF HeapInv, TypeOK, EndRun, NothingForwarded
<1>3. MainSelfContained'
  BY <1>1 DEF HeapInv, MainSelfContained, Resolves
<1>4. WorkVisible'
  BY <1>1 DEF WorkVisible, EndRun, EmptyHeap
<1> QED BY <1>2, <1>3, <1>4 DEF HeapInv

\* The copy starts with one frame, for the root.
LEMMA StartCopyKeeps == HeapInv /\ StartCopy => HeapInv'
<1> SUFFICES ASSUME HeapInv, StartCopy PROVE HeapInv'
  OBVIOUS
<1>1. PICK v \in Values : /\ root' = v
                          /\ path' = <<[of |-> Imm, done |-> <<>>]>>
  BY DEF StartCopy
<1>2. /\ UNCHANGED <<main, work, roots, runs>> /\ phase' = "copy"
      /\ pending' = EmptyHeap /\ fwd' = NothingForwarded
  BY DEF StartCopy
<1>3. v \in Refs /\ Visible(v)
  BY ValuesVisible
<1>4. /\ EmptyHeap \in Heaps /\ Imm \in Refs
      /\ EmptyHeap.objects = <<>> /\ EmptyHeap.texts = <<>> /\ EmptyHeap.shapes = <<>>
  BY DEF EmptyHeap, Heaps, Imm, Ref, Refs, Kinds
<1> PICK f : f = [of |-> Imm, done |-> <<>>]
  OBVIOUS
<1>5. f \in Frames /\ f.of = Imm /\ f.done = <<>>
  BY <1>4 DEF Frames
<1>6. TypeOK'
  BY <1>1, <1>2, <1>3, <1>4, <1>5 DEF HeapInv, TypeOK, NothingForwarded
<1>7. MainSelfContained' /\ WorkVisible'
  BY <1>2 DEF HeapInv, MainSelfContained, WorkVisible, Visible, Resolves
<1>8. root' \in Known'
  BY <1>1, <1>2, <1>3 DEF Known, Visible, Resolves
<1>9. FramesOK'
  <2>1. f \in [of : Refs, done : Seq(Coming')]
    BY <1>4
  <2>2. Fields(f.of)' = <<root'>>
    BY <1>5 DEF Fields, Imm, Ref
  <2>3. f \in GoodFrames'
    BY <1>5, <2>1, <2>2 DEF GoodFrames, Imm, Ref
  <2>4. path' = <<f>>
    BY <1>1
  <2> QED BY <1>5, <2>3, <2>4 DEF FramesOK
<1>10. ForwardingOK'
  BY <1>2 DEF ForwardingOK, NothingForwarded
<1>11. PendingOK'
  BY <1>2, <1>4 DEF PendingOK, Fresh, Injective
<1> QED BY <1>6, <1>7, <1>8, <1>9, <1>10, <1>11 DEF HeapInv

\* The invariant does not look at anything outside the variables.
LEMMA StutterKeeps == HeapInv /\ UNCHANGED vars => HeapInv'
<1> SUFFICES ASSUME HeapInv, UNCHANGED vars PROVE HeapInv'
  OBVIOUS
<1>1. UNCHANGED <<main, work, roots, runs, phase, root, pending, fwd, path>>
  BY DEF vars
<1>2. TypeOK' /\ MainSelfContained' /\ WorkVisible'
  BY <1>1 DEF HeapInv, TypeOK, MainSelfContained, WorkVisible, Visible, Resolves
<1>3. CASE phase = "copy"
  <2>1. Known' = Known /\ Coming' = Coming
    BY <1>1 DEF Known, Visible, Resolves, Coming
  <2>2. GoodFrames' = GoodFrames
    BY <1>1, <2>1 DEF GoodFrames, Fields
  <2> QED BY <1>1, <1>2, <1>3, <2>1, <2>2 DEF HeapInv, FramesOK, ForwardingOK, PendingOK
<1>4. CASE phase # "copy"
  BY <1>1, <1>2, <1>4 DEF HeapInv
<1> QED BY <1>3, <1>4

LEMMA NextKeeps == HeapInv /\ [Next]_vars => HeapInv'
<1> SUFFICES ASSUME HeapInv, [Next]_vars PROVE HeapInv'
  OBVIOUS
<1>1. CASE Evaluate
  BY <1>1, EvaluateKeeps
<1>2. CASE StartCopy
  BY <1>2, StartCopyKeeps
<1>3. CASE Publish
  BY <1>3, CopyMainKeeps, CopyForwardedKeeps, CopyTextKeeps, EnterObjectKeeps,
     FillObjectKeeps, EnterShapeKeeps, FillShapeKeeps, CommitKeeps, FailKeeps
     DEF Publish
<1>4. CASE UNCHANGED vars
  BY <1>4, StutterKeeps
<1> QED BY <1>1, <1>2, <1>3, <1>4 DEF Next

----------------------------------------------------------------------------
(* Theorems.                                                               *)

\* The invariant of the two heaps and of a publication under way.
THEOREM HeapInvHolds == Spec => []HeapInv
BY InitInv, NextKeeps, PTL DEF Spec

\* Every variable keeps its type.
THEOREM HeapTypeCorrect == Spec => []TypeOK
<1>1. HeapInv => TypeOK
  BY DEF HeapInv
<1> QED BY <1>1, HeapInvHolds, PTL

\* Main refers only to itself, every slot it names exists and is initialised,
\* whatever was published and whatever failed (validate, commit).
THEOREM SelfContained == Spec => []MainSelfContained
<1>1. HeapInv => MainSelfContained
  BY DEF HeapInv
<1> QED BY <1>1, HeapInvHolds, PTL

\* Nothing in Main is ever changed or given back: handles stay valid.
THEOREM Grows == Spec => MainGrows
<1> DEFINE Growth == /\ IsPrefixOf(main.objects, main'.objects)
                     /\ IsPrefixOf(main.texts, main'.texts)
                     /\ IsPrefixOf(main.shapes, main'.shapes)
                     /\ IsPrefixOf(roots, roots')
<1>1. HeapInv /\ [Next]_vars => [Growth]_vars
  <2> SUFFICES ASSUME HeapInv, Next PROVE Growth
    OBVIOUS
  <2>1. /\ main.objects \in Seq(Objects) /\ pending.objects \in Seq(Objects)
        /\ main.texts \in Seq(Texts) /\ pending.texts \in Seq(Texts)
        /\ main.shapes \in Seq(Seq(Refs)) /\ pending.shapes \in Seq(Seq(Refs))
        /\ roots \in Seq(Refs)
    BY HeapParts DEF HeapInv, TypeOK
  <2>2. CASE Commit
    <3>1. /\ main'.objects = main.objects \o pending.objects
          /\ main'.texts = main.texts \o pending.texts
          /\ main'.shapes = main.shapes \o pending.shapes
          /\ roots' = Append(roots, Top.done[1]) /\ Top.done[1] \in Refs
      BY <2>2, CommitAppends DEF Coming
    <3>2. IsPrefixOf(roots, roots')
      BY <2>1, <3>1 DEF IsPrefixOf
    <3>3. \A S : \A s, t \in Seq(S) : IsPrefixOf(s, s \o t)
      BY DEF IsPrefixOf
    <3> QED BY <2>1, <3>1, <3>2, <3>3
  <2>3. CASE ~Commit
    <3>1. UNCHANGED <<main, roots>>
      BY <2>3 DEF Next, Evaluate, Publish, StartRun, Allocate, AllocateDict, Reserve,
         MakeUpLink, InternShape, Discard, Initialize, InitializeUpLink, InternText,
         AddObject, SetObject, StartCopy, CopyMain, CopyForwarded, CopyText,
         EnterObject, FillObject, EnterShape, FillShape, Fail, InCopy
    <3>2. \A S : \A s \in Seq(S) : IsPrefixOf(s, s)
      BY DEF IsPrefixOf
    <3> QED BY <2>1, <3>1, <3>2
  <2> QED BY <2>2, <2>3
<1> QED BY <1>1, HeapInvHolds, PTL DEF Spec, MainGrows

----------------------------------------------------------------------------
(* One slot for one text and for one shape.                                *)

\* What a table lacks can be added to it.
LEMMA AppendedOnce ==
    ASSUME NEW S, NEW s \in Seq(S), NEW x \in S, Injective(s), x \notin Elements(s)
    PROVE  Injective(Append(s, x))
<1>0. PICK u : u = Append(s, x)
  OBVIOUS
<1>1. /\ Len(s) \in Nat
      /\ DOMAIN u = 1..(Len(s) + 1) /\ DOMAIN s = 1..Len(s)
      /\ \A i \in DOMAIN s : u[i] = s[i] /\ s[i] # x
      /\ u[Len(s) + 1] = x
  BY <1>0 DEF Elements
<1>2. \A i \in DOMAIN u : i \in DOMAIN s \/ i = Len(s) + 1
  BY <1>1
<1>3. \A i, j \in DOMAIN u : u[i] = u[j] => i = j
  BY <1>1, <1>2 DEF Injective
<1> QED BY <1>0, <1>3 DEF Injective

\* New entries, each there once, leave each entry of the table there once.
LEMMA ConcatenatedOnce ==
    ASSUME NEW S, NEW s \in Seq(S), NEW t \in Seq(S), Injective(s), Fresh(s, t)
    PROVE  Injective(s \o t)
<1> PICK u : u = s \o t
  OBVIOUS
<1>1. /\ Len(s) \in Nat /\ Len(t) \in Nat
      /\ DOMAIN u = 1..(Len(s) + Len(t))
      /\ \A i \in 1..Len(s) : u[i] = s[i]
      /\ \A i \in 1..Len(t) : u[Len(s) + i] = t[i]
  OBVIOUS
<1>2. ASSUME NEW i \in DOMAIN u
      PROVE  \/ i \in DOMAIN s /\ u[i] = s[i]
             \/ i - Len(s) \in DOMAIN t /\ u[i] = t[i - Len(s)]
  BY <1>1, <1>2
<1>3. \A i \in DOMAIN s, j \in DOMAIN t : s[i] # t[j]
  BY DEF Fresh, Elements
<1>4. ASSUME NEW i \in DOMAIN u, NEW j \in DOMAIN u, u[i] = u[j]
      PROVE  i = j
  <2>1. i \in Int /\ j \in Int /\ Len(s) \in Int
    BY <1>1
  <2>2. CASE i \in DOMAIN s /\ u[i] = s[i] /\ j \in DOMAIN s /\ u[j] = s[j]
    BY <1>4, <2>2 DEF Injective
  <2>3. CASE /\ i - Len(s) \in DOMAIN t /\ u[i] = t[i - Len(s)]
             /\ j - Len(s) \in DOMAIN t /\ u[j] = t[j - Len(s)]
    <3>1. i - Len(s) = j - Len(s)
      BY <1>4, <2>3 DEF Fresh, Injective
    <3> QED BY <2>1, <3>1
  <2> QED BY <1>2, <1>3, <1>4, <2>2, <2>3
<1> QED BY <1>4 DEF Injective

\* A table is a table of its heap: Main's or the Work heap's.
OnceIn(h) == Injective(h.texts) /\ Injective(h.shapes)

LEMMA EmptyOnce == OnceIn(EmptyHeap)
BY DEF OnceIn, EmptyHeap, Injective

\* Interning adds a text the Work heap does not have.
LEMMA InternTextOnce ==
    ASSUME HeapInv, InternedOnce, NEW t \in Texts, InternText(t)
    PROVE  InternedOnce'
<1>1. /\ work \in Heaps /\ main' = main
      /\ t \notin Elements(work.texts)
      /\ work' = [work EXCEPT !.texts = Append(@, t)]
  BY DEF HeapInv, TypeOK, InternText
<1>2. work'.texts = Append(work.texts, t) /\ work'.shapes = work.shapes
  BY <1>1 DEF Heaps
<1>3. Injective(work'.texts)
  <2>1. work.texts \in Seq(Texts) /\ Injective(work.texts)
    BY <1>1 DEF InternedOnce, Heaps
  <2>2. Injective(Append(work.texts, t))
    BY <1>1, <2>1, AppendedOnce, Zenon
  <2> QED BY <1>2, <2>2
<1> QED BY <1>1, <1>2, <1>3 DEF InternedOnce

\* Interning adds a shape the Work heap does not have.
LEMMA InternShapeOnce ==
    ASSUME HeapInv, InternedOnce, InternShape
    PROVE  InternedOnce'
<1>1. work \in Heaps /\ main' = main
  BY DEF HeapInv, TypeOK, InternShape
<1>2. PICK fields \in SeqsUpTo(TextIds, MaxFields) :
          /\ fields \notin Elements(work.shapes)
          /\ work' = [work EXCEPT !.shapes = Append(@, fields)]
  BY DEF InternShape
<1>3. work'.texts = work.texts /\ work'.shapes = Append(work.shapes, fields)
  BY <1>1, <1>2 DEF Heaps
<1>4. Injective(work'.shapes)
  <2>1. work.shapes \in Seq(Seq(Refs)) /\ Injective(work.shapes)
    BY <1>1 DEF InternedOnce, Heaps
  <2>2. fields \in Seq(Refs)
    <3>1. PICK k \in 0..MaxFields : fields \in [1..k -> TextIds]
      BY <1>2 DEF SeqsUpTo
    <3>2. \A x \in TextIds : x \in Refs
      BY ValuesVisible DEF TextIds
    <3> QED BY <3>1, <3>2
  <2>3. Injective(Append(work.shapes, fields))
    BY <1>2, <2>1, <2>2, AppendedOnce, Zenon
  <2> QED BY <1>3, <2>3
<1> QED BY <1>1, <1>3, <1>4 DEF InternedOnce

\* A commit adds what Main lacks, and the Work heap is gone.
LEMMA CommitOnce ==
    ASSUME HeapInv, InternedOnce, Commit
    PROVE  InternedOnce'
<1>1. /\ main.texts \in Seq(Texts) /\ pending.texts \in Seq(Texts)
      /\ main.shapes \in Seq(Seq(Refs)) /\ pending.shapes \in Seq(Seq(Refs))
  BY HeapParts DEF HeapInv, TypeOK
<1>2. Fresh(main.texts, pending.texts) /\ Fresh(main.shapes, pending.shapes)
  BY DEF HeapInv, PendingOK, Commit, CopyDone
<1>3. Injective(main.texts \o pending.texts) /\ Injective(main.shapes \o pending.shapes)
  BY <1>1, <1>2, ConcatenatedOnce DEF InternedOnce
<1>4. OnceIn(main')
  BY <1>3, CommitAppends DEF OnceIn
<1>5. OnceIn(work')
  BY EmptyOnce DEF Commit, EndRun
<1> QED BY <1>4, <1>5 DEF InternedOnce, OnceIn

\* Other steps touch no table, or drop the whole Work heap.
LEMMA OtherStepsOnce ==
    ASSUME HeapInv, InternedOnce, [Next]_vars,
           ~InternShape, ~Commit, \A t \in Texts : ~InternText(t)
    PROVE  InternedOnce'
<1>1. work \in Heaps
  BY DEF HeapInv, TypeOK
<1>2. ASSUME NEW h, h = EmptyHeap \/ (h.texts = work.texts /\ h.shapes = work.shapes)
      PROVE  OnceIn(h)
  BY <1>2, EmptyOnce DEF OnceIn, InternedOnce
<1>3. ASSUME NEW object, AddObject(object)
      PROVE  work'.texts = work.texts /\ work'.shapes = work.shapes
  BY <1>1, <1>3 DEF AddObject, Heaps
<1>4. ASSUME NEW i, NEW object, SetObject(i, object)
      PROVE  work'.texts = work.texts /\ work'.shapes = work.shapes
  BY <1>1, <1>4 DEF SetObject, Heaps
<1>5. work' = EmptyHeap \/ (work'.texts = work.texts /\ work'.shapes = work.shapes)
  <2>1. CASE Evaluate
    BY <2>1, <1>3, <1>4 DEF Evaluate, StartRun, Allocate, AllocateDict, Reserve,
       MakeUpLink, Discard, Initialize, InitializeUpLink
  <2>2. CASE Publish
    BY <2>2 DEF Publish, CopyMain, CopyForwarded, CopyText, EnterObject, FillObject,
       EnterShape, FillShape, Fail, InCopy, EndRun
  <2> QED BY <2>1, <2>2 DEF Next, StartCopy, vars
<1>6. main' = main
  BY DEF Next, Evaluate, Publish, StartRun, Allocate, AllocateDict, Reserve,
     MakeUpLink, Discard, Initialize, InitializeUpLink, AddObject, SetObject, StartCopy,
     CopyMain, CopyForwarded, CopyText, EnterObject, FillObject, EnterShape, FillShape,
     Fail, InCopy, vars
<1>7. OnceIn(work')
  BY <1>2, <1>5
<1> QED BY <1>6, <1>7 DEF InternedOnce, OnceIn

\* No text and no shape has two slots in a heap, whatever evaluations intern
\* and publish: equality of strings and of shapes may compare slots.
THEOREM Interned == Spec => []InternedOnce
<1>1. Init => InternedOnce
  BY EmptyOnce DEF Init, InternedOnce, OnceIn
<1>2. HeapInv /\ InternedOnce /\ [Next]_vars => InternedOnce'
  BY InternTextOnce, InternShapeOnce, CommitOnce, OtherStepsOnce
<1> QED BY <1>1, <1>2, HeapInvHolds, PTL DEF Spec

----------------------------------------------------------------------------
(* The copy is an exact image of the graph: what is forwarded has its copy  *)
(* in Main or pending, or is being copied, and no copy changes.            *)

\* The copy of v is known: no later step of the copy changes it.
Settled(v) == v.at = "main" \/ v \in DOMAIN fwd
AllSettled(s) == \A j \in DOMAIN s : Settled(s[j])

UnderWay(x) == \E k \in DOMAIN path : path[k].of = x

ObjectCopied(x) ==
    /\ pending.objects[fwd[x].slot - Len(main.objects)] =
           Object(work.objects[x.slot].kind, ImageOf(work.objects[x.slot].fields))
    /\ AllSettled(work.objects[x.slot].fields)

\* Entry n of a table once what is pending is added to it.
EntryOf(table, more, n) == (table \o more)[n]

TextCopied(x) ==
    EntryOf(main.texts, pending.texts, fwd[x].slot) = work.texts[x.slot]

ShapeCopied(x) ==
    /\ EntryOf(main.shapes, pending.shapes, fwd[x].slot) = ImageOf(work.shapes[x.slot])
    /\ AllSettled(work.shapes[x.slot])

\* A call holds the images of the fields it has copied.
FrameCopied(f) ==
    \A j \in 1..Len(f.done) :
        Settled(Fields(f.of)[j]) /\ f.done[j] = Image(Fields(f.of)[j])

\* Shapes refer to texts: no call is made while one is copied.
ShapesOfTexts ==
    \A i \in DOMAIN work.shapes : \A j \in DOMAIN work.shapes[i] :
        work.shapes[i][j].kind = "text"

ForwardedFromWork == \A x \in DOMAIN fwd : x.at = "work" /\ x \in Known

ForwardedIsCopied ==
    \A x \in DOMAIN fwd :
        /\ x.kind = "object" => UnderWay(x) \/ ObjectCopied(x)
        /\ x.kind = "text" => TextCopied(x)
        /\ x.kind = "shape" => ShapeCopied(x)

ForwardedApart ==
    \A x, y \in DOMAIN fwd : x.kind = "object" /\ fwd[x] = fwd[y] => x = y

FramesCopied == \A k \in DOMAIN path : FrameCopied(path[k])

ShapesOnTop ==
    \A k \in DOMAIN path : path[k].of.kind = "shape" =>
        k = Len(path) /\ path[k].of \notin DOMAIN fwd

CopyInv ==
    /\ ForwardedFromWork
    /\ ForwardedIsCopied
    /\ ForwardedApart
    /\ FramesCopied
    /\ ShapesOnTop

GraphInv == ShapesOfTexts /\ (phase = "copy" => CopyInv)

\* What a step of the copy never takes back.
OnlyAdds ==
    /\ InCopy
    /\ pending' \in Heaps
    /\ IsPrefixOf(pending.texts, pending'.texts)
    /\ IsPrefixOf(pending.shapes, pending'.shapes)
    /\ \A x \in DOMAIN fwd : x \in DOMAIN fwd' /\ fwd'[x] = fwd[x]
    /\ ForwardedFromWork'

\* Adding to what is pending moves nothing.
LEMMA EntriesStay ==
    ASSUME NEW S, NEW table \in Seq(S), NEW more \in Seq(S), NEW more2 \in Seq(S),
           IsPrefixOf(more, more2)
    PROVE  \A n \in Nat \ {0} : n <= Len(table) + Len(more)
                => EntryOf(table, more2, n) = EntryOf(table, more, n)
<1>0. Len(more) <= Len(more2) /\ \A i \in 1..Len(more) : more2[i] = more[i]
  BY DEF IsPrefixOf
<1> SUFFICES ASSUME NEW n \in Nat \ {0}, n <= Len(table) + Len(more)
             PROVE  EntryOf(table, more2, n) = EntryOf(table, more, n)
  OBVIOUS
<1>1. CASE n <= Len(table)
  BY <1>0, <1>1 DEF EntryOf
<1>2. CASE n > Len(table)
  <2>1. n - Len(table) \in 1..Len(more)
    BY <1>2
  <2> QED BY <1>0, <1>2, <2>1 DEF EntryOf
<1>3. n <= Len(table) \/ n > Len(table)
  OBVIOUS
<1> QED BY <1>1, <1>2, <1>3, Zenon

\* The slot of what is included holds it.
LEMMA IncludingHolds ==
    ASSUME NEW S, NEW table \in Seq(S), NEW more \in Seq(S), NEW x \in S
    PROVE  /\ IsPrefixOf(more, Including(table, more, x))
           /\ EntryOf(table, Including(table, more, x), Slot(table, more, x)) = x
<1> DEFINE all == Including(table, more, x)
           slot == Slot(table, more, x)
<1>1. /\ all \in Seq(S) /\ Len(more) <= Len(all)
      /\ \A i \in 1..Len(more) : all[i] = more[i]
  BY DEF Including
<1>0. IsPrefixOf(more, all)
  BY <1>1 DEF IsPrefixOf
<1>2. CASE x \in Elements(table)
  <2>1. slot \in DOMAIN table /\ table[slot] = x
    BY <1>2 DEF Slot, IndexOf, Elements
  <2> HIDE DEF all, slot
  <2> QED BY <1>0, <1>1, <2>1 DEF all, slot, EntryOf
<1>3. CASE x \notin Elements(table) /\ x \in Elements(more)
  <2>1. PICK i \in DOMAIN more : i = IndexOf(more, x) /\ more[i] = x
    BY <1>3 DEF IndexOf, Elements
  <2>2. slot = Len(table) + i /\ all[i] = x /\ i \in 1..Len(all)
    BY <1>1, <1>3, <2>1 DEF Slot
  <2> HIDE DEF all, slot
  <2>3. (table \o all)[slot] = x
    BY <1>1, <2>2
  <2> QED BY <1>0, <2>3 DEF all, slot, EntryOf
<1>4. CASE x \notin Elements(table) /\ x \notin Elements(more)
  <2>1. all = Append(more, x) /\ slot = Len(table) + Len(more) + 1
    BY <1>4 DEF Slot, Including
  <2>2. all[Len(more) + 1] = x /\ Len(all) = Len(more) + 1
    BY <2>1
  <2> HIDE DEF all, slot
  <2>3. (table \o all)[slot] = x
    BY <1>1, <2>1, <2>2
  <2> QED BY <1>0, <2>3 DEF all, slot, EntryOf
<1> QED BY <1>2, <1>3, <1>4

LEMMA PrefixOfItself ==
    \A S : \A s \in Seq(S) : IsPrefixOf(s, s) /\ \A x \in S : IsPrefixOf(s, Append(s, x))
BY DEF IsPrefixOf

\* What is settled keeps its image.
LEMMA ImagesStay ==
    ASSUME ForwardedFromWork, OnlyAdds, NEW v, Settled(v)
    PROVE  Settled(v)' /\ Image(v)' = Image(v)
<1>1. CASE v \in DOMAIN fwd
  BY <1>1 DEF OnlyAdds, Settled, Image
<1>2. CASE v \notin DOMAIN fwd
  BY <1>2 DEF OnlyAdds, ForwardedFromWork, Settled, Image
<1> QED BY <1>1, <1>2

LEMMA ImagesOfStay ==
    ASSUME ForwardedFromWork, OnlyAdds, NEW s, AllSettled(s)
    PROVE  AllSettled(s)' /\ ImageOf(s)' = ImageOf(s)
BY ImagesStay DEF AllSettled, ImageOf

\* What a handle forwards to is a slot of Main or of what is pending.
LEMMA ForwardedTo ==
    ASSUME HeapInv, phase = "copy", NEW x \in DOMAIN fwd
    PROVE  /\ fwd[x] \in Refs /\ fwd[x].at = "main" /\ fwd[x].kind = x.kind
           /\ fwd[x].slot \in Nat \ {0}
           /\ x.kind = "object" => fwd[x].slot - Len(main.objects) \in 1..Len(pending.objects)
           /\ x.kind = "text" => fwd[x].slot <= Len(main.texts) + Len(pending.texts)
           /\ x.kind = "shape" => fwd[x].slot <= Len(main.shapes) + Len(pending.shapes)
<1>1. fwd[x] \in Coming /\ fwd[x].kind = x.kind
      /\ (x.kind = "object" => fwd[x].slot > Len(main.objects))
  BY DEF HeapInv, ForwardingOK
<1>2. fwd[x].slot \in Nat \ {0} /\ fwd[x] \in Refs /\ fwd[x].at = "main"
  BY <1>1 DEF Coming, Refs
<1>3. PICK a \in Nat, b \in Nat : a = Len(main.objects) /\ b = Len(pending.objects)
  BY HeapLens DEF HeapInv, TypeOK
<1>4. x.kind = "object" => fwd[x].slot <= a + b /\ fwd[x].slot > a
  BY <1>1, <1>3 DEF Coming, Fits
<1>5. x.kind = "object" => fwd[x].slot - a \in 1..b
  <2>1. \A n \in Nat : n <= a + b /\ n > a => n - a \in 1..b
    OBVIOUS
  <2> QED BY <1>2, <1>4, <2>1
<1> QED BY <1>1, <1>2, <1>3, <1>5 DEF Coming, Fits

\* A copy that is made stays what it is.
LEMMA TextStays ==
    ASSUME HeapInv, phase = "copy", OnlyAdds,
           NEW x \in DOMAIN fwd, x.kind = "text", TextCopied(x)
    PROVE  TextCopied(x)'
<1>1. PICK table, more, more2 :
        table = main.texts /\ more = pending.texts /\ more2 = pending'.texts
  OBVIOUS
<1>2. table \in Seq(Texts) /\ more \in Seq(Texts) /\ more2 \in Seq(Texts)
  BY <1>1, HeapParts DEF HeapInv, TypeOK, OnlyAdds
<1>3. PICK n : n = fwd[x].slot
  OBVIOUS
<1>4. n \in Nat \ {0} /\ n <= Len(table) + Len(more) /\ IsPrefixOf(more, more2)
  BY <1>1, <1>3, ForwardedTo DEF OnlyAdds
<1>5. EntryOf(table, more2, n) = EntryOf(table, more, n)
  BY <1>2, <1>4, EntriesStay
<1> QED BY <1>1, <1>3, <1>5 DEF TextCopied, OnlyAdds, InCopy

LEMMA ShapeStays ==
    ASSUME HeapInv, phase = "copy", CopyInv, OnlyAdds,
           NEW x \in DOMAIN fwd, x.kind = "shape", ShapeCopied(x)
    PROVE  ShapeCopied(x)'
<1>1. PICK table, more, more2 :
        table = main.shapes /\ more = pending.shapes /\ more2 = pending'.shapes
  OBVIOUS
<1>2. table \in Seq(Seq(Refs)) /\ more \in Seq(Seq(Refs)) /\ more2 \in Seq(Seq(Refs))
  BY <1>1, HeapParts DEF HeapInv, TypeOK, OnlyAdds
<1>3. PICK n : n = fwd[x].slot
  OBVIOUS
<1>4. n \in Nat \ {0} /\ n <= Len(table) + Len(more) /\ IsPrefixOf(more, more2)
  BY <1>1, <1>3, ForwardedTo DEF OnlyAdds
<1>5. EntryOf(table, more2, n) = EntryOf(table, more, n)
  BY <1>2, <1>4, EntriesStay
<1>6. PICK s : s = work.shapes[x.slot]
  OBVIOUS
<1>7. AllSettled(s)' /\ ImageOf(s)' = ImageOf(s)
  BY <1>6, ImagesOfStay DEF CopyInv, ShapeCopied
<1>8. EntryOf(table, more, n) = ImageOf(s)
  BY <1>1, <1>3, <1>6 DEF ShapeCopied
<1>9. /\ s = work'.shapes[x.slot] /\ n = fwd'[x].slot
      /\ table = main'.shapes /\ more2 = pending'.shapes
  BY <1>1, <1>3, <1>6 DEF OnlyAdds, InCopy
<1> QED BY <1>5, <1>7, <1>8, <1>9 DEF ShapeCopied

LEMMA ObjectStays ==
    ASSUME CopyInv, OnlyAdds, NEW x \in DOMAIN fwd, ObjectCopied(x),
           NEW n, n = fwd[x].slot - Len(main.objects),
           pending'.objects[n] = pending.objects[n]
    PROVE  ObjectCopied(x)'
<1>1. PICK s, k : s = work.objects[x.slot].fields /\ k = work.objects[x.slot].kind
  OBVIOUS
<1>2. AllSettled(s)' /\ ImageOf(s)' = ImageOf(s)
  BY <1>1, ImagesOfStay DEF CopyInv, ObjectCopied
<1>3. pending.objects[n] = Object(k, ImageOf(s))
  BY <1>1 DEF ObjectCopied
<1>4. /\ s = work'.objects[x.slot].fields /\ k = work'.objects[x.slot].kind
      /\ n = fwd'[x].slot - Len(main'.objects)
  BY <1>1 DEF OnlyAdds, InCopy
<1> QED BY <1>2, <1>3, <1>4 DEF ObjectCopied

LEMMA FrameStays ==
    ASSUME CopyInv, OnlyAdds, NEW f, FrameCopied(f)
    PROVE  FrameCopied(f)'
<1>1. Fields(f.of)' = Fields(f.of)
  BY DEF Fields, OnlyAdds, InCopy
<1>2. PICK s : s = Fields(f.of)
  OBVIOUS
<1>3. ASSUME NEW j \in 1..Len(f.done)
      PROVE  Settled(s[j])' /\ f.done[j] = Image(s[j])'
  BY <1>2, <1>3, ImagesStay DEF FrameCopied, CopyInv
<1> QED BY <1>1, <1>2, <1>3 DEF FrameCopied

\* Nothing copied is lost by a step that only adds, but the object it fills.
LEMMA CopiesStay ==
    ASSUME HeapInv, phase = "copy", CopyInv, OnlyAdds, NEW x \in DOMAIN fwd
    PROVE  /\ x.kind = "text" => TextCopied(x)'
           /\ x.kind = "shape" => ShapeCopied(x)'
BY TextStays, ShapeStays DEF CopyInv, ForwardedIsCopied

LEMMA ObjectsStay ==
    ASSUME HeapInv, phase = "copy", CopyInv, OnlyAdds,
           IsPrefixOf(pending.objects, pending'.objects),
           NEW x \in DOMAIN fwd, x.kind = "object", ObjectCopied(x)
    PROVE  ObjectCopied(x)'
<1>1. PICK n : n = fwd[x].slot - Len(main.objects)
  OBVIOUS
<1>2. n \in 1..Len(pending.objects)
  BY <1>1, ForwardedTo
<1>3. pending'.objects[n] = pending.objects[n]
  <2>1. pending.objects \in Seq(Objects)
    BY HeapParts DEF HeapInv, TypeOK
  <2> QED BY <1>2, <2>1 DEF IsPrefixOf
<1> QED BY <1>1, <1>3, ObjectStays

\* The frames of the next state, one by one.
LEMMA FramesNext ==
    ASSUME \A k \in DOMAIN path' : \A f : f = path'[k] => FrameCopied(f)'
    PROVE  FramesCopied'
BY DEF FramesCopied, FrameCopied, Fields, Settled, Image

\* A shape is copied without a call: what it wants next is a text.
LEMMA ShapeWantsText ==
    ASSUME HeapInv, ShapesOfTexts, phase = "copy", Copying, Top.of.kind = "shape"
    PROVE  Wanted.kind = "text"
<1>1. /\ Top \in GoodFrames /\ Top.done \in Seq(Coming)
      /\ Fields(Top.of) \in Seq(Known)
      /\ Len(Top.done) < Len(Fields(Top.of))
  BY TopGood
<1>2. Top.of \in Known /\ Top.of.at = "work"
  BY <1>1 DEF GoodFrames, Imm, Ref
<1>3. Top.of.slot \in DOMAIN work.shapes
  <2>1. work.shapes \in Seq(Seq(Refs))
    BY HeapParts DEF HeapInv, TypeOK
  <2> QED BY <1>2, <2>1 DEF Known, Visible, Resolves, Fits, Refs
<1>4. Fields(Top.of) = work.shapes[Top.of.slot]
  BY DEF Fields
<1>5. Len(Top.done) + 1 \in DOMAIN Fields(Top.of)
  BY <1>1
<1> QED BY <1>3, <1>4, <1>5 DEF ShapesOfTexts, Wanted

\* The call under way gets the image of the value it wants.
LEMMA TakeCopies ==
    ASSUME HeapInv, CopyInv, phase = "copy", Copying, OnlyAdds,
           NEW w, w = Wanted, NEW y, Take(y),
           Settled(w)', y = Image(w)',
           \A x \in DOMAIN fwd' : x.kind = "shape" => x \in DOMAIN fwd
    PROVE  /\ FramesCopied' /\ ShapesOnTop'
           /\ \A x : UnderWay(x) => UnderWay(x)'
<1>1. /\ Len(path) \in Nat \ {0} /\ Len(path) \in DOMAIN path
      /\ path \in Seq(GoodFrames)
      /\ Top \in [of : Refs, done : Seq(Coming)] /\ Top.done \in Seq(Coming)
  BY TopGood DEF GoodFrames
<1> PICK top : top = Top
  OBVIOUS
<1> PICK f : f = [top EXCEPT !.done = Append(@, y)]
  OBVIOUS
<1>2. f.of = top.of /\ f.done = Append(top.done, y)
  BY <1>1
<1>3. path' = [path EXCEPT ![Len(path)] = f]
  BY <1>1 DEF Take, Top
<1>4. /\ DOMAIN path' = DOMAIN path /\ path'[Len(path)] = f
      /\ Len(path') = Len(path)
      /\ \A k \in DOMAIN path : k # Len(path) => path'[k] = path[k]
  BY <1>1, <1>3
<1>5. \A k \in DOMAIN path : path'[k].of = path[k].of
  BY <1>2, <1>4 DEF Top
<1>6. FrameCopied(f)'
  <2>1. FrameCopied(top)
    BY <1>1 DEF CopyInv, FramesCopied, Top
  <2>2. FrameCopied(top)'
    BY <2>1, FrameStays
  <2>3. Fields(top.of)' = Fields(top.of)
    BY DEF Fields, OnlyAdds, InCopy
  <2> PICK s : s = Fields(top.of)
    OBVIOUS
  <2> PICK d : d = top.done
    OBVIOUS
  <2> PICK e : e = f.done
    OBVIOUS
  <2>4. d \in Seq(Coming) /\ e = Append(d, y) /\ w = s[Len(d) + 1]
    BY <1>1, <1>2 DEF Wanted
  <2>5. Len(e) = Len(d) + 1 /\ \A j \in 1..Len(d) : e[j] = d[j]
    BY <2>4
  <2>6. e[Len(d) + 1] = y /\ Len(d) \in Nat
    BY <2>4
  <2>7. ASSUME NEW j \in 1..Len(e)
        PROVE  Settled(s[j])' /\ e[j] = Image(s[j])'
    <3>1. CASE j \in 1..Len(d)
      BY <2>2, <2>3, <2>5, <3>1 DEF FrameCopied
    <3>2. CASE j = Len(d) + 1
      BY <2>4, <2>6, <3>2
    <3> QED BY <2>5, <2>6, <2>7, <3>1, <3>2
  <2> QED BY <1>2, <2>3, <2>7 DEF FrameCopied
<1>7. FramesCopied'
  <2>1. ASSUME NEW k \in DOMAIN path, NEW g, g = path[k]
        PROVE  FrameCopied(g)'
    BY <2>1, FrameStays DEF CopyInv, FramesCopied
  <2>2. \A k \in DOMAIN path' : \A g : g = path'[k] => FrameCopied(g)'
    BY <1>4, <1>6, <2>1
  <2> QED BY <2>2, FramesNext
<1>8. ShapesOnTop'
  <2>1. ASSUME NEW k \in DOMAIN path', path'[k].of.kind = "shape"
        PROVE  k = Len(path') /\ path'[k].of \notin DOMAIN fwd'
    BY <1>4, <1>5, <2>1 DEF CopyInv, ShapesOnTop
  <2> QED BY <2>1 DEF ShapesOnTop
<1>9. \A x : UnderWay(x) => UnderWay(x)'
  BY <1>4, <1>5 DEF UnderWay
<1> QED BY <1>7, <1>8, <1>9

\* A call copies nothing yet.
LEMMA CallCopies ==
    ASSUME HeapInv, CopyInv, phase = "copy", OnlyAdds, Top.of.kind # "shape",
           NEW x, Call(x), x.kind = "shape" => x \notin DOMAIN fwd'
    PROVE  /\ FramesCopied' /\ ShapesOnTop' /\ UnderWay(x)'
           /\ \A z : UnderWay(z) => UnderWay(z)'
<1>1. Len(path) \in Nat \ {0} /\ path \in Seq(GoodFrames)
  BY TopGood
<1> PICK f : f = [of |-> x, done |-> <<>>]
  OBVIOUS
<1>2. path' = Append(path, f) /\ f.of = x /\ f.done = <<>>
  BY DEF Call
<1>3. /\ Len(path') = Len(path) + 1 /\ DOMAIN path' = 1..(Len(path) + 1)
      /\ path'[Len(path) + 1] = f
      /\ \A k \in DOMAIN path : path'[k] = path[k]
      /\ DOMAIN path = 1..Len(path)
  BY <1>1, <1>2
<1>4. FrameCopied(f)'
  BY <1>2 DEF FrameCopied
<1>5. \A k \in DOMAIN path' : k \in DOMAIN path \/ k = Len(path) + 1
  BY <1>1, <1>3
<1>6. FramesCopied'
  <2>1. ASSUME NEW k \in DOMAIN path, NEW g, g = path[k]
        PROVE  FrameCopied(g)'
    BY <2>1, FrameStays DEF CopyInv, FramesCopied
  <2>2. \A k \in DOMAIN path' : \A g : g = path'[k] => FrameCopied(g)'
    BY <1>3, <1>4, <1>5, <2>1
  <2> QED BY <2>2, FramesNext
<1>7. ShapesOnTop'
  <2>1. \A k \in DOMAIN path : path[k].of.kind # "shape"
    BY DEF CopyInv, ShapesOnTop, Top
  <2> QED BY <1>2, <1>3, <1>5, <2>1 DEF ShapesOnTop
<1>8. Len(path) + 1 \in DOMAIN path'
  BY <1>1, <1>3
<1> QED BY <1>2, <1>3, <1>6, <1>7, <1>8 DEF UnderWay

\* A return leaves the callers as they were, and none of them is of a shape.
LEMMA ReturnCopies ==
    ASSUME HeapInv, CopyInv, phase = "copy", OnlyAdds, Top.of # Imm, Return
    PROVE  /\ FramesCopied' /\ ShapesOnTop'
           /\ \A z : UnderWay(z) /\ z # Top.of => UnderWay(z)'
<1>1. /\ path \in Seq(GoodFrames) /\ Len(path) \in Nat \ {0}
      /\ \A k \in DOMAIN path : path[k].of = Imm <=> k = 1
  BY TopGood DEF HeapInv, FramesOK
<1>2. Len(path) > 1
  BY <1>1 DEF Top
<1>3. path' = SubSeq(path, 1, Len(path) - 1)
  BY DEF Return
<1>4. /\ DOMAIN path' = 1..(Len(path) - 1) /\ DOMAIN path = 1..Len(path)
      /\ \A k \in DOMAIN path' : k \in DOMAIN path /\ path'[k] = path[k]
  BY <1>1, <1>2, <1>3
<1>5. \A k \in DOMAIN path : k # Len(path) => k \in DOMAIN path'
  BY <1>1, <1>2, <1>4
<1>6. \A k \in DOMAIN path' : k # Len(path)
  BY <1>1, <1>2, <1>4
<1>7. FramesCopied'
  <2>1. ASSUME NEW k \in DOMAIN path, NEW g, g = path[k]
        PROVE  FrameCopied(g)'
    BY <2>1, FrameStays DEF CopyInv, FramesCopied
  <2>2. \A k \in DOMAIN path' : \A g : g = path'[k] => FrameCopied(g)'
    BY <1>4, <2>1
  <2> QED BY <2>2, FramesNext
<1>8. ShapesOnTop'
  BY <1>4, <1>6 DEF CopyInv, ShapesOnTop
<1>9. \A z : UnderWay(z) /\ z # Top.of => UnderWay(z)'
  BY <1>4, <1>5 DEF UnderWay, Top
<1> QED BY <1>7, <1>8, <1>9

\* A step that forwards at most w, and keeps the objects copied so far.
LEMMA CopyInvNext ==
    ASSUME HeapInv, CopyInv, phase = "copy", OnlyAdds, FramesCopied', ShapesOnTop',
           \A x \in DOMAIN fwd : x.kind = "object" => UnderWay(x)' \/ ObjectCopied(x)',
           NEW w, DOMAIN fwd' \subseteq DOMAIN fwd \cup {w},
           w \notin DOMAIN fwd /\ w \in DOMAIN fwd' =>
               /\ \A x \in DOMAIN fwd :
                     x.kind = "object" \/ w.kind = "object" => fwd'[w] # fwd[x]
               /\ w.kind = "object" => UnderWay(w)'
               /\ w.kind = "text" => TextCopied(w)'
               /\ w.kind = "shape" => ShapeCopied(w)'
    PROVE  CopyInv'
<1>1. ForwardedIsCopied'
  <2>1. ASSUME NEW x \in DOMAIN fwd'
        PROVE  /\ x.kind = "object" => UnderWay(x)' \/ ObjectCopied(x)'
               /\ x.kind = "text" => TextCopied(x)'
               /\ x.kind = "shape" => ShapeCopied(x)'
    <3>1. CASE x \in DOMAIN fwd
      BY <3>1, CopiesStay
    <3>2. CASE x \notin DOMAIN fwd
      BY <2>1, <3>2
    <3> QED BY <3>1, <3>2
  <2> QED BY <2>1 DEF ForwardedIsCopied
<1>2. ForwardedApart'
  <2>1. ASSUME NEW x \in DOMAIN fwd', NEW y \in DOMAIN fwd',
               x.kind = "object", fwd'[x] = fwd'[y]
        PROVE  x = y
    <3>1. CASE x \in DOMAIN fwd /\ y \in DOMAIN fwd
      BY <2>1, <3>1 DEF CopyInv, ForwardedApart, OnlyAdds
    <3>2. CASE x \in DOMAIN fwd /\ y \notin DOMAIN fwd
      BY <2>1, <3>2 DEF OnlyAdds
    <3>3. CASE x \notin DOMAIN fwd /\ y \in DOMAIN fwd
      BY <2>1, <3>3 DEF OnlyAdds
    <3>4. CASE x \notin DOMAIN fwd /\ y \notin DOMAIN fwd
      BY <2>1, <3>4
    <3> QED BY <3>1, <3>2, <3>3, <3>4
  <2> QED BY <2>1 DEF ForwardedApart
<1> QED BY <1>1, <1>2 DEF CopyInv, OnlyAdds

\* When nothing is pending or forwarded anew, and when one handle is.
LEMMA NothingAdded ==
    ASSUME HeapInv, CopyInv, InCopy, UNCHANGED <<pending, fwd>>
    PROVE  OnlyAdds /\ IsPrefixOf(pending.objects, pending'.objects)
<1>1. /\ pending \in Heaps /\ pending.objects \in Seq(Objects)
      /\ pending.texts \in Seq(Texts) /\ pending.shapes \in Seq(Seq(Refs))
  BY HeapParts DEF HeapInv, TypeOK
<1>2. Known' = Known
  BY DEF Known, Visible, Resolves, Fits, InCopy
<1> QED BY <1>1, <1>2, PrefixOfItself DEF OnlyAdds, CopyInv, ForwardedFromWork

LEMMA OneForwarded ==
    ASSUME CopyInv, InCopy, pending' \in Heaps,
           IsPrefixOf(pending.texts, pending'.texts),
           IsPrefixOf(pending.shapes, pending'.shapes),
           NEW x \in Known, NEW y, x.at = "work", x \notin DOMAIN fwd,
           fwd' = Extend(fwd, x, y)
    PROVE  /\ OnlyAdds /\ fwd'[x] = y
           /\ DOMAIN fwd' = DOMAIN fwd \cup {x}
<1>1. Known' = Known
  BY DEF Known, Visible, Resolves, Fits, InCopy
<1> QED BY <1>1 DEF OnlyAdds, CopyInv, ForwardedFromWork, Extend

LEMMA CopyMainCopies ==
    ASSUME HeapInv, GraphInv, CopyMain
    PROVE  CopyInv'
<1>1. /\ phase = "copy" /\ Copying /\ InCopy /\ Take(Wanted)
      /\ Wanted.at = "main" /\ UNCHANGED <<pending, fwd>> /\ CopyInv
  BY DEF CopyMain, Copying, GraphInv
<1> PICK w : w = Wanted
  OBVIOUS
<1>2. OnlyAdds /\ IsPrefixOf(pending.objects, pending'.objects)
  BY <1>1, NothingAdded
<1>3. Settled(w)' /\ w = Image(w)' /\ Take(w)
  BY <1>1 DEF Settled, Image, CopyInv, ForwardedFromWork
<1>4. FramesCopied' /\ ShapesOnTop' /\ \A x : UnderWay(x) => UnderWay(x)'
  BY <1>1, <1>2, <1>3, TakeCopies
<1>5. \A x \in DOMAIN fwd : x.kind = "object" => UnderWay(x)' \/ ObjectCopied(x)'
  BY <1>1, <1>2, <1>4, ObjectsStay DEF CopyInv, ForwardedIsCopied
<1> QED BY <1>1, <1>2, <1>4, <1>5, CopyInvNext

LEMMA CopyForwardedCopies ==
    ASSUME HeapInv, GraphInv, CopyForwarded
    PROVE  CopyInv'
<1>1. /\ phase = "copy" /\ Copying /\ InCopy /\ Take(fwd[Wanted])
      /\ Wanted \in DOMAIN fwd /\ UNCHANGED <<pending, fwd>> /\ CopyInv
  BY DEF CopyForwarded, Copying, GraphInv
<1> PICK w : w = Wanted
  OBVIOUS
<1> PICK y : y = fwd[w]
  OBVIOUS
<1>2. OnlyAdds /\ IsPrefixOf(pending.objects, pending'.objects)
  BY <1>1, NothingAdded
<1>3. Settled(w)' /\ y = Image(w)' /\ Take(y)
  BY <1>1 DEF Settled, Image
<1>4. FramesCopied' /\ ShapesOnTop' /\ \A x : UnderWay(x) => UnderWay(x)'
  BY <1>1, <1>2, <1>3, TakeCopies
<1>5. \A x \in DOMAIN fwd : x.kind = "object" => UnderWay(x)' \/ ObjectCopied(x)'
  BY <1>1, <1>2, <1>4, ObjectsStay DEF CopyInv, ForwardedIsCopied
<1> QED BY <1>1, <1>2, <1>4, <1>5, CopyInvNext

LEMMA CopyTextCopies ==
    ASSUME HeapInv, GraphInv, CopyText
    PROVE  CopyInv'
<1>0. /\ phase = "copy" /\ Copying /\ InCopy /\ CopyInv
      /\ Wanted.at = "work" /\ Wanted.kind = "text" /\ Wanted \notin DOMAIN fwd
  BY DEF CopyText, Copying, GraphInv
<1> PICK w : w = Wanted
  OBVIOUS
<1>1. PICK text, y :
        /\ text = work.texts[w.slot]
        /\ y = Ref("text", "main", Slot(main.texts, pending.texts, text))
        /\ pending' = [pending EXCEPT !.texts = Including(main.texts, @, text)]
        /\ fwd' = Extend(fwd, w, y)
        /\ Take(y)
  BY DEF CopyText
<1>2. /\ main \in Heaps /\ work \in Heaps /\ pending \in Heaps
      /\ main.texts \in Seq(Texts) /\ pending.texts \in Seq(Texts)
      /\ pending.objects \in Seq(Objects) /\ pending.shapes \in Seq(Seq(Refs))
  BY HeapParts DEF HeapInv, TypeOK
<1>3. w \in Known /\ w.slot \in DOMAIN work.texts
  BY <1>0, <1>2, TopGood, HeapParts DEF Known, Visible, Resolves, Fits, Refs
<1>4. text \in Texts
  BY <1>1, <1>2, <1>3, HeapParts
<1> PICK new, slot : /\ new = Including(main.texts, pending.texts, text)
                     /\ slot = Slot(main.texts, pending.texts, text)
  OBVIOUS
<1>5. new \in Seq(Texts) /\ IsPrefixOf(pending.texts, new)
      /\ EntryOf(main.texts, new, slot) = text
  <2>1. Fresh(main.texts, pending.texts)
    BY <1>0 DEF HeapInv, PendingOK
  <2> QED BY <1>2, <1>4, <2>1, IncludingFresh, IncludingHolds
<1>6. /\ pending' \in Heaps
      /\ pending'.objects = pending.objects /\ pending'.shapes = pending.shapes
      /\ pending'.texts = new
  BY <1>1, <1>2, <1>5 DEF Heaps
<1>7. OnlyAdds /\ fwd'[w] = y /\ DOMAIN fwd' = DOMAIN fwd \cup {w}
  BY <1>0, <1>1, <1>2, <1>3, <1>5, <1>6, OneForwarded, PrefixOfItself
<1>8. y.kind = "text" /\ y.slot = slot
  BY <1>1 DEF Ref
<1>9. Settled(w)' /\ y = Image(w)'
  BY <1>7 DEF Settled, Image
<1>10. FramesCopied' /\ ShapesOnTop' /\ \A x : UnderWay(x) => UnderWay(x)'
  BY <1>0, <1>1, <1>7, <1>9, TakeCopies
<1>11. IsPrefixOf(pending.objects, pending'.objects)
  BY <1>2, <1>6, PrefixOfItself
<1>12. \A x \in DOMAIN fwd : x.kind = "object" => UnderWay(x)' \/ ObjectCopied(x)'
  BY <1>0, <1>7, <1>10, <1>11, ObjectsStay DEF CopyInv, ForwardedIsCopied
<1>13. TextCopied(w)'
  BY <1>0, <1>1, <1>5, <1>6, <1>7, <1>8 DEF TextCopied, InCopy
<1>14. \A x \in DOMAIN fwd : x.kind = "object" => fwd'[w] # fwd[x]
  BY <1>0, <1>7, <1>8, ForwardedTo
<1> QED BY <1>0, <1>7, <1>10, <1>12, <1>13, <1>14, CopyInvNext

LEMMA EnterObjectCopies ==
    ASSUME HeapInv, GraphInv, EnterObject
    PROVE  CopyInv'
<1>0. /\ phase = "copy" /\ Copying /\ InCopy /\ CopyInv /\ Call(Wanted)
      /\ Wanted.at = "work" /\ Wanted.kind = "object" /\ Wanted \notin DOMAIN fwd
      /\ pending' = [pending EXCEPT !.objects = Append(@, Reserved)]
  BY DEF EnterObject, Copying, GraphInv
<1> PICK w : w = Wanted
  OBVIOUS
<1>1. PICK slot, y : /\ slot = Len(main.objects) + Len(pending.objects) + 1
                     /\ y = Ref("object", "main", slot)
                     /\ fwd' = Extend(fwd, w, y)
  BY DEF EnterObject
<1>2. /\ main \in Heaps /\ pending \in Heaps /\ pending.objects \in Seq(Objects)
      /\ pending.texts \in Seq(Texts) /\ pending.shapes \in Seq(Seq(Refs))
  BY HeapParts DEF HeapInv, TypeOK
<1>3. w \in Known
  BY <1>0, TopGood
<1>4. Reserved \in Objects
  BY DEF Reserved, Object, Objects, ObjectKinds
<1>5. /\ pending' \in Heaps
      /\ pending'.objects = Append(pending.objects, Reserved)
      /\ pending'.shapes = pending.shapes /\ pending'.texts = pending.texts
  <2>1. pending' \in Heaps
    BY <1>0, <1>2, <1>4, HeapWithObject
  <2> QED BY <1>0, <1>2, <2>1 DEF Heaps
<1>6. OnlyAdds /\ fwd'[w] = y /\ DOMAIN fwd' = DOMAIN fwd \cup {w}
  BY <1>0, <1>1, <1>2, <1>3, <1>5, OneForwarded, PrefixOfItself
<1>7. Top.of.kind # "shape"
  BY <1>0, ShapeWantsText DEF GraphInv
<1>8. /\ FramesCopied' /\ ShapesOnTop' /\ UnderWay(w)'
      /\ \A z : UnderWay(z) => UnderWay(z)'
  BY <1>0, <1>6, <1>7, CallCopies
<1>9. IsPrefixOf(pending.objects, pending'.objects)
  BY <1>2, <1>4, <1>5, PrefixOfItself
<1>10. \A x \in DOMAIN fwd : x.kind = "object" => UnderWay(x)' \/ ObjectCopied(x)'
  BY <1>0, <1>6, <1>8, <1>9, ObjectsStay DEF CopyInv, ForwardedIsCopied
<1>11. ASSUME NEW x \in DOMAIN fwd
       PROVE  y # fwd[x]
  <2>1. y.kind = "object" /\ y.slot = slot
    BY <1>1 DEF Ref
  <2>2. PICK a \in Nat, b \in Nat : a = Len(main.objects) /\ b = Len(pending.objects)
    BY <1>2, HeapLens
  <2>3. CASE x.kind = "object"
    <3> PICK n : n = fwd[x].slot
      OBVIOUS
    <3>1. n \in Nat /\ n - a \in 1..b
      BY <1>0, <2>2, <2>3, ForwardedTo
    <3>2. n # a + b + 1
      <4>1. \A i, j, m \in Nat : m - i \in 1..j => m # i + j + 1
        OBVIOUS
      <4> QED BY ONLY <2>2, <3>1, <4>1
    <3> QED BY <1>1, <2>1, <2>2, <3>2
  <2>4. CASE x.kind # "object"
    BY <1>0, <2>1, <2>4, ForwardedTo
  <2> QED BY <2>3, <2>4
<1> QED BY <1>0, <1>6, <1>8, <1>10, <1>11, CopyInvNext

LEMMA EnterShapeCopies ==
    ASSUME HeapInv, GraphInv, EnterShape
    PROVE  CopyInv'
<1>1. /\ phase = "copy" /\ Copying /\ InCopy /\ CopyInv /\ Call(Wanted)
      /\ Wanted.kind = "shape" /\ Wanted \notin DOMAIN fwd /\ UNCHANGED <<pending, fwd>>
  BY DEF EnterShape, Copying, GraphInv
<1> PICK w : w = Wanted
  OBVIOUS
<1>2. OnlyAdds /\ IsPrefixOf(pending.objects, pending'.objects)
  BY <1>1, NothingAdded
<1>3. Top.of.kind # "shape"
  BY <1>1, ShapeWantsText DEF GraphInv
<1>4. FramesCopied' /\ ShapesOnTop' /\ \A x : UnderWay(x) => UnderWay(x)'
  BY <1>1, <1>2, <1>3, CallCopies
<1>5. \A x \in DOMAIN fwd : x.kind = "object" => UnderWay(x)' \/ ObjectCopied(x)'
  BY <1>1, <1>2, <1>4, ObjectsStay DEF CopyInv, ForwardedIsCopied
<1> QED BY <1>1, <1>2, <1>4, <1>5, CopyInvNext

\* A call that is done holds the image of all its fields.
LEMMA DoneIsImage ==
    ASSUME HeapInv, CopyInv, phase = "copy", Copied
    PROVE  Top.done = ImageOf(Fields(Top.of)) /\ AllSettled(Fields(Top.of))
<1> PICK s, d : s = Fields(Top.of) /\ d = Top.done
  OBVIOUS
<1>1. s \in Seq(Known) /\ d \in Seq(Coming) /\ Len(d) = Len(s)
  BY TopGood DEF Copied
<1>2. \A j \in 1..Len(d) : Settled(s[j]) /\ d[j] = Image(s[j])
  BY TopGood DEF CopyInv, FramesCopied, FrameCopied, Top
<1>3. DOMAIN s = 1..Len(d) /\ DOMAIN d = 1..Len(d)
  BY <1>1
<1>4. d = ImageOf(s)
  BY <1>1, <1>2, <1>3 DEF ImageOf
<1> QED BY <1>2, <1>3, <1>4 DEF AllSettled

LEMMA FillObjectCopies ==
    ASSUME HeapInv, GraphInv, FillObject
    PROVE  CopyInv'
<1>0. /\ phase = "copy" /\ Copied /\ Top.of.kind = "object" /\ Return
      /\ InCopy /\ CopyInv /\ UNCHANGED fwd
  BY DEF FillObject, GraphInv
<1> PICK o, n, object, done, k :
        /\ o = Top.of
        /\ n = fwd[o].slot - Len(main.objects)
        /\ k = work.objects[o.slot].kind
        /\ done = Top.done
        /\ object = Object(k, done)
  OBVIOUS
<1>1. pending' = [pending EXCEPT !.objects[n] = object]
  BY DEF FillObject
<1>2. /\ main \in Heaps /\ work \in Heaps /\ pending \in Heaps
      /\ pending.objects \in Seq(Objects)
      /\ pending.texts \in Seq(Texts) /\ pending.shapes \in Seq(Seq(Refs))
  BY HeapParts DEF HeapInv, TypeOK
<1>3. /\ o \in DOMAIN fwd /\ o.kind = "object" /\ o # Imm /\ o.at = "work"
      /\ o \in Known /\ done \in Seq(Coming)
  BY <1>0, TopGood DEF GoodFrames, Imm, Ref
<1>4. n \in DOMAIN pending.objects
  <2>1. n \in 1..Len(pending.objects)
    BY <1>0, <1>3, ForwardedTo
  <2> QED BY <1>2, <2>1
<1>5. object \in Objects
  <2>1. o.slot \in DOMAIN work.objects
    BY <1>2, <1>3, HeapParts DEF Known, Visible, Resolves, Fits, Refs
  <2>2. k \in ObjectKinds
    <3>1. work.objects[o.slot] \in Objects
      BY <1>2, <2>1, HeapParts
    <3> QED BY <3>1 DEF Objects
  <2>3. done \in Seq(Refs)
    <3>1. Coming \subseteq Refs
      BY DEF Coming
    <3> QED BY <1>3, <3>1, SeqLarger
  <2> QED BY <2>2, <2>3 DEF Object, Objects
<1>6. /\ pending' \in Heaps
      /\ pending'.objects = [pending.objects EXCEPT ![n] = object]
      /\ pending'.texts = pending.texts /\ pending'.shapes = pending.shapes
  <2>1. pending' \in Heaps
    BY <1>1, <1>2, <1>4, <1>5, HeapWithObject
  <2> QED BY <1>1, <1>2, <2>1 DEF Heaps
<1>7. OnlyAdds
  <2>1. Known' = Known
    BY <1>0 DEF Known, Visible, Resolves, Fits, InCopy
  <2>2. IsPrefixOf(pending.texts, pending'.texts) /\ IsPrefixOf(pending.shapes, pending'.shapes)
    BY <1>2, <1>6, PrefixOfItself
  <2> QED BY <1>0, <1>6, <2>1, <2>2 DEF OnlyAdds, CopyInv, ForwardedFromWork
<1>8. FramesCopied' /\ ShapesOnTop' /\ \A z : UnderWay(z) /\ z # o => UnderWay(z)'
  BY <1>0, <1>3, <1>7, ReturnCopies
<1>9. ObjectCopied(o)'
  <2> PICK s : s = work.objects[o.slot].fields
    OBVIOUS
  <2>1. done = ImageOf(s) /\ AllSettled(s)
    BY <1>0, <1>3, DoneIsImage DEF Fields
  <2>2. AllSettled(s)' /\ ImageOf(s)' = ImageOf(s)
    BY <1>0, <1>7, <2>1, ImagesOfStay DEF CopyInv
  <2>3. pending'.objects[n] = Object(k, ImageOf(s))
    BY <1>4, <1>6, <2>1
  <2>4. /\ s = work'.objects[o.slot].fields /\ k = work'.objects[o.slot].kind
        /\ n = fwd'[o].slot - Len(main'.objects)
    BY <1>0 DEF InCopy
  <2> QED BY <2>2, <2>3, <2>4 DEF ObjectCopied
<1>10. ASSUME NEW x \in DOMAIN fwd, x.kind = "object"
       PROVE  UnderWay(x)' \/ ObjectCopied(x)'
  <2>1. CASE x = o
    BY <1>9, <2>1
  <2>2. CASE x # o /\ UnderWay(x)
    BY <1>8, <2>2
  <2>3. CASE x # o /\ ~UnderWay(x)
    <3>1. ObjectCopied(x)
      BY <1>0, <1>10, <2>3 DEF CopyInv, ForwardedIsCopied
    <3> PICK m : m = fwd[x].slot - Len(main.objects)
      OBVIOUS
    <3>2. m # n
      <4>1. /\ fwd[x] \in Refs /\ fwd[x].at = "main" /\ fwd[x].kind = "object"
            /\ fwd[o] \in Refs /\ fwd[o].at = "main" /\ fwd[o].kind = "object"
        BY <1>0, <1>3, <1>10, ForwardedTo
      <4>2. fwd[x] # fwd[o]
        BY <1>0, <1>3, <1>10, <2>3 DEF CopyInv, ForwardedApart
      <4>3. fwd[x].slot # fwd[o].slot
        BY <4>1, <4>2 DEF Refs
      <4>4. fwd[x].slot \in Nat /\ fwd[o].slot \in Nat /\ Len(main.objects) \in Nat
        BY <1>2, <4>1, HeapLens DEF Refs
      <4> QED BY <4>3, <4>4
    <3>3. pending'.objects[m] = pending.objects[m]
      <4>1. m \in 1..Len(pending.objects)
        BY <1>0, <1>10, ForwardedTo
      <4> QED BY <1>2, <1>6, <3>2, <4>1
    <3> QED BY <1>0, <1>7, <3>1, <3>3, ObjectStays
  <2> QED BY <2>1, <2>2, <2>3
<1> QED BY <1>0, <1>7, <1>8, <1>10, CopyInvNext

LEMMA FillShapeCopies ==
    ASSUME HeapInv, GraphInv, FillShape
    PROVE  CopyInv'
<1>0. /\ phase = "copy" /\ Copied /\ Top.of.kind = "shape" /\ Return
      /\ InCopy /\ CopyInv
      /\ pending' = [pending EXCEPT !.shapes = Including(main.shapes, @, Top.done)]
  BY DEF FillShape, GraphInv
<1> PICK o, done, slot, y, new :
        /\ o = Top.of
        /\ done = Top.done
        /\ slot = Slot(main.shapes, pending.shapes, done)
        /\ y = Ref("shape", "main", slot)
        /\ new = Including(main.shapes, pending.shapes, done)
  OBVIOUS
<1>1. fwd' = Extend(fwd, o, y)
  BY DEF FillShape
<1>2. /\ main \in Heaps /\ work \in Heaps /\ pending \in Heaps
      /\ main.shapes \in Seq(Seq(Refs)) /\ pending.shapes \in Seq(Seq(Refs))
      /\ pending.objects \in Seq(Objects) /\ pending.texts \in Seq(Texts)
  BY HeapParts DEF HeapInv, TypeOK
<1>3. /\ o \in Known /\ o.kind = "shape" /\ o.at = "work" /\ o # Imm
      /\ o \notin DOMAIN fwd /\ done \in Seq(Coming)
  <2>1. Top \in GoodFrames /\ Len(path) \in DOMAIN path /\ done \in Seq(Coming)
    BY <1>0, TopGood
  <2> QED BY <1>0, <2>1 DEF GoodFrames, Imm, Ref, Top, CopyInv, ShapesOnTop
<1>4. done \in Seq(Refs)
  <2>1. Coming \subseteq Refs
    BY DEF Coming
  <2> QED BY <1>3, <2>1, SeqLarger
<1>5. new \in Seq(Seq(Refs)) /\ IsPrefixOf(pending.shapes, new)
      /\ EntryOf(main.shapes, new, slot) = done
  <2>1. Fresh(main.shapes, pending.shapes)
    BY <1>0 DEF HeapInv, PendingOK
  <2> QED BY <1>2, <1>4, <2>1, IncludingFresh, IncludingHolds
<1>6. /\ pending' \in Heaps
      /\ pending'.objects = pending.objects /\ pending'.texts = pending.texts
      /\ pending'.shapes = new
  BY <1>0, <1>2, <1>5 DEF Heaps
<1>7. OnlyAdds /\ fwd'[o] = y /\ DOMAIN fwd' = DOMAIN fwd \cup {o}
  BY <1>0, <1>1, <1>2, <1>3, <1>5, <1>6, OneForwarded, PrefixOfItself
<1>8. FramesCopied' /\ ShapesOnTop' /\ \A z : UnderWay(z) /\ z # o => UnderWay(z)'
  BY <1>0, <1>3, <1>7, ReturnCopies
<1>9. IsPrefixOf(pending.objects, pending'.objects)
  BY <1>2, <1>6, PrefixOfItself
<1>10. \A x \in DOMAIN fwd : x.kind = "object" => UnderWay(x)' \/ ObjectCopied(x)'
  BY <1>0, <1>3, <1>7, <1>8, <1>9, ObjectsStay DEF CopyInv, ForwardedIsCopied
<1>11. ShapeCopied(o)'
  <2> PICK s : s = work.shapes[o.slot]
    OBVIOUS
  <2>1. done = ImageOf(s) /\ AllSettled(s)
    BY <1>0, <1>3, DoneIsImage DEF Fields
  <2>2. AllSettled(s)' /\ ImageOf(s)' = ImageOf(s)
    BY <1>0, <1>7, <2>1, ImagesOfStay DEF CopyInv
  <2>3. /\ s = work'.shapes[o.slot] /\ main'.shapes = main.shapes
        /\ fwd'[o].slot = slot
    BY <1>0, <1>7 DEF InCopy, Ref
  <2> QED BY <1>5, <1>6, <2>1, <2>2, <2>3 DEF ShapeCopied
<1>12. \A x \in DOMAIN fwd : x.kind = "object" => fwd'[o] # fwd[x]
  <2>1. y.kind = "shape"
    BY DEF Ref
  <2> QED BY <1>0, <1>7, <2>1, ForwardedTo
<1> QED BY <1>0, <1>3, <1>7, <1>8, <1>10, <1>11, <1>12, CopyInvNext

\* The copy starts with nothing copied.
LEMMA StartCopyCopies ==
    ASSUME StartCopy
    PROVE  CopyInv'
<1>1. DOMAIN fwd' = {}
  BY DEF StartCopy, NothingForwarded
<1> PICK f : f = [of |-> Imm, done |-> <<>>]
  OBVIOUS
<1>2. path' = <<f>> /\ f.of.kind = "imm" /\ f.done = <<>>
  BY DEF StartCopy, Imm, Ref
<1>3. FrameCopied(f)'
  BY <1>2 DEF FrameCopied
<1>4. FramesCopied'
  <2>1. \A k \in DOMAIN path' : \A g : g = path'[k] => FrameCopied(g)'
    BY <1>2, <1>3
  <2> QED BY <2>1, FramesNext
<1>5. ShapesOnTop'
  BY <1>2 DEF ShapesOnTop
<1> QED BY <1>1, <1>4, <1>5
        DEF CopyInv, ForwardedFromWork, ForwardedIsCopied, ForwardedApart

\* The shapes of the Work heap are made of texts.
LEMMA ShapesStayOfTexts ==
    ASSUME HeapInv, ShapesOfTexts, [Next]_vars
    PROVE  ShapesOfTexts'
<1>1. work \in Heaps
  BY DEF HeapInv, TypeOK
<1>2. CASE InternShape
  <2>1. PICK fields \in SeqsUpTo(TextIds, MaxFields) :
            work' = [work EXCEPT !.shapes = Append(@, fields)]
    BY <1>2 DEF InternShape
  <2>2. PICK n \in 0..MaxFields : fields \in [1..n -> TextIds]
    BY DEF SeqsUpTo
  <2>3. \A j \in DOMAIN fields : fields[j].kind = "text"
    BY <2>2 DEF TextIds
  <2> PICK s, s2 : s = work.shapes /\ s2 = work'.shapes
    OBVIOUS
  <2>4. s \in Seq(Seq(Refs)) /\ s2 = Append(s, fields)
    BY <1>1, <2>1, HeapParts DEF Heaps
  <2>5. ASSUME NEW i \in DOMAIN s2
        PROVE  (i \in DOMAIN s /\ s2[i] = s[i]) \/ s2[i] = fields
    BY <2>4, <2>5
  <2> QED BY <2>3, <2>5 DEF ShapesOfTexts
<1>3. CASE ~InternShape
  <2>1. ASSUME NEW object, AddObject(object)
        PROVE  work'.shapes = work.shapes
    BY <1>1, <2>1 DEF AddObject, Heaps
  <2>2. ASSUME NEW i, NEW object, SetObject(i, object)
        PROVE  work'.shapes = work.shapes
    BY <1>1, <2>2 DEF SetObject, Heaps
  <2>3. ASSUME NEW t, InternText(t)
        PROVE  work'.shapes = work.shapes
    BY <1>1, <2>3 DEF InternText, Heaps
  <2>4. work' = EmptyHeap \/ work'.shapes = work.shapes
    <3>1. CASE Evaluate
      BY <1>3, <2>1, <2>2, <2>3, <3>1 DEF Evaluate, StartRun, Allocate, AllocateDict,
         Reserve, MakeUpLink, Discard, Initialize, InitializeUpLink
    <3>2. CASE Publish
      BY <3>2 DEF Publish, CopyMain, CopyForwarded, CopyText, EnterObject, FillObject,
         EnterShape, FillShape, Commit, Fail, InCopy, EndRun
    <3> QED BY <3>1, <3>2 DEF Next, StartCopy, vars
  <2> QED BY <2>4 DEF ShapesOfTexts, EmptyHeap
<1> QED BY <1>2, <1>3

\* Nothing else looks at a copy.
LEMMA StutterCopies ==
    ASSUME HeapInv, CopyInv, phase = "copy", UNCHANGED vars
    PROVE  CopyInv'
<1>1. InCopy /\ UNCHANGED <<pending, fwd, path>>
  BY DEF vars, InCopy
<1>2. OnlyAdds /\ IsPrefixOf(pending.objects, pending'.objects)
  BY <1>1, NothingAdded
<1>3. FramesCopied'
  <2>1. ASSUME NEW k \in DOMAIN path, NEW f, f = path[k]
        PROVE  FrameCopied(f)'
    BY <1>2, <2>1, FrameStays DEF CopyInv, FramesCopied
  <2>2. \A k \in DOMAIN path' : \A f : f = path'[k] => FrameCopied(f)'
    BY <1>1, <2>1
  <2> QED BY <2>2, FramesNext
<1>4. ShapesOnTop' /\ \A x : UnderWay(x) => UnderWay(x)'
  BY <1>1 DEF CopyInv, ShapesOnTop, UnderWay
<1>5. \A x \in DOMAIN fwd : x.kind = "object" => UnderWay(x)' \/ ObjectCopied(x)'
  BY <1>2, <1>4, ObjectsStay DEF CopyInv, ForwardedIsCopied
<1> QED BY <1>1, <1>2, <1>3, <1>4, <1>5, CopyInvNext

LEMMA GraphKeeps == HeapInv /\ GraphInv /\ [Next]_vars => GraphInv'
<1> SUFFICES ASSUME HeapInv, GraphInv, [Next]_vars PROVE GraphInv'
  OBVIOUS
<1>1. ShapesOfTexts'
  BY ShapesStayOfTexts DEF GraphInv
<1>2. ASSUME phase' = "copy" PROVE CopyInv'
  <2>1. CASE Evaluate
    BY <1>2, <2>1 DEF Evaluate, StartRun, Allocate, AllocateDict, Reserve, MakeUpLink,
       InternShape, Discard, Initialize, InitializeUpLink, InternText, AddObject, SetObject
  <2>2. CASE StartCopy
    BY <2>2, StartCopyCopies
  <2>3. CASE Publish
    <3>1. ~Commit /\ ~Fail
      BY <1>2 DEF Commit, Fail, EndRun
    <3> QED BY <2>3, <3>1, CopyMainCopies, CopyForwardedCopies, CopyTextCopies,
               EnterObjectCopies, FillObjectCopies, EnterShapeCopies, FillShapeCopies
            DEF Publish
  <2>4. CASE UNCHANGED vars
    <3>1. phase = "copy"
      BY <1>2, <2>4 DEF vars
    <3> QED BY <2>4, <3>1, StutterCopies DEF GraphInv
  <2> QED BY <2>1, <2>2, <2>3, <2>4 DEF Next
<1> QED BY <1>1, <1>2 DEF GraphInv

THEOREM GraphInvHolds == Spec => []GraphInv
<1>1. Init => GraphInv
  BY DEF Init, GraphInv, ShapesOfTexts, EmptyHeap
<1> QED BY <1>1, GraphKeeps, HeapInvHolds, PTL DEF Spec

\* A commit puts every copy where the handle forwards to.
LEMMA CommitCopies ==
    ASSUME HeapInv, GraphInv, Commit
    PROVE  /\ roots' = Append(roots, Image(root))
           /\ \A x \in DOMAIN fwd : SameInMain(main', x)
<1>1. phase = "copy" /\ CopyInv /\ Copied /\ Len(path) = 1
  BY DEF Commit, CopyDone, GraphInv
<1>2. \A k \in DOMAIN path : path[k].of = Imm
  BY <1>1 DEF HeapInv, FramesOK
<1>3. Top.of = Imm
  BY <1>1, <1>2, TopGood DEF Top
<1>4. Top.done[1] = Image(root)
  <2>1. Fields(Top.of) = <<root>>
    BY <1>3 DEF Fields, Imm, Ref
  <2>2. Top.done = ImageOf(<<root>>)
    BY <1>1, <2>1, DoneIsImage
  <2> QED BY <2>2 DEF ImageOf
<1>5. /\ main'.objects = main.objects \o pending.objects
      /\ main'.texts = main.texts \o pending.texts
      /\ main'.shapes = main.shapes \o pending.shapes
      /\ roots' = Append(roots, Top.done[1])
  BY CommitAppends
<1>6. ASSUME NEW x \in DOMAIN fwd PROVE SameInMain(main', x)
  <2>1. x.at = "work" /\ x \in Known
    BY <1>1 DEF CopyInv, ForwardedFromWork
  <2>2. x.kind \in {"object", "text", "shape"}
    BY <2>1 DEF Known, Refs, Kinds, Visible, Resolves
  <2>3. CASE x.kind = "object"
    <3>1. ~UnderWay(x)
      BY <1>2, <2>1 DEF UnderWay, Imm, Ref
    <3>2. ObjectCopied(x)
      BY <1>1, <2>3, <3>1 DEF CopyInv, ForwardedIsCopied
    <3> PICK a, b, n, m :
          /\ a = main.objects /\ b = pending.objects
          /\ n = fwd[x].slot /\ m = n - Len(a)
      OBVIOUS
    <3>3. a \in Seq(Objects) /\ b \in Seq(Objects)
      BY HeapParts DEF HeapInv, TypeOK
    <3>4. n \in Nat /\ m \in 1..Len(b)
      BY <1>1, <2>3, ForwardedTo
    <3>5. (a \o b)[n] = b[m]
      <4>1. Len(a) \in Nat /\ Len(b) \in Nat
        BY <3>3
      <4>2. n \in 1..(Len(a) + Len(b)) /\ n > Len(a)
        <5>1. \A i, j, k \in Nat : k - i \in 1..j => k \in 1..(i + j) /\ k > i
          OBVIOUS
        <5>2. n - Len(a) \in 1..Len(b)
          BY <3>4
        <5> QED BY ONLY <3>4, <4>1, <5>1, <5>2
      <4> QED BY <3>3, <4>2
    <3> QED BY <1>5, <2>3, <3>2, <3>5 DEF SameInMain, ObjectCopied
  <2>4. CASE x.kind = "text"
    BY <1>1, <1>5, <2>4 DEF SameInMain, CopyInv, ForwardedIsCopied, TextCopied, EntryOf
  <2>5. CASE x.kind = "shape"
    BY <1>1, <1>5, <2>5 DEF SameInMain, CopyInv, ForwardedIsCopied, ShapeCopied, EntryOf
  <2> QED BY <2>2, <2>3, <2>4, <2>5
<1> QED BY <1>4, <1>5, <1>6

\* What publish_root adds to Main is an exact image of what the root reaches:
\* the same objects, texts and shapes, shared and cyclic as they were.
THEOREM Publishes == Spec => PublishesTheGraph
<1> DEFINE Published ==
        main' # main \/ roots' # roots =>
            /\ roots' = Append(roots, Image(root))
            /\ \A x \in DOMAIN fwd : SameInMain(main', x)
            /\ \A x, y \in DOMAIN fwd :
                x.kind = "object" /\ fwd[x] = fwd[y] => x = y
<1>1. HeapInv /\ GraphInv /\ [Next]_vars => [Published]_vars
  <2> SUFFICES ASSUME HeapInv, GraphInv, Next PROVE Published
    OBVIOUS
  <2>1. CASE Commit
    <3>1. ForwardedApart
      BY <2>1 DEF GraphInv, CopyInv, Commit, CopyDone
    <3> QED BY <2>1, <3>1, CommitCopies DEF ForwardedApart
  <2>2. CASE ~Commit
    <3>1. UNCHANGED <<main, roots>>
      BY <2>2 DEF Next, Evaluate, Publish, StartRun, Allocate, AllocateDict, Reserve,
         MakeUpLink, InternShape, Discard, Initialize, InitializeUpLink, InternText,
         AddObject, SetObject, StartCopy, CopyMain, CopyForwarded, CopyText,
         EnterObject, FillObject, EnterShape, FillShape, Fail, InCopy
    <3> QED BY <3>1
  <2> QED BY <2>1, <2>2
<1> QED BY <1>1, HeapInvHolds, GraphInvHolds, PTL DEF Spec, PublishesTheGraph

=============================================================================
