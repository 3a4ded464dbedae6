-------------------------------- MODULE Heap --------------------------------
(***************************************************************************)
(* telora-core: the two heaps of an evaluation (heap.rs).                  *)
(*                                                                         *)
(* Main is shared and persistent; an evaluation allocates in a Work heap   *)
(* of its own and, when it ends well, publish_root copies what its root    *)
(* reaches into Main.  The copy is a depth-first recursion over a graph    *)
(* that may be cyclic (up-links, reserved prototypes); here it is a stack  *)
(* machine, one step per value copied, whose frames are the calls of       *)
(* copy_object and copy_shape that are under way.                          *)
(*                                                                         *)
(* What an object is made of is abstracted to the values it refers to, in  *)
(* the order copy_object_data visits them; a dict's first reference is its *)
(* shape.  Source locations and the u32 limit of slots are left out.       *)
(***************************************************************************)
EXTENDS Integers, Sequences

CONSTANTS
    Texts,        \* what a short string or an atom may say
    Allocated,    \* the kinds of plain objects a program allocates
    MaxSize,      \* bound on the size of the two heaps together
    MaxFields,    \* bound on the references of an object or a shape
    MaxRuns       \* bound on the evaluations

ASSUME BoundsAssumption ==
    /\ Allocated \subseteq {"data", "closure"}
    /\ {MaxSize, MaxFields, MaxRuns} \subseteq Nat

VARIABLES
    main,     \* the Main heap
    work,     \* the Work heap of the evaluation under way
    roots,    \* the PersistentValues handed out so far
    runs,     \* evaluations started
    phase,    \* "idle", "run" (evaluating) or "copy" (inside publish_root)
    root,     \* the value being published
    pending,  \* PendingCopy: objects, text and shapes to be added to Main
    fwd,      \* PendingCopy: objects_forwarded, text_forwarded, shapes_forwarded
    path      \* the calls of copy_object and copy_shape under way

copying == <<root, pending, fwd, path>>
vars == <<main, work, roots, runs, phase, root, pending, fwd, path>>

Kinds == {"imm", "object", "text", "shape"}
Refs == [kind : Kinds, at : {"main", "work"}, slot : Nat \ {0}]
Ref(k, h, i) == [kind |-> k, at |-> h, slot |-> i]

\* Int, Float and BuiltinAtom values live in no heap and are copied as they are.
Imm == Ref("imm", "main", 1)

ObjectKinds == {"reserved", "uplink", "data", "closure"}
Objects == [kind : ObjectKinds, fields : Seq(Refs)]
Object(k, fields) == [kind |-> k, fields |-> fields]
Reserved == Object("reserved", <<>>)

Heaps == [objects : Seq(Objects), texts : Seq(Texts), shapes : Seq(Seq(Refs))]
EmptyHeap == [objects |-> <<>>, texts |-> <<>>, shapes |-> <<>>]

Elements(s) == {s[i] : i \in DOMAIN s}
NothingForwarded == [x \in {} |-> Imm]
Extend(f, x, y) == [z \in DOMAIN f \cup {x} |-> IF z = x THEN y ELSE f[z]]

Frames == [of : Refs, done : Seq(Refs)]

TypeOK ==
    /\ main \in Heaps
    /\ work \in Heaps
    /\ roots \in Seq(Refs)
    /\ runs \in Nat
    /\ phase \in {"idle", "run", "copy"}
    /\ root \in Refs
    /\ pending \in Heaps
    /\ DOMAIN fwd \subseteq Refs
    /\ \A x \in DOMAIN fwd : fwd[x] \in Refs
    /\ path \in Seq(Frames)

Init ==
    /\ main = EmptyHeap
    /\ work = EmptyHeap
    /\ roots = <<>>
    /\ runs = 0
    /\ phase = "idle"
    /\ root = Imm
    /\ pending = EmptyHeap
    /\ fwd = NothingForwarded
    /\ path = <<>>

----------------------------------------------------------------------------
(* Evaluation: what a program may do to its Work heap.                     *)

\* A view: references to the objects and texts of both heaps.
RefsInto(name, h) ==
    {Ref("object", name, i) : i \in 1..Len(h.objects)}
        \cup {Ref("text", name, i) : i \in 1..Len(h.texts)}
Values == {Imm} \cup RefsInto("main", main) \cup RefsInto("work", work)
TextIds == {x \in Values : x.kind = "text"}

SeqsUpTo(S, n) == UNION {[1..k -> S] : k \in 0..n}

StartRun ==
    /\ phase = "idle"
    /\ runs < MaxRuns
    /\ runs' = runs + 1
    /\ work' = EmptyHeap
    /\ phase' = "run"
    /\ UNCHANGED <<main, roots, copying>>

\* Bound: an object weighs twice what a text or a shape does.
SizeOf(h) == 2 * Len(h.objects) + Len(h.texts) + Len(h.shapes)
Room(weight) == SizeOf(main) + SizeOf(work) + weight <= MaxSize

AddObject(object) ==
    /\ phase = "run"
    /\ Room(2)
    /\ work' = [work EXCEPT !.objects = Append(@, object)]
    /\ UNCHANGED <<main, roots, runs, phase, copying>>

\* The first reference of a closure is its prototype.
Allocate ==
    \E k \in Allocated, fields \in SeqsUpTo(Values, MaxFields) :
        /\ k = "closure" => fields # <<>> /\ fields[1].kind = "object"
        /\ AddObject(Object(k, fields))

\* A dict has one value for each field of its shape, which is of the same heap.
AllocateDict ==
    \E i \in DOMAIN work.shapes :
        \E values \in [1..Len(work.shapes[i]) -> Values] :
            AddObject(Object("data", <<Ref("shape", "work", i)>> \o values))

\* link_bytecode reserves the slot of a prototype before its constants exist.
Reserve == AddObject(Reserved)

MakeUpLink == AddObject(Object("uplink", <<>>))

SetObject(i, object) ==
    /\ phase = "run"
    /\ work' = [work EXCEPT !.objects[i] = object]
    /\ UNCHANGED <<main, roots, runs, phase, copying>>

Initialize(i) ==
    /\ work.objects[i].kind = "reserved"
    /\ \E fields \in SeqsUpTo(Values, MaxFields) : SetObject(i, Object("data", fields))

InitializeUpLink(i) ==
    /\ work.objects[i].kind = "uplink"
    /\ work.objects[i].fields = <<>>
    /\ \E v \in Values : SetObject(i, Object("uplink", <<v>>))

\* string and atom look in Main first; intern, used for field names, does not.
InternText(t) ==
    /\ phase = "run"
    /\ t \notin Elements(work.texts)
    /\ Room(1)
    /\ work' = [work EXCEPT !.texts = Append(@, t)]
    /\ UNCHANGED <<main, roots, runs, phase, copying>>

\* Mutant: the shape is added whether or not it is there.
InternShapeAgain ==
    /\ phase = "run"
    /\ Room(1)
    /\ \E fields \in SeqsUpTo(TextIds, MaxFields) :
        work' = [work EXCEPT !.shapes = Append(@, fields)]
    /\ UNCHANGED <<main, roots, runs, phase, copying>>

InternShape ==
    /\ phase = "run"
    /\ Room(1)
    /\ \E fields \in SeqsUpTo(TextIds, MaxFields) :
        /\ fields \notin Elements(work.shapes)
        /\ work' = [work EXCEPT !.shapes = Append(@, fields)]
    /\ UNCHANGED <<main, roots, runs, phase, copying>>

\* The evaluation fails, or nobody wants its result: the WorkWorld is dropped.
Discard ==
    /\ phase = "run"
    /\ phase' = "idle"
    /\ work' = EmptyHeap
    /\ UNCHANGED <<main, roots, runs, copying>>

Evaluate ==
    \/ StartRun \/ Allocate \/ AllocateDict \/ Reserve \/ MakeUpLink
    \/ InternShape \/ Discard
    \/ \E i \in DOMAIN work.objects : Initialize(i) \/ InitializeUpLink(i)
    \/ \E t \in Texts : InternText(t)

----------------------------------------------------------------------------
(* publish_root: the copy, then all of it or nothing into Main.            *)

StartCopy ==
    /\ phase = "run"
    /\ \E v \in Values :
        /\ root' = v
        /\ path' = <<[of |-> Imm, done |-> <<>>]>>
    /\ pending' = EmptyHeap
    /\ fwd' = NothingForwarded
    /\ phase' = "copy"
    /\ UNCHANGED <<main, work, roots, runs>>

\* The frame of copy_roots is "of" Imm; the others are of a Work object or shape.
Fields(x) ==
    IF x.kind = "object" THEN work.objects[x.slot].fields
    ELSE IF x.kind = "shape" THEN work.shapes[x.slot]
    ELSE <<root>>

Top == path[Len(path)]
Copied == Len(Top.done) = Len(Fields(Top.of))
Wanted == Fields(Top.of)[Len(Top.done) + 1]   \* the value to copy now

Copying == phase = "copy" /\ ~Copied

\* The call under way gets the copy of its next value.
Take(x) ==
    path' = [path EXCEPT ![Len(path)].done = Append(@, x)]

InCopy == UNCHANGED <<main, work, roots, runs, phase, root>>

\* Immediates, and what is in Main already.
CopyMain ==
    /\ Copying
    /\ Wanted.at = "main"
    /\ Take(Wanted)
    /\ InCopy /\ UNCHANGED <<pending, fwd>>

CopyForwarded ==
    /\ Copying
    /\ Wanted \in DOMAIN fwd
    /\ Take(fwd[Wanted])
    /\ InCopy /\ UNCHANGED <<pending, fwd>>

IndexOf(s, x) == CHOOSE i \in DOMAIN s : s[i] = x

\* Mutant: pending entries are numbered from one.
SlotWithoutBase(table, more, x) ==
    IF x \in Elements(table) THEN IndexOf(table, x)
    ELSE IF x \in Elements(more) THEN IndexOf(more, x)
    ELSE Len(more) + 1

\* Where Main has x, or will have it once the copy is committed.
Slot(table, more, x) ==
    IF x \in Elements(table) THEN IndexOf(table, x)
    ELSE IF x \in Elements(more) THEN Len(table) + IndexOf(more, x)
    ELSE Len(table) + Len(more) + 1

Including(table, more, x) ==
    IF x \in Elements(table) \cup Elements(more) THEN more ELSE Append(more, x)

CopyText ==
    /\ Copying
    /\ Wanted.at = "work"
    /\ Wanted.kind = "text"
    /\ Wanted \notin DOMAIN fwd
    /\ LET text == work.texts[Wanted.slot]
           copied == Ref("text", "main", Slot(main.texts, pending.texts, text))
       IN  /\ pending' = [pending EXCEPT !.texts = Including(main.texts, @, text)]
           /\ fwd' = Extend(fwd, Wanted, copied)
           /\ Take(copied)
    /\ InCopy

Call(x) == path' = Append(path, [of |-> x, done |-> <<>>])
Return == path' = SubSeq(path, 1, Len(path) - 1)

Uncopied(object) ==
    object.kind = "reserved" \/ (object.kind = "uplink" /\ object.fields = <<>>)

\* The slot is taken and the handle forwarded before the fields are copied.
EnterObject ==
    /\ Copying
    /\ Wanted.at = "work"
    /\ Wanted.kind = "object"
    /\ Wanted \notin DOMAIN fwd
    /\ ~Uncopied(work.objects[Wanted.slot])
    /\ fwd' = Extend(fwd, Wanted,
           Ref("object", "main", Len(main.objects) + Len(pending.objects) + 1))
    /\ pending' = [pending EXCEPT !.objects = Append(@, Reserved)]
    /\ Call(Wanted)
    /\ InCopy

\* All fields are copied: the object goes into the slot taken for it, and
\* the caller finds the handle forwarded.
FillObject ==
    /\ phase = "copy" /\ Copied
    /\ Top.of.kind = "object"
    /\ pending' = [pending EXCEPT !.objects[fwd[Top.of].slot - Len(main.objects)] =
           Object(work.objects[Top.of.slot].kind, Top.done)]
    /\ Return
    /\ InCopy /\ UNCHANGED fwd

EnterShape ==
    /\ Copying
    /\ Wanted.at = "work"
    /\ Wanted.kind = "shape"
    /\ Wanted \notin DOMAIN fwd
    /\ Call(Wanted)
    /\ InCopy /\ UNCHANGED <<pending, fwd>>

FillShape ==
    /\ phase = "copy" /\ Copied
    /\ Top.of.kind = "shape"
    /\ pending' = [pending EXCEPT !.shapes = Including(main.shapes, @, Top.done)]
    /\ fwd' = Extend(fwd, Top.of,
           Ref("shape", "main", Slot(main.shapes, pending.shapes, Top.done)))
    /\ Return
    /\ InCopy

\* validate looks for slots never filled and for references into Work; it
\* does not look at the prototype of a closure.
Foreign(object) ==
    \/ object.kind = "reserved"
    \/ object.kind = "uplink" /\ object.fields = <<>>
    \/ \E i \in DOMAIN object.fields :
        /\ object.fields[i].at # "main"
        /\ ~(object.kind = "closure" /\ i = 1)

Valid == \A i \in DOMAIN pending.objects : ~Foreign(pending.objects[i])

CopyDone == phase = "copy" /\ Len(path) = 1 /\ Copied

\* Mutant: the new entries go to the front.
PrependNew(table, new) == new \o table

\* TextTable.insert and intern_shape add what the table does not have yet.
WithNew(table, new) ==
    LET fresh == {i \in DOMAIN new : /\ new[i] \notin Elements(table)
                                    /\ \A j \in 1..i-1 : new[j] # new[i]}
        kept  == SelectSeq([i \in DOMAIN new |-> i], LAMBDA i : i \in fresh)
    IN  table \o (IF fresh = DOMAIN new THEN new
                  ELSE [j \in DOMAIN kept |-> new[kept[j]]])

\* The WorkWorld is consumed, whether the copy is committed or not.
EndRun ==
    /\ phase' = "idle"
    /\ work' = EmptyHeap
    /\ root' = Imm
    /\ pending' = EmptyHeap
    /\ fwd' = NothingForwarded
    /\ path' = <<>>
    /\ UNCHANGED runs

\* Mutant: the pending shapes are dropped.
CommitWithoutShapes ==
    /\ CopyDone
    /\ Valid
    /\ main' = [objects |-> main.objects \o pending.objects,
                texts   |-> WithNew(main.texts, pending.texts),
                shapes  |-> main.shapes]
    /\ roots' = Append(roots, Top.done[1])
    /\ EndRun

Commit ==
    /\ CopyDone
    /\ Valid
    /\ main' = [objects |-> main.objects \o pending.objects,
                texts   |-> WithNew(main.texts, pending.texts),
                shapes  |-> WithNew(main.shapes, pending.shapes)]
    /\ roots' = Append(roots, Top.done[1])
    /\ EndRun

\* Mutant: an object under way is reported as never initialised.
RefuseReserved ==
    /\ Copying
    /\ Wanted.at = "work"
    /\ Wanted.kind = "object"
    /\ Wanted \notin DOMAIN fwd
    /\ work.objects[Wanted.slot].kind = "reserved"

\* copy_object and copy_object_data refuse what is not initialised.
Refused ==
    /\ Copying
    /\ Wanted.at = "work"
    /\ Wanted.kind = "object"
    /\ Wanted \notin DOMAIN fwd
    /\ Uncopied(work.objects[Wanted.slot])

\* The validation never fails, but the code asks.
Fail ==
    /\ phase = "copy"
    /\ IF Copied THEN CopyDone /\ ~Valid ELSE Refused
    /\ UNCHANGED <<main, roots>>
    /\ EndRun

Publish ==
    \/ CopyMain \/ CopyForwarded \/ CopyText
    \/ EnterObject \/ FillObject \/ EnterShape \/ FillShape
    \/ Commit \/ Fail

Next == Evaluate \/ StartCopy \/ Publish

Spec == Init /\ [][Next]_vars

\* publish_root is one synchronous call: once entered it runs to its end.
FairSpec == Spec /\ WF_vars(Publish)

----------------------------------------------------------------------------
(* Properties.                                                             *)

\* A slot x may name, in a heap of that many objects, texts and shapes.
Fits(x, objects, texts, shapes) ==
    /\ x.kind = "object" => x.slot <= objects
    /\ x.kind = "text" => x.slot <= texts
    /\ x.kind = "shape" => x.slot <= shapes

Resolves(h, x) ==
    x.at = "main" /\ Fits(x, Len(h.objects), Len(h.texts), Len(h.shapes))

Initialized(object) == ~Foreign(object)

\* Whatever was published, Main refers only to itself and every reference
\* resolves, every object is initialised, and every handle given out holds:
\* publish_root commits a closed graph or nothing (heap.rs, validate, commit).
MainSelfContained ==
    /\ \A i \in DOMAIN main.objects :
        /\ Initialized(main.objects[i])
        /\ \A j \in DOMAIN main.objects[i].fields :
            Resolves(main, main.objects[i].fields[j])
    /\ \A i \in DOMAIN main.shapes : \A j \in DOMAIN main.shapes[i] :
        Resolves(main, main.shapes[i][j])
    /\ \A i \in DOMAIN roots : Resolves(main, roots[i])

Injective(s) == \A i, j \in DOMAIN s : s[i] = s[j] => i = j

\* No text and no shape has two slots in one heap: equality and dict lookup
\* compare slots of one storage without looking at the text (heap.rs,
\* values_equal_with, dict_get).
InternedOnce ==
    \A h \in {main, work} : Injective(h.texts) /\ Injective(h.shapes)

\* What an evaluation can reach resolves in one of the two heaps.
Visible(x) ==
    \/ Resolves(main, x)
    \/ /\ x.at = "work"
       /\ x.kind # "imm"
       /\ Fits(x, Len(work.objects), Len(work.texts), Len(work.shapes))

WorkVisible ==
    /\ \A i \in DOMAIN work.objects : \A j \in DOMAIN work.objects[i].fields :
        Visible(work.objects[i].fields[j])
    /\ \A i \in DOMAIN work.shapes : \A j \in DOMAIN work.shapes[i] :
        Visible(work.shapes[i][j])

Known == {x \in Refs : Visible(x)}

\* What is copied resolves in Main once all that is pending is added to it.
Coming == {x \in Refs :
    /\ x.at = "main"
    /\ Fits(x, Len(main.objects) + Len(pending.objects),
               Len(main.texts) + Len(pending.texts),
               Len(main.shapes) + Len(pending.shapes))}

Fresh(table, new) ==
    /\ Injective(new)
    /\ \A i \in DOMAIN table, j \in DOMAIN new : table[i] # new[j]

GoodFrames == {f \in [of : Refs, done : Seq(Coming)] :
    /\ f.of # Imm => /\ f.of \in Known
                     /\ f.of.at = "work"
                     /\ f.of.kind \in {"object", "shape"}
    /\ f.of.kind = "object" => f.of \in DOMAIN fwd
    /\ Len(f.done) <= Len(Fields(f.of))}

FramesOK ==
    /\ path # <<>>
    /\ path \in Seq(GoodFrames)
    /\ \A k \in DOMAIN path : path[k].of = Imm <=> k = 1

ForwardingOK == \A x \in DOMAIN fwd :
    /\ fwd[x] \in Coming
    /\ fwd[x].kind = x.kind
    /\ x.kind = "object" => fwd[x].slot > Len(main.objects)

PendingOK ==
    /\ pending.objects \in Seq([kind : ObjectKinds, fields : Seq(Coming)])
    /\ pending.shapes \in Seq(Seq(Coming))
    /\ Fresh(main.texts, pending.texts)
    /\ Fresh(main.shapes, pending.shapes)

\* The inductive invariant: the copy only ever holds references that resolve
\* in Main plus what is pending, and foretells slots nobody else will take.
HeapInv ==
    /\ TypeOK
    /\ MainSelfContained
    /\ WorkVisible
    /\ phase = "copy" => root \in Known /\ FramesOK /\ ForwardingOK /\ PendingOK

IsPrefixOf(s, t) == Len(s) <= Len(t) /\ \A i \in DOMAIN s : t[i] = s[i]

\* Main only grows, and what a PersistentValue reaches never changes: cached
\* modules and running evaluations hold handles into Main (module.rs).
MainGrows ==
    [][ /\ IsPrefixOf(main.objects, main'.objects)
        /\ IsPrefixOf(main.texts, main'.texts)
        /\ IsPrefixOf(main.shapes, main'.shapes)
        /\ IsPrefixOf(roots, roots') ]_vars

Image(x) == IF x \in DOMAIN fwd THEN fwd[x] ELSE x
ImageOf(s) == [i \in DOMAIN s |-> Image(s[i])]

SameInMain(h, x) ==
    LET y == fwd[x]
    IN  CASE x.kind = "object" ->
               h.objects[y.slot] = Object(work.objects[x.slot].kind,
                                          ImageOf(work.objects[x.slot].fields))
          [] x.kind = "text"   -> h.texts[y.slot] = work.texts[x.slot]
          [] x.kind = "shape"  -> h.shapes[y.slot] = ImageOf(work.shapes[x.slot])

\* What a publication adds to Main is an exact image of the graph the root
\* reaches: same objects, texts and shapes, sharing and cycles kept, and the
\* slots foretold during the copy are the slots the commit fills.
PublishesTheGraph ==
    [][ main' # main \/ roots' # roots =>
        /\ roots' = Append(roots, Image(root))
        /\ \A x \in DOMAIN fwd : SameInMain(main', x)
        /\ \A x, y \in DOMAIN fwd :
            x.kind = "object" /\ fwd[x] = fwd[y] => x = y ]_vars

\* Every publication ends: it commits or it is refused.
PublicationEnds == phase = "copy" ~> phase = "idle"

=============================================================================
