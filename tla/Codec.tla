-------------------------------- MODULE Codec --------------------------------
(***************************************************************************)
(* std/codec (vm.rs): a value of a type to and from the values that JSON   *)
(* text can say, as the metadata of the type and its attributes tell.      *)
(*                                                                         *)
(* A value, a metadata node and a type are records with a kind.  A type is *)
(* its metadata without the WithAttributes wrappers, their attributes on   *)
(* the node itself; a variant of an enum is a payload (none or one) with   *)
(* attributes of its own.  A transformation ends well with a value, fails, *)
(* or asks for the answer of a predicate.                                  *)
(***************************************************************************)
EXTENDS Integers, Sequences, FiniteSets, SequencesExt, TLC

CONSTANTS
    Links,      \* up-link -> the metadata it stands for, or Pending
    Names,      \* all names in their order
    Camel,      \* name -> the same in lower camel case
    Pieces,     \* name -> its pieces at the dots
    Display,    \* value -> its text, for std/string.encode_by_display
    Answer(_, _) \* what a predicate answers to a value: "True", "False" or something else

IntValue(n) == [k |-> "Int", n |-> n]
FloatValue(halves) == [k |-> "Float", n |-> halves]
StringValue(s) == [k |-> "String", s |-> s]
AtomValue(tag) == [k |-> "Atom", tag |-> tag]
TaggedValue(tag, payload) == [k |-> "Tagged", tag |-> tag, payload |-> payload]
ArrayValue(items) == [k |-> "Array", items |-> items]
TupleValue(items) == [k |-> "Tuple", items |-> items]
DictValue(fields) == [k |-> "Dict", fields |-> fields]
FuncValue(name, arity) == [k |-> "Func", name |-> name, arity |-> arity]

None == AtomValue("None")
True == AtomValue("True")
False == AtomValue("False")

Pending == [kind |-> "Pending"]
Unit == [kind |-> "None", attributes |-> <<>>]

InOrder(names) == SelectSeq(Names, LAMBDA n : n \in names)

----------------------------------------------------------------------------
(* Types from metadata.                                                     *)

Invalid == [kind |-> "Invalid"]
IsInvalid(t) == t.kind = "Invalid"

Leaves == {"Any", "Type", "Dyn", "Int", "Float", "String", "Bytes", "Atom", "Function", "UpLink"}

\* Attributes around an enum's variant; those outside hide those inside.
RECURSIVE StripRuntimeAttributes(_)
StripRuntimeAttributes(m) ==
    IF m.kind # "WithAttributes" THEN [inner |-> m, attributes |-> <<>>]
    ELSE [StripRuntimeAttributes(m.inner) EXCEPT !.attributes = m.attributes @@ @]

RECURSIVE DecodeRuntimeType(_)

DecodeVariant(stripped) ==
    [payload |-> IF stripped.inner.kind = "None" THEN <<>> ELSE <<DecodeRuntimeType(stripped.inner)>>,
     attributes |-> stripped.attributes]

\* A type made of parts, if all of them are types.
Made(type, parts) == IF \E part \in parts : IsInvalid(part) THEN Invalid ELSE type

WithItem(m, item) == Made([m EXCEPT !.item = item], {item})
WithItems(m, items) == Made([m EXCEPT !.items = items], ToSet(items))
WithFields(m, fields) == Made([m EXCEPT !.fields = fields], {fields[n] : n \in DOMAIN fields})
WithVariants(m, variants) ==
    IF DOMAIN variants = {} THEN Invalid
    ELSE Made([m EXCEPT !.variants = variants], UNION {ToSet(variants[n].payload) : n \in DOMAIN variants})
WithAttributes(type, attributes) ==
    IF IsInvalid(type) THEN type ELSE [type EXCEPT !.attributes = attributes @@ @]

DecodeRuntimeType(m) ==
    CASE m.kind = "WithAttributes" -> WithAttributes(DecodeRuntimeType(m.inner), m.attributes)
      [] m.kind \in {"Array", "Dict", "Tagged"} -> WithItem(m, DecodeRuntimeType(m.item))
      [] m.kind \in {"Tuple", "Union"} ->
            WithItems(m, [i \in DOMAIN m.items |-> DecodeRuntimeType(m.items[i])])
      [] m.kind = "Struct" -> WithFields(m, [n \in DOMAIN m.fields |-> DecodeRuntimeType(m.fields[n])])
      [] m.kind = "Enum" ->
            WithVariants(m, [n \in DOMAIN m.variants |-> DecodeVariant(StripRuntimeAttributes(m.variants[n]))])
      [] m.kind = "Bound" -> [m EXCEPT !.kind = "Any"]
      [] m.kind = "NativeType" -> [m EXCEPT !.kind = "Opaque"]
      [] m.kind \in Leaves -> m
      [] OTHER -> Invalid

Parts(t) ==
    CASE t.kind \in {"Array", "Dict", "Tagged"} -> {t.item}
      [] t.kind \in {"Tuple", "Union"} -> ToSet(t.items)
      [] t.kind = "Struct" -> {t.fields[n] : n \in DOMAIN t.fields}
      [] t.kind = "Enum" -> UNION {ToSet(t.variants[n].payload) : n \in DOMAIN t.variants}
      [] OTHER -> {}      \* Invalid too

RECURSIVE LinksIn(_)
LinksIn(t) ==
    IF t.kind = "UpLink" THEN {t.link} ELSE UNION {LinksIn(part) : part \in Parts(t)}

\* What a link stands for, if it is there.
Target(l) == IF Links[l] = Pending THEN Invalid ELSE DecodeRuntimeType(Links[l])

\* The links a type reaches, as far as they can be followed.
RECURSIVE Reached(_)
Reached(links) ==
    LET Grown(more) == IF more = links THEN links ELSE Reached(more)
    IN  Grown(links \cup UNION {LinksIn(Target(l)) : l \in links})

GraphIsReady(t) == \A l \in Reached(LinksIn(t)) : ~IsInvalid(Target(l))

\* A link under a field, with the attributes of the field over those of its target.
ResolveOnce(t) == IF t.kind # "UpLink" THEN t ELSE WithAttributes(Target(t.link), t.attributes)

----------------------------------------------------------------------------
(* What the shapes and attributes of a type say.                            *)

Has(t, key) == key \in DOMAIN t.attributes
Says(t, key, value) == Has(t, key) => t.attributes[key] = value

\* The type inside an option, if it is one.
OptionItem(t) ==
    CASE t.kind = "Enum" ->
            IF DOMAIN t.variants = {"None", "Some"} /\ t.variants["None"].payload = <<>>
            THEN t.variants["Some"].payload ELSE <<>>
      [] t.kind = "Union" ->
            LET some == SelectSeq(t.items, LAMBDA u : u.kind = "Tagged" /\ u.tag = "Some")
            IN  IF /\ Len(t.items) = 2 /\ some # <<>>
                   /\ \E u \in ToSet(t.items) : u.kind = "Atom" /\ u.tag = "None"
                THEN <<some[1].item>> ELSE <<>>
      [] OTHER -> <<>>

IsOption(t) == OptionItem(t) # <<>>

IsBool(t) ==
    /\ t.kind = "Enum" /\ DOMAIN t.variants = {"True", "False"}
    /\ \A n \in DOMAIN t.variants : t.variants[n].payload = <<>>

\* Both attributes of the text form, or neither.
TextBridge(t) ==
    CASE ~Has(t, "decode_by_parse") /\ ~Has(t, "encode_by_display") -> "no"
      [] \A key \in {"decode_by_parse", "encode_by_display"} :
            Has(t, key) /\ t.attributes[key] = True -> "yes"
      [] OTHER -> "refused"

Parsed(t, s) == {v \in DOMAIN Display : v.k = t.kind /\ Display[v] = s}

\* Distinct names for the fields of a struct outside, in the order of those
\* inside; a flattened field brings the fields of its own struct.
RefusedPlan == [ok |-> FALSE, fields |-> <<>>]

RECURSIVE ExternalNames(_)
ExternalNames(plan) ==
    FoldLeft(LAMBDA names, f : names \o IF f.flatten THEN ExternalNames(f.plan) ELSE <<f.external>>,
             <<>>, plan.fields)

IsPolicy(v) ==
    \/ v \in {None, False, AtomValue("Empty")}
    \/ v.k = "Func" /\ v.arity = 1

FieldIsSound(field, type) ==
    /\ Has(field, "rename") => field.attributes["rename"].k = "String"
    /\ Says(field, "flatten", True)
    /\ Has(field, "flatten") =>
          ~Has(field, "rename") /\ ~Has(field, "default") /\ type.kind = "Struct"
    /\ Has(field, "skip") => IsPolicy(field.attributes["skip"])

ExternalName(attributes, name, rename_all) ==
    IF "rename" \in DOMAIN attributes THEN attributes["rename"].s
    ELSE IF rename_all THEN Camel[name] ELSE name

RECURSIVE PlanStruct(_)

PlanField(t, name, field, type) ==
    LET flatten == Has(field, "flatten")
        sound == FieldIsSound(field, type)
        Planned(plan) ==
            [ok |-> sound /\ (flatten => plan.ok), plan |-> plan,
             name |-> name, type |-> type, flatten |-> flatten, attributes |-> field.attributes,
             external |-> IF sound THEN ExternalName(field.attributes, name, Has(t, "rename_all")) ELSE name]
    IN  Planned(IF sound /\ flatten THEN PlanStruct(type) ELSE RefusedPlan)

\* Mutant: two fields may have one name outside.
PlanUnchecked(fields) ==
    LET plan == [ok |-> TRUE, fields |-> fields]
    IN  IF \A i \in DOMAIN fields : fields[i].ok THEN plan ELSE RefusedPlan

PlanOf(fields) ==
    LET plan == [ok |-> TRUE, fields |-> fields]
    IN  IF (\A i \in DOMAIN fields : fields[i].ok) /\ IsInjective(ExternalNames(plan))
        THEN plan ELSE RefusedPlan

PlanStruct(t) ==
    LET names == InOrder(DOMAIN t.fields) IN
    IF Says(t, "rename_all", AtomValue("CamelCase"))
    THEN PlanOf([i \in DOMAIN names |->
                    PlanField(t, names[i], t.fields[names[i]], ResolveOnce(t.fields[names[i]]))])
    ELSE RefusedPlan

\* The variants of an enum and their names outside, unless it is untagged.
PlanEnum(t) ==
    LET untagged == Has(t, "untagged")
        Sound(variant) ==
            IF untagged THEN "rename" \notin DOMAIN variant.attributes /\ variant.payload # <<>>
            ELSE "rename" \in DOMAIN variant.attributes => variant.attributes["rename"].k = "String"
        external == [n \in DOMAIN t.variants |->
                        ExternalName(t.variants[n].attributes, n, Has(t, "rename_all"))]
    IN  [ok |-> /\ Says(t, "untagged", True)
                /\ IF untagged THEN ~Has(t, "rename_all") ELSE Says(t, "rename_all", AtomValue("CamelCase"))
                /\ \A n \in DOMAIN t.variants : Sound(t.variants[n])
                /\ untagged \/ IsInjective(external),
         untagged |-> untagged, external |-> external]

----------------------------------------------------------------------------
(* The transformation.  c.decisions are the answers given so far by path;   *)
(* with c.in_place every predicate is applied where it is met instead.      *)

Ok(value) == [ok |-> TRUE, value |-> value, ask |-> <<>>]
Failed == [ok |-> FALSE, value |-> None, ask |-> <<>>]
Ask(path, callee, value) ==
    [ok |-> FALSE, value |-> None, ask |-> <<[path |-> path, callee |-> callee, value |-> value]>>]

\* All values, or the first result that is none.
Collect(results) ==
    FoldLeft(LAMBDA done, r : CASE ~done.ok -> done
                                [] done.ok /\ r.ok -> Ok(Append(done.value, r.value))
                                [] done.ok /\ ~r.ok -> r,
             Ok(<<>>), results)

Then(result, Op(_)) == IF result.ok THEN Ok(Op(result.value)) ELSE result

ByName(names, values) == [n \in ToSet(names) |-> values[CHOOSE i \in DOMAIN names : names[i] = n]]

\* Mutant: the items of an array are all at the path of the array.
ItemAlike(path, i) == path

Item(path, i) == path \o <<"[", ToString(i)>>
Member(path, name) == path \o Pieces[name]

Decoding(c) == c.direction = "Decode"

ShouldSkip(policy, v) ==
    CASE policy = AtomValue("Empty") ->
            v \in {StringValue(""), ArrayValue(<<>>)} \/ (v.k = "Dict" /\ DOMAIN v.fields = {})
      [] OTHER -> v = policy

\* Whether the field at a path is left out: "yes", "no" or "ask".
Skips(c, field, v, path) ==
    IF "skip" \notin DOMAIN field.attributes THEN "no"
    ELSE LET policy == field.attributes["skip"]
             Said(holds) == IF holds THEN "yes" ELSE "no"
         IN  CASE policy.k # "Func" -> Said(ShouldSkip(policy, v))
               [] policy.k = "Func" /\ c.in_place -> Said(Answer(policy.name, v) = "True")
               [] policy.k = "Func" /\ ~c.in_place ->
                     IF path \in DOMAIN c.decisions THEN Said(c.decisions[path]) ELSE "ask"

RECURSIVE Transform(_, _, _, _)

\* A default is checked as a value that is encoded whole, no predicate asked.
RECURSIVE ValidateWithoutSkipping(_, _, _, _)
ValidateWithoutSkipping(t, v, path, decisions) ==
    LET Answered(result) ==
            IF result.ask = <<>> THEN result
            ELSE ValidateWithoutSkipping(t, v, path, (result.ask[1].path :> FALSE) @@ decisions)
    IN  Answered(Transform([direction |-> "Encode", decisions |-> decisions, in_place |-> FALSE], t, v, path))

\* An option is its item or null.
TransformOption(c, item, v, path) ==
    CASE v = None -> Ok(None)
      [] v # None /\ Decoding(c) ->
            Then(Transform(c, item, v, path), LAMBDA w : TaggedValue("Some", w))
      [] v # None /\ ~Decoding(c) ->
            IF v.k = "Tagged" /\ v.tag = "Some" THEN Transform(c, item, v.payload, path) ELSE Failed

RECURSIVE DecodeFields(_, _, _, _)
DecodeFields(c, plan, input, path) ==
    LET Decoded(f) ==
            CASE f.flatten -> DecodeFields(c, f.plan, input, Member(path, f.name))
              [] ~f.flatten /\ f.external \in DOMAIN input ->
                    Transform(c, f.type, input[f.external], Member(path, f.external))
              [] ~f.flatten /\ f.external \notin DOMAIN input /\ "default" \in DOMAIN f.attributes ->
                    LET default == f.attributes["default"]
                    IN  IF ValidateWithoutSkipping(f.type, default, Member(path, f.name), <<>>).ok
                        THEN Ok(default) ELSE Failed
              [] OTHER -> IF IsOption(f.type) /\ ~f.flatten THEN Ok(None) ELSE Failed
    IN  Then(Collect([i \in DOMAIN plan.fields |-> Decoded(plan.fields[i])]),
             LAMBDA values : DictValue(ByName([i \in DOMAIN plan.fields |-> plan.fields[i].name], values)))

\* The members a struct's fields make: none for one left out.
RECURSIVE EncodeFields(_, _, _, _)
EncodeFields(c, plan, input, path) ==
    LET names == {plan.fields[i].name : i \in DOMAIN plan.fields}
        Encoded(f) ==
            IF f.name \notin DOMAIN input THEN Failed
            ELSE LET v == input[f.name]
                     here == Member(path, f.name)
                     skips == Skips(c, f, v, here)
                 IN  CASE skips = "yes" -> Ok(<<>>)
                       [] skips = "ask" -> Ask(here, f.attributes["skip"], v)
                       [] skips = "no" /\ f.flatten ->
                             IF v.k = "Dict" THEN EncodeFields(c, f.plan, v.fields, here) ELSE Failed
                       [] skips = "no" /\ ~f.flatten ->
                             Then(Transform(c, f.type, v, here), LAMBDA w : f.external :> w)
    IN  IF DOMAIN input \subseteq names
        THEN Then(Collect([i \in DOMAIN plan.fields |-> Encoded(plan.fields[i])]),
                  LAMBDA members : FoldLeft(LAMBDA all, one : all @@ one, <<>>, members))
        ELSE Failed

\* By its plan. Members that no field takes are refused after the fields are decoded.
TransformStruct(c, plan, v, path) ==
    LET NoneLeft(decoded) ==
            IF decoded.ok /\ ~(DOMAIN v.fields \subseteq ToSet(ExternalNames(plan))) THEN Failed ELSE decoded
    IN  IF v.k # "Dict" \/ ~plan.ok THEN Failed
        ELSE IF Decoding(c) THEN NoneLeft(DecodeFields(c, plan, v.fields, path))
        ELSE Then(EncodeFields(c, plan, v.fields, path), DictValue)

\* The first variant that accepts the value, or whose predicate must be asked.
TransformUnion(c, t, v, path) ==
    FoldLeft(LAMBDA found, u : IF found.ok \/ found.ask # <<>> THEN found ELSE Transform(c, u, v, path),
             Failed, t.items)

DecodeUntagged(c, t, v, path) ==
    LET Only(found) ==
            IF Cardinality(found) = 1
            THEN LET one == CHOOSE one \in found : TRUE IN Ok(TaggedValue(one.variant, one.result.value))
            ELSE Failed
        results == {[variant |-> n, result |-> Transform(c, t.variants[n].payload[1], v, path)] :
                        n \in DOMAIN t.variants}
    IN  Only({r \in results : r.result.ok})

DecodeEnum(c, t, plan, v, path) ==
    LET Named(x) == {n \in DOMAIN t.variants : plan.external[n] = x}
        payload(n) == t.variants[n].payload
    IN  CASE v.k = "String" ->
                IF \E n \in Named(v.s) : payload(n) = <<>>
                THEN Ok(AtomValue(CHOOSE n \in Named(v.s) : TRUE)) ELSE Failed
          [] v.k = "Dict" /\ \E x \in DOMAIN v.fields : DOMAIN v.fields = {x} /\ Named(x) # {} ->
                LET x == CHOOSE x \in DOMAIN v.fields : TRUE
                    n == CHOOSE n \in Named(x) : TRUE
                IN  IF payload(n) = <<>> THEN Failed
                    ELSE Then(Transform(c, payload(n)[1], v.fields[x], Member(path, x)),
                              LAMBDA w : TaggedValue(n, w))
          [] OTHER -> Failed

EncodeEnum(c, t, plan, v, path) ==
    LET payload == t.variants[v.tag].payload
    IN  CASE v.k \notin {"Atom", "Tagged"} -> Failed
          [] v.k \in {"Atom", "Tagged"} /\ v.tag \notin DOMAIN t.variants -> Failed
          [] v.k = "Atom" /\ v.tag \in DOMAIN t.variants ->
                IF payload = <<>> /\ ~plan.untagged THEN Ok(StringValue(plan.external[v.tag])) ELSE Failed
          [] v.k = "Tagged" /\ v.tag \in DOMAIN t.variants ->
                CASE payload = <<>> -> Failed
                  [] payload # <<>> /\ plan.untagged -> Transform(c, payload[1], v.payload, path)
                  [] payload # <<>> /\ ~plan.untagged ->
                        Then(Transform(c, payload[1], v.payload, Member(path, v.tag)),
                             LAMBDA w : DictValue(plan.external[v.tag] :> w))

TransformEnum(c, t, plan, v, path) ==
    CASE ~plan.ok -> Failed
      [] plan.ok /\ ~Decoding(c) -> EncodeEnum(c, t, plan, v, path)
      [] plan.ok /\ Decoding(c) ->
            IF plan.untagged THEN DecodeUntagged(c, t, v, path) ELSE DecodeEnum(c, t, plan, v, path)

TransformText(c, t, v) ==
    CASE Decoding(c) -> IF v.k = "String" /\ Parsed(t, v.s) # {}
                        THEN Ok(CHOOSE w \in Parsed(t, v.s) : TRUE) ELSE Failed
      [] ~Decoding(c) -> IF v \in DOMAIN Display /\ v.k = t.kind THEN Ok(StringValue(Display[v])) ELSE Failed

TransformShape(c, t, v, path) ==
    LET Each(items, Path(_)) == Collect([i \in DOMAIN items |-> Transform(c, t.item, items[i], Path(i))])
    IN  CASE t.kind = "UpLink" -> Transform(c, Target(t.link), v, path)
          [] t.kind = "Any" -> Ok(v)
          [] t.kind \in {"Type", "Dyn", "Int", "Float", "String"} -> IF v.k = t.kind THEN Ok(v) ELSE Failed
          [] t.kind = "Atom" -> IF v = AtomValue(t.tag) THEN Ok(v) ELSE Failed
          [] t.kind = "Array" ->
                IF v.k = "Array" THEN Then(Each(v.items, LAMBDA i : Item(path, i)), ArrayValue) ELSE Failed
          [] t.kind = "Dict" ->
                IF v.k # "Dict" THEN Failed
                ELSE LET names == InOrder(DOMAIN v.fields)
                     IN  Then(Each([i \in DOMAIN names |-> v.fields[names[i]]],
                                   LAMBDA i : Member(path, names[i])),
                              LAMBDA values : DictValue(ByName(names, values)))
          [] t.kind = "Tagged" ->
                IF v.k = "Tagged" /\ v.tag = t.tag
                THEN Then(Transform(c, t.item, v.payload, path), LAMBDA w : TaggedValue(t.tag, w))
                ELSE Failed
          [] t.kind = "Tuple" ->
                IF v.k = (IF Decoding(c) THEN "Array" ELSE "Tuple") /\ Len(v.items) = Len(t.items)
                THEN Then(Collect([i \in DOMAIN t.items |->
                               Transform(c, t.items[i], v.items[i], Item(path, i))]),
                          LAMBDA items : IF Decoding(c) THEN TupleValue(items) ELSE ArrayValue(items))
                ELSE Failed
          [] t.kind = "Struct" -> TransformStruct(c, PlanStruct(t), v, path)
          [] t.kind = "Union" -> TransformUnion(c, t, v, path)
          [] t.kind = "Enum" ->
                IF IsBool(t) THEN IF v \in {True, False} THEN Ok(v) ELSE Failed
                ELSE TransformEnum(c, t, PlanEnum(t), v, path)
          [] OTHER -> Failed      \* Bytes, Opaque, Function

Transform(c, t, v, path) ==
    LET bridge == IF t.kind = "UpLink" THEN "no" ELSE TextBridge(t)
    IN  CASE IsOption(t) -> TransformOption(c, OptionItem(t)[1], v, path)
          [] ~IsOption(t) /\ bridge = "refused" -> Failed
          [] ~IsOption(t) /\ bridge = "yes" -> TransformText(c, t, v)
          [] ~IsOption(t) /\ bridge = "no" -> TransformShape(c, t, v, path)
=============================================================================
