------------------------------- MODULE MCData -------------------------------
(* Types that the decorators make, with values that are of them and others. *)
EXTENDS StdJson

Plain(kind) == [kind |-> kind, attributes |-> <<>>]
IntType == Plain("Int")
StringType == Plain("String")
FloatType == Plain("Float")
AnyType == Plain("Any")
AtomType(tag) == Plain("Atom") @@ [tag |-> tag]
ArrayType(t) == Plain("Array") @@ [item |-> t]
DictType(t) == Plain("Dict") @@ [item |-> t]
TaggedType(tag, t) == Plain("Tagged") @@ [tag |-> tag, item |-> t]
TupleType(items) == Plain("Tuple") @@ [items |-> items]
UnionType(items) == Plain("Union") @@ [items |-> items]
StructType(fields) == Plain("Struct") @@ [fields |-> fields]
EnumType(variants) == Plain("Enum") @@ [variants |-> variants]
Link(l) == Plain("UpLink") @@ [link |-> l]

OptionType(t) == EnumType("None" :> Unit @@ "Some" :> t)
BoolType == EnumType("True" :> Unit @@ "False" :> Unit)

MCNames == <<"A", "B", "None", "Some", "a_b", "aB", "b", "x", "x.x", "y">>
MCCamel == [n \in ToSet(MCNames) |-> CASE n = "a_b" -> "aB" [] n = "A" -> "a" [] n = "B" -> "b" [] OTHER -> n]
MCPieces == [n \in ToSet(MCNames) |-> IF n = "x.x" THEN <<"x", "x">> ELSE <<n>>]
MCDisplay == IntValue(0) :> "0" @@ IntValue(1) :> "1" @@ StringValue("a") :> "a"

\* is_zero holds of 0, and answers nothing for a text.
MCAnswer(name, v) ==
    CASE name = "is_zero" /\ v.k = "String" -> "other"
      [] name = "always" \/ (name = "is_zero" /\ v = IntValue(0)) -> "True"
      [] OTHER -> "False"

IsZero == FuncValue("is_zero", 1)
Always == FuncValue("always", 1)

\* A list, and a type not yet there.
MCLinks ==
    "list" :> StructType("x" :> IntType @@ "y" :> OptionType(Link("list"))) @@
    "tree" :> EnumType("A" :> Unit @@ "B" :> ArrayType(Link("tree"))) @@
    "later" :> Pending

Simple == {IntType, StringType, AnyType, BoolType, OptionType(IntType), ArrayType(IntType), AtomType("None")}

\* The decorators of a field, with what they are configured.
FieldDecorators ==
    {<<"rename", StringValue("b")>>, <<"rename", IntValue(0)>>, <<"flatten", True>>,
     <<"default", IntValue(0)>>, <<"default", None>>, <<"default", StringValue("")>>,
     <<"skip", None>>, <<"skip", False>>, <<"skip", AtomValue("Empty")>>, <<"skip", IsZero>>, <<"skip", True>>}

\* A struct whose field is left out, or not, as a predicate answers.
Asking(name, predicate) == StructType(name :> Decorated(IntType, "skip", predicate))

DecoratedWith(t, d) == IF ConfigurationIsValid(d[1], d[2]) THEN Decorated(t, d[1], d[2]) ELSE t

Camelled(t) == Decorated(t, "rename_all", AtomValue("CamelCase"))
Untagged(t) == Decorated(t, "untagged", True)

\* A field with up to two decorators, beside another.
Fields ==
    {DecoratedWith(DecoratedWith(IntType, d), e) : d, e \in FieldDecorators}
    \cup {DecoratedWith(DecoratedWith(t, d), e) :
            t \in {OptionType(IntType), StructType("y" :> IntType)},
            d \in FieldDecorators, e \in {<<"skip", None>>, <<"skip", Always>>, <<"default", None>>, <<"rename", StringValue("b")>>}}
    \cup {DecoratedWith(t, d) : t \in {StringType, Link("list"), ArrayType(IntType)}, d \in FieldDecorators}
    \cup Simple

Structs == {StructType("a_b" :> f @@ "x" :> IntType) : f \in Fields}

Nested ==
    {Camelled(StructType("a_b" :> Decorated(IntType, "skip", IsZero) @@ "aB" :> IntType)),
     Camelled(StructType("a_b" :> Decorated(IntType, "rename", StringValue("b")) @@ "x" :> Decorated(StructType("y" :> OptionType(IntType)), "flatten", True))),
     StructType("x" :> Decorated(StructType("y" :> Decorated(IntType, "skip", Always) @@ "b" :> IntType), "flatten", True)
              @@ "a_b" :> Decorated(IntType, "skip", IsZero)),
     TupleType(<<StructType("x" :> Decorated(IntType, "skip", IsZero)), StructType("x" :> Decorated(IntType, "skip", Always))>>),
     ArrayType(StructType("x" :> Decorated(IntType, "skip", IsZero))),
     DictType(StructType("x" :> Decorated(IntType, "skip", IsZero))),
     OptionType(OptionType(IntType)), OptionType(AnyType), UnionType(<<AtomType("None"), TaggedType("Some", IntType)>>),
     UnionType(<<IntType, StringType>>), UnionType(<<ArrayType(IntType), TupleType(<<IntType>>)>>),
     EnumType("A" :> Unit @@ "B" :> IntType), Camelled(EnumType("A" :> Unit @@ "B" :> OptionType(IntType))),
     EnumType("A" :> Decorated(Unit, "rename", StringValue("B")) @@ "B" :> IntType),
     Untagged(EnumType("A" :> IntType @@ "B" :> StringType)), Untagged(EnumType("A" :> IntType @@ "B" :> OptionType(IntType))),
     Untagged(EnumType("A" :> Unit @@ "B" :> IntType)), Untagged(Camelled(EnumType("A" :> IntType @@ "B" :> StringType))),
     Link("list"), Link("tree"), Link("later"), ArrayType(Link("later")), EnumType(<<>>), Plain("Opaque"),
     Plain("Bytes"), Plain("Bound"), Plain("NativeType"), Plain("Function"),
     Decorated(Decorated(IntType, "decode_by_parse", True), "encode_by_display", True),
     Decorated(IntType, "decode_by_parse", True), TupleType(<<IntType, StringType>>), DictType(OptionType(IntType)),
     FloatType, StructType("x" :> FloatType), UnionType(<<IntType, FloatType>>),
     DictType(DictType(Asking("b", IsZero))), DictType(DictType(IntType)),
     EnumType("A" :> Asking("x", IsZero) @@ "B" :> Asking("x", Always)),
     Untagged(EnumType("A" :> Asking("x", IsZero) @@ "B" :> Asking("y", Always))),
     UnionType(<<Asking("x", IsZero), StructType("y" :> IntType)>>),
     UnionType(<<StructType("x" :> Decorated(IntType, "skip", IsZero) @@ "y" :> StringType),
                 StructType("x" :> Decorated(IntType, "skip", Always) @@ "y" :> IntType)>>),
     ArrayType(OptionType(Asking("x", IsZero)))}

----------------------------------------------------------------------------
Scalars == {IntValue(0), IntValue(1), FloatValue(1), FloatValue(2), StringValue(""), StringValue("a"), StringValue("1"), None, True}

\* Values of a type, as deep as n, and what JSON says of it and more.
RECURSIVE Canonical(_, _)
Canonical(t, n) ==
    CASE n = 0 -> {}
      [] t.kind = "UpLink" -> IF Links[t.link] = Pending THEN {IntValue(0)}
                              ELSE Canonical(DecodeRuntimeType(Links[t.link]), n)
      [] t.kind = "Int" -> {IntValue(0), IntValue(1)}
      [] t.kind = "Float" -> {FloatValue(1), FloatValue(2)}
      [] t.kind = "String" -> {StringValue(""), StringValue("a")}
      [] t.kind = "Any" -> {IntValue(0), None}
      [] t.kind = "Atom" -> {AtomValue(t.tag)}
      [] t.kind = "Tagged" -> {TaggedValue(t.tag, v) : v \in Canonical(t.item, n)}
      [] t.kind = "Array" ->
            {ArrayValue(<<>>)} \cup {ArrayValue(<<v>>) : v \in Canonical(t.item, n - 1)}
            \cup {ArrayValue(<<v, w>>) : v, w \in Canonical(t.item, n - 1)}
      [] t.kind = "Dict" -> UNION {{DictValue(f) : f \in [keys -> Canonical(t.item, n - 1)]} : keys \in {{"x", "y"}, {"x", "x.x"}}}
      [] t.kind = "Tuple" ->
            IF Len(t.items) = 1 THEN {TupleValue(<<v>>) : v \in Canonical(t.items[1], n)}
            ELSE {TupleValue(<<v, w>>) : v \in Canonical(t.items[1], n), w \in Canonical(t.items[2], n)}
      [] t.kind = "Union" -> UNION {Canonical(t.items[i], n) : i \in DOMAIN t.items}
      [] t.kind = "Enum" ->
            UNION {IF t.variants[x].payload = <<>> THEN {AtomValue(x)}
                   ELSE {TaggedValue(x, v) : v \in Canonical(t.variants[x].payload[1], n - 1)} :
                   x \in DOMAIN t.variants}
      [] t.kind = "Struct" ->
            {DictValue(f) : f \in {g \in [DOMAIN t.fields -> UNION {Canonical(t.fields[x], n) : x \in DOMAIN t.fields}] :
                \A x \in DOMAIN t.fields : g[x] \in Canonical(t.fields[x], n)}}
      [] OTHER -> {IntValue(0)}

\* What a type encodes its values to, with members added, left out and changed.
Near(v) ==
    {v} \cup
    (IF v.k # "Dict" THEN {ArrayValue(<<v>>)}
     ELSE {DictValue(("b" :> IntValue(1)) @@ v.fields)}
          \cup {DictValue([n \in DOMAIN v.fields \ {x} |-> v.fields[n]]) : x \in DOMAIN v.fields}
          \cup {DictValue((x :> w) @@ v.fields) : x \in DOMAIN v.fields, w \in {None, IntValue(0), FloatValue(1), FloatValue(2), StringValue("a")}})

MCTypes == Structs \cup Nested \cup Simple

Values(m) ==
    LET t == DecodeRuntimeType(m) IN IF IsInvalid(t) THEN {None} ELSE Canonical(t, 3)

Directly == [direction |-> "Encode", decisions |-> <<>>, in_place |-> TRUE]

External(m) ==
    LET t == DecodeRuntimeType(m)
    IN  Scalars \cup
        IF IsInvalid(t) \/ ~GraphIsReady(t) THEN {}
        ELSE UNION {Near(Transform(Directly, t, v, Root).value) : v \in Canonical(t, 3)}

MCRequests ==
    UNION {[operation : {"encode"}, metadata : {m}, input : Values(m) \cup {IntValue(1), DictValue(<<>>)}]
           \cup [operation : {"decode"}, metadata : {m}, input : External(m)]
           \cup [operation : {"schema"}, metadata : {m}, input : {None}] : m \in MCTypes}
=============================================================================
