----------------------------- MODULE JsonSchema -----------------------------
(***************************************************************************)
(* std/json.schema (vm.rs): the JSON Schema of a type, and what a schema   *)
(* accepts by the 2020-12 standard, which the repository only quotes.      *)
(*                                                                         *)
(* A schema is a record of its keywords.  Definitions are named by the     *)
(* links they are of, which the code numbers as it meets them.             *)
(***************************************************************************)
EXTENDS Codec

Keyword(name, value) == name :> value
Typed(name) == Keyword("type", name)

NoSchema == Keyword("refused", TRUE)
IsRefused(s) == "refused" \in DOMAIN s
AnyRefused(list) == \E i \in DOMAIN list : IsRefused(list[i])

AlternativesOf(keyword, list) == IF AnyRefused(list) THEN NoSchema ELSE Keyword(keyword, list)

\* Mutant: members that no field takes are not refused.
OpenObject(properties, required) ==
    Typed("object") @@ Keyword("properties", properties)
    @@ (IF required = {} THEN <<>> ELSE Keyword("required", required))

\* closed stands for additionalProperties: false.
ObjectOf(properties, required) ==
    Typed("object") @@ Keyword("properties", properties) @@ Keyword("closed", TRUE)
    @@ (IF required = {} THEN <<>> ELSE Keyword("required", required))

RECURSIVE SchemaNode(_)

\* The properties of a plan and those a document must have.
RECURSIVE SchemaFields(_)
SchemaFields(plan) ==
    LET Defaulted(f) == "default" \in DOMAIN f.attributes
        WithDefault(s, default) ==
            IF IsRefused(s) \/ ~default.ok THEN NoSchema ELSE s @@ Keyword("default", default.value)
        Property(f) ==
            IF Defaulted(f)
            THEN WithDefault(SchemaNode(f.type),
                     ValidateWithoutSkipping(f.type, f.attributes["default"], <<"$">>, <<>>))
            ELSE SchemaNode(f.type)
        One(f) ==
            IF f.flatten THEN SchemaFields(f.plan)
            ELSE [properties |-> f.external :> Property(f),
                  required |-> IF Defaulted(f) \/ IsOption(f.type) THEN {} ELSE {f.external}]
        Both(all, more) == [properties |-> all.properties @@ more.properties,
                            required |-> all.required \cup more.required]
    IN  FoldLeft(LAMBDA all, f : Both(all, One(f)), [properties |-> <<>>, required |-> {}], plan.fields)

FieldsSchema(fields) ==
    IF AnyRefused(fields.properties) THEN NoSchema ELSE ObjectOf(fields.properties, fields.required)

StructSchema(plan) == IF plan.ok THEN FieldsSchema(SchemaFields(plan)) ELSE NoSchema

\* An untagged variant is its payload, another an object with one member.
VariantSchema(plan, name, payload) ==
    IF plan.untagged \/ IsRefused(payload) THEN payload ELSE ObjectOf(name :> payload, {name})

EnumSchema(t, plan) ==
    LET names == InOrder(DOMAIN t.variants)
        Branch(n) ==
            IF t.variants[n].payload = <<>> THEN Keyword("const", plan.external[n])
            ELSE VariantSchema(plan, plan.external[n], SchemaNode(t.variants[n].payload[1]))
    IN  IF ~plan.ok THEN NoSchema
        ELSE AlternativesOf("oneOf", [i \in DOMAIN names |-> Branch(names[i])])

SchemaNode(t) ==
    LET Inside(type, s) == IF IsRefused(s) THEN s ELSE Typed(type) @@ Keyword("items", s)
        Tupled(items) ==
            IF AnyRefused(items) THEN NoSchema ELSE Typed("array") @@ Keyword("prefixItems", items)
    IN  CASE t.kind # "UpLink" /\ TextBridge(t) = "refused" -> NoSchema
          [] t.kind # "UpLink" /\ TextBridge(t) = "yes" -> Typed("string")
          [] t.kind = "UpLink" -> Keyword("$ref", t.link)
          [] t.kind # "UpLink" /\ TextBridge(t) = "no" ->
             CASE IsOption(t) -> AlternativesOf("anyOf", <<Typed("null"), SchemaNode(OptionItem(t)[1])>>)
               [] IsBool(t) -> Typed("boolean")
               [] t.kind = "Any" -> <<>>
               [] t.kind = "Int" -> Typed("integer")
               [] t.kind = "Float" -> Typed("number")
               [] t.kind = "String" -> Typed("string")
               [] t.kind = "Atom" -> IF t.tag = "None" THEN Typed("null") ELSE Keyword("const", t.tag)
               [] t.kind = "Array" -> Inside("array", SchemaNode(t.item))
               [] t.kind = "Dict" -> Inside("object", SchemaNode(t.item))
               [] t.kind = "Tagged" -> SchemaNode(t.item)
               [] t.kind = "Tuple" ->
                     Tupled([i \in DOMAIN t.items |-> SchemaNode(t.items[i])])
               [] t.kind = "Struct" -> StructSchema(PlanStruct(t))
               [] t.kind = "Union" ->
                     AlternativesOf("anyOf", [i \in DOMAIN t.items |-> SchemaNode(t.items[i])])
               [] t.kind = "Enum" /\ ~IsOption(t) /\ ~IsBool(t) -> EnumSchema(t, PlanEnum(t))
               [] OTHER -> NoSchema        \* Type, Dyn, Bytes, Opaque, Function

\* The document with the definitions of the links it reaches.
Document(root, definitions) ==
    IF IsRefused(root) \/ AnyRefused(definitions) THEN NoSchema
    ELSE [root |-> root, definitions |-> definitions]

JsonSchema(t) == Document(SchemaNode(t), [l \in Reached(LinksIn(t)) |-> SchemaNode(Target(l))])

----------------------------------------------------------------------------
(* What a schema accepts of the values of JSON text (JSON Schema 2020-12).  *)

IsOfType(name, v) ==
    CASE name = "null" -> v = None
      [] name = "boolean" -> v \in {True, False}
      [] name = "integer" -> v.k = "Int" \/ (v.k = "Float" /\ v.n % 2 = 0)
      [] name = "number" -> v.k \in {"Int", "Float"}
      [] name = "string" -> v.k = "String"
      [] name = "array" -> v.k = "Array"
      [] name = "object" -> v.k = "Dict"

RECURSIVE Accepts(_, _, _)
Accepts(definitions, s, v) ==
    LET Given(keyword) == keyword \in DOMAIN s
        Matches(list) == {i \in DOMAIN list : Accepts(definitions, list[i], v)}
    IN  /\ Given("$ref") => Accepts(definitions, definitions[s["$ref"]], v)
        /\ Given("type") => IsOfType(s["type"], v)
        /\ Given("const") => v = StringValue(s["const"])
        /\ Given("anyOf") => Matches(s["anyOf"]) # {}
        /\ Given("oneOf") => Cardinality(Matches(s["oneOf"])) = 1
        /\ Given("items") =>
              IF v.k = "Array" THEN \A i \in DOMAIN v.items : Accepts(definitions, s["items"], v.items[i])
              ELSE \A n \in DOMAIN v.fields : Accepts(definitions, s["items"], v.fields[n])
        /\ Given("prefixItems") =>
              /\ Len(v.items) = Len(s["prefixItems"])
              /\ \A i \in DOMAIN v.items : Accepts(definitions, s["prefixItems"][i], v.items[i])
        /\ Given("properties") =>
              \A n \in DOMAIN v.fields \cap DOMAIN s["properties"] :
                 Accepts(definitions, s["properties"][n], v.fields[n])
        /\ Given("closed") => DOMAIN v.fields \subseteq DOMAIN s["properties"]
        /\ Given("required") => s["required"] \subseteq DOMAIN v.fields
=============================================================================
