------------------------------ MODULE Patterns ------------------------------
(***************************************************************************)
(* What the checker decides of a pattern against the type of its subject   *)
(* (pattern.rs): whether it can match, whether it always does, and which   *)
(* variants of an enum it covers.                                          *)
(*                                                                         *)
(* A type, a pattern and a value are records with a kind.  An enum maps    *)
(* its tags to the types of their payloads, Bare for a tag alone.          *)
(*                                                                         *)
(* A pattern is put to a subject, a type by the checker and a value by the *)
(* code, and its parts to the parts of the subject.  A visit is one call   *)
(* of AnalysisContext::analyze, or one test of compile_pattern; what holds *)
(* of the pattern is put together of what holds at its visits.             *)
(***************************************************************************)
EXTENDS Integers, Sequences, FiniteSets

CONSTANTS MaxDepth      \* bound: how deep patterns nest

ASSUME MaxDepthAssumption == MaxDepth \in Nat

IntType == [kind |-> "Int"]
AnyType == [kind |-> "Any"]          \* Any, Never, Bound, Inference, Union
DictType == [kind |-> "Dict"]        \* Dict, Type, TypeOf: Dicts of any fields
OtherType == [kind |-> "Other"]      \* Bytes, Array, Function, Dyn, Opaque
AtomType(tag) == [kind |-> "Atom", tag |-> tag]
TaggedType(tag, payload) == [kind |-> "Tagged", tag |-> tag, payload |-> payload]
TupleType(items) == [kind |-> "Tuple", items |-> items]
StructType(fields) == [kind |-> "Struct", fields |-> fields]
EnumType(variants) == [kind |-> "Enum", variants |-> variants]
Bare == [kind |-> "Bare"]

Wildcard == [kind |-> "Wildcard"]
Bind(name) == [kind |-> "Binding", name |-> name]
IntPattern(n) == [kind |-> "Int", value |-> n]
StringPattern(s) == [kind |-> "String", value |-> s]
AtomPattern(tag) == [kind |-> "Atom", tag |-> tag]
TaggedPattern(tag, payload) == [kind |-> "Tagged", tag |-> tag, payload |-> payload]
TuplePattern(items) == [kind |-> "Tuple", items |-> items]
\* A sequence of fields: a name may be repeated.
StructPattern(fields) == [kind |-> "Struct", fields |-> fields]
FieldPattern(name, pattern) == [name |-> name, pattern |-> pattern]

----------------------------------------------------------------------------
(* What a pattern, apart from its parts, asks of its subject.               *)

\* No field twice in pattern.fields, and those that are there.
FieldName(pattern, i) == pattern.fields[i].name
RepeatsField(pattern) ==
    \E i, j \in DOMAIN pattern.fields : i # j /\ FieldName(pattern, i) = FieldName(pattern, j)
HasFields(pattern, fields) ==
    \A i \in DOMAIN pattern.fields : FieldName(pattern, i) \in DOMAIN fields

\* Whether a type is of the shape that a pattern asks for.
FitsType(pattern, type) ==
    CASE pattern.kind \in {"Wildcard", "Binding"} -> TRUE
      [] pattern.kind \in {"Int", "String"} -> type.kind = pattern.kind
      [] pattern.kind \in {"Atom", "Tagged"} ->
            \/ type.kind = pattern.kind /\ type.tag = pattern.tag
            \/ /\ type.kind = "Enum" /\ pattern.tag \in DOMAIN type.variants
               /\ pattern.kind = "Atom" <=> type.variants[pattern.tag] = Bare
      [] pattern.kind = "Tuple" -> type.kind = "Tuple" /\ DOMAIN type.items = DOMAIN pattern.items
      [] pattern.kind = "Struct" -> type.kind = "Struct" /\ HasFields(pattern, type.fields)

\* What the code tests of a value, as compile_pattern lays it out.
FitsValue(pattern, value) ==
    CASE pattern.kind \in {"Wildcard", "Binding"} -> TRUE
      [] pattern.kind = "Int" -> value.k = "Int" /\ value.n = pattern.value
      [] pattern.kind = "String" -> value.k = "String" /\ value.s = pattern.value
      [] pattern.kind \in {"Atom", "Tagged"} -> value.k = pattern.kind /\ value.tag = pattern.tag
      [] pattern.kind = "Tuple" -> value.k = "Tuple" /\ DOMAIN value.items = DOMAIN pattern.items
      [] pattern.kind = "Struct" -> value.k = "Dict" /\ HasFields(pattern, value.fields)

----------------------------------------------------------------------------
(* The walk down a pattern and its subject.                                 *)

PatternKinds == {"Wildcard", "Binding", "Int", "String", "Atom", "Tagged", "Tuple", "Struct"}

PatternParts(pattern) ==
    CASE pattern.kind = "Tagged" -> <<pattern.payload>>
      [] pattern.kind = "Tuple" -> pattern.items
      [] pattern.kind = "Struct" -> [i \in DOMAIN pattern.fields |-> pattern.fields[i].pattern]
      [] OTHER -> <<>>

\* What the i-th part of a pattern is put to.
TypePart(pattern, type, i) ==
    CASE pattern.kind = "Tagged" /\ FitsType(pattern, type) ->
            IF type.kind = "Enum" THEN type.variants[pattern.tag] ELSE type.payload
      [] pattern.kind = "Tuple" /\ FitsType(pattern, type) -> type.items[i]
      [] /\ pattern.kind = "Struct" /\ type.kind = "Struct"
         /\ FieldName(pattern, i) \in DOMAIN type.fields -> type.fields[FieldName(pattern, i)]
      [] OTHER -> AnyType

ValuePart(pattern, value, i) ==
    CASE pattern.kind = "Tagged" -> value.payload
      [] pattern.kind = "Tuple" -> value.items[i]
      [] pattern.kind = "Struct" -> value.fields[FieldName(pattern, i)]

\* The subject is a "type" or a "value".
SubjectPart(role, pattern, subject, i) ==
    IF role = "value" THEN ValuePart(pattern, subject, i) ELSE TypePart(pattern, subject, i)

\* The code leaves at the first test that fails; the checker goes on.
GoesOn(role, pattern, subject) == role = "value" => FitsValue(pattern, subject)

Visit(path, pattern, subject) == [path |-> path, pattern |-> pattern, subject |-> subject]

VisitsUnder(role, v) ==
    {Visit(Append(v.path, i), PatternParts(v.pattern)[i], SubjectPart(role, v.pattern, v.subject, i)) :
        i \in {i \in DOMAIN PatternParts(v.pattern) : GoesOn(role, v.pattern, v.subject)}}

\* The visits by their depth.
Levels(role, pattern, subject) ==
    LET level[n \in Nat] ==
            IF n = 0 THEN {Visit(<<>>, pattern, subject)}
            ELSE UNION {VisitsUnder(role, v) : v \in level[n - 1]}
    IN  level

Visits(role, pattern, subject) == UNION {Levels(role, pattern, subject)[n] : n \in 0..MaxDepth}

----------------------------------------------------------------------------
(* The analysis.                                                            *)

IsUnknown(type) == type.kind = "Any"

Compatibility(pattern, type) ==
    CASE FitsType(pattern, type) -> "Compatible"
      [] ~FitsType(pattern, type) /\ IsUnknown(type) -> "Unknown"
      [] OTHER -> "Incompatible"

\* Of the parts of a pattern and the pattern itself (combine).
Combined(compatibilities) ==
    CASE "Incompatible" \in compatibilities -> "Incompatible"
      [] "Incompatible" \notin compatibilities /\ "Unknown" \in compatibilities -> "Unknown"
      [] OTHER -> "Compatible"

\* Mutant: only names and wildcards take all.
IrrefutableByKind(pattern, type) == pattern.kind \in {"Wildcard", "Binding"}

\* No value of the type fails the test of the pattern, apart from its parts.
Irrefutable(pattern, type) ==
    /\ FitsType(pattern, type)
    /\ pattern.kind \notin {"Int", "String"}
    /\ pattern.kind \in {"Atom", "Tagged"} /\ type.kind = "Enum" => DOMAIN type.variants = {pattern.tag}

\* Reported instead of plain incompatibility.
HasProblem(pattern, type) ==
    pattern.kind = "Struct" /\ (Compatibility(pattern, type) = "Incompatible" \/ RepeatsField(pattern))

\* The variants of an enum that a pattern may match.
PossibleVariants(pattern, type) ==
    IF type.kind # "Enum" \/ ~FitsType(pattern, type) THEN {}
    ELSE IF pattern.kind \in {"Atom", "Tagged"} THEN {pattern.tag} ELSE DOMAIN type.variants

\* In the order of the pattern.
Earlier(path, other) ==
    \E i \in DOMAIN other :
        /\ \A j \in 1..i-1 : j \in DOMAIN path /\ path[j] = other[j]
        /\ i \in DOMAIN path => path[i] < other[i]

\* The first binding of a name gives it its type, the others are duplicates.
AnalyzePattern(pattern, type) ==
    LET visits == Visits("type", pattern, type)
        parts == {v \in visits : v.path # <<>>}
        named == {v \in visits : v.pattern.kind = "Binding"}
        Repeats(v) == \E u \in named : u.pattern.name = v.pattern.name /\ Earlier(u.path, v.path)
    IN  [compatibility |-> Combined({Compatibility(v.pattern, v.subject) : v \in visits}),
         irrefutable |-> \A v \in visits : Irrefutable(v.pattern, v.subject),
         possible |-> PossibleVariants(pattern, type),
         covered |-> IF \A v \in parts : Irrefutable(v.pattern, v.subject)
                     THEN PossibleVariants(pattern, type) ELSE {},
         problems |-> \E v \in visits : HasProblem(v.pattern, v.subject),
         bindings |-> {[name |-> v.pattern.name, type |-> v.subject] : v \in {v \in named : ~Repeats(v)}},
         duplicates |-> {v.path : v \in {v \in named : Repeats(v)}}]

----------------------------------------------------------------------------
(* Where a diagnostic points: the path into the pattern. Both walks take    *)
(* the first part that is to blame, or end at the pattern itself.           *)

\* The parts a walk goes into: <<pattern, type>>, the type Bare for a field the
\* struct does not have.
Entered(pattern, type, singleOnly) ==
    CASE pattern.kind = "Tuple" /\ FitsType(pattern, type) ->
            [i \in DOMAIN pattern.items |-> <<pattern.items[i], type.items[i]>>]
      [] pattern.kind = "Struct" /\ type.kind = "Struct" ->
            [i \in DOMAIN pattern.fields |->
                LET name == FieldName(pattern, i) IN
                <<pattern.fields[i].pattern, IF name \in DOMAIN type.fields THEN type.fields[name] ELSE Bare>>]
      [] /\ pattern.kind = "Tagged" /\ FitsType(pattern, type)
         /\ type.kind = "Enum" /\ singleOnly => DOMAIN type.variants = {pattern.tag} ->
            <<<<pattern.payload, TypePart(pattern, type, 1)>>>>
      [] OTHER -> <<>>

ToBlame(pattern, type, why) ==
    \/ type = Bare
    \/ LET analysis == AnalyzePattern(pattern, type)
       IN  IF why = "refutable" THEN ~analysis.irrefutable ELSE analysis.compatibility = "Incompatible"

\* One step of the walk from a visit: to the first part to blame, if there is one.
Blamed(v, why) ==
    LET parts == IF v.subject = Bare THEN <<>> ELSE Entered(v.pattern, v.subject, why = "refutable")
        blamed == {i \in DOMAIN parts : ToBlame(parts[i][1], parts[i][2], why)}
    IN  IF blamed = {} THEN v
        ELSE LET i == CHOOSE i \in blamed : \A j \in blamed : i <= j
             IN  Visit(Append(v.path, i), parts[i][1], parts[i][2])

FirstToBlame(pattern, type, why) ==
    LET walk[n \in Nat] ==
            IF n = 0 THEN Visit(<<>>, pattern, type) ELSE Blamed(walk[n - 1], why)
    IN  walk[MaxDepth].path

FirstRefutableLocation(pattern, type) == FirstToBlame(pattern, type, "refutable")
FirstIncompatibleLocation(pattern, type) == FirstToBlame(pattern, type, "incompatible")

----------------------------------------------------------------------------
(* Matching at run time.                                                    *)

IntValue(n) == [k |-> "Int", n |-> n]
StringValue(s) == [k |-> "String", s |-> s]
AtomValue(tag) == [k |-> "Atom", tag |-> tag]
TaggedValue(tag, payload) == [k |-> "Tagged", tag |-> tag, payload |-> payload]
TupleValue(items) == [k |-> "Tuple", items |-> items]
DictValue(fields) == [k |-> "Dict", fields |-> fields]

Matches(pattern, value) == \A v \in Visits("value", pattern, value) : FitsValue(v.pattern, v.subject)

\* <<name, value>> of every name of a pattern that matches.
Bound(pattern, value) ==
    {<<v.pattern.name, v.subject>> : v \in {v \in Visits("value", pattern, value) : v.pattern.kind = "Binding"}}
=============================================================================
