----------------------------- MODULE MCLanguage -----------------------------
(***************************************************************************)
(* What is done to the text of a program before and while it runs: its     *)
(* matches are checked (MatchCheck), the rest is compiled and executed     *)
(* (Meaning).  They share no state here: one of them runs, the other       *)
(* stands still.                                                           *)
(***************************************************************************)
EXTENDS Meaning, MatchCheck, LanguagePrograms

CONSTANTS Subjects, Ints, Strings

VARIABLE part

NoMatch ==
    /\ matched = <<>> /\ form = "none" /\ arms = <<>> /\ covered_variants = {}
    /\ all_values_covered = FALSE /\ diagnostics = <<>> /\ phase = "none"

NoProgram ==
    /\ program = <<>> /\ code = <<>> /\ frames = <<>> /\ links = <<>>
    /\ outcome = [kind |-> "none", value |-> Unset]

LanguageInit ==
    /\ part \in Subjects
    /\ \/ part = "match" /\ MatchInit /\ NoProgram
       \/ part = "program" /\ MachineInit /\ NoMatch

LanguageNext ==
    /\ UNCHANGED part
    /\ \/ part = "match" /\ MatchNext /\ UNCHANGED machineVars
       \/ part = "program" /\ MachineNext /\ UNCHANGED matchVars

LanguageVars == <<part, matchVars, machineVars>>

LanguageSpec == LanguageInit /\ [][LanguageNext]_LanguageVars

----------------------------------------------------------------------------
(* Types and the arms tried on them.                                        *)

Two == EnumType("A" :> Bare @@ "B" :> IntType)
Three == EnumType("A" :> Bare @@ "B" :> Two @@ "C" :> Bare)
One == EnumType("B" :> IntType)
Pair == TupleType(<<Two, IntType>>)
Record == StructType("x" :> One @@ "y" :> IntType)
TwoPatterns ==
    {Wildcard, Bind("v"), IntPattern(0), AtomPattern("A"), AtomPattern("B"),
     TaggedPattern("B", Wildcard), TaggedPattern("B", IntPattern(0)), TaggedPattern("B", Bind("v")),
     TaggedPattern("A", Wildcard)}

ThreePatterns ==
    {Wildcard, AtomPattern("A"), AtomPattern("C"), TaggedPattern("B", Wildcard),
     TaggedPattern("B", AtomPattern("A")), TaggedPattern("B", TaggedPattern("B", Bind("v")))}

PairPatterns ==
    {TuplePattern(<<p, q>>) : p \in TwoPatterns, q \in {Wildcard, IntPattern(1), Bind("v")}}
    \cup {TuplePattern(<<Bind("v")>>)}

RecordPatterns ==
    {StructPattern(<<FieldPattern(n, p), FieldPattern(m, q)>>) :
        n \in {"x", "y"}, m \in {"y", "z"},
        p \in {Bind("v"), TaggedPattern("B", Bind("w")), AtomPattern("A")}, q \in {Bind("v"), IntPattern(0)}}
    \cup {StructPattern(<<>>)}

PatternsOf(type) ==
    CASE type = Three -> ThreePatterns
      [] type = Pair -> PairPatterns
      [] type = Record -> RecordPatterns
      [] OTHER -> TwoPatterns \cup {TuplePattern(<<Wildcard>>), StructPattern(<<>>)}

Guardable == {Wildcard, TaggedPattern("B", Bind("v")), AtomPattern("A")}

MCArmsFor ==
    [type \in {Two, Three, One, Pair, Record, IntType, DictType, OtherType, AnyType, AtomType("A"),
               TaggedType("B", Two), TaggedType("B", IntType)} |->
        {arm \in [pattern : PatternsOf(type), guarded : BOOLEAN] : arm.guarded => arm.pattern \in Guardable}]

MCMaxArms == [type \in DOMAIN MCArmsFor |-> IF type \in {Pair, Record, AnyType, IntType, DictType, OtherType} THEN 2 ELSE 3]

SomeOfAny ==
    LET atoms == {IntValue(n) : n \in Ints} \cup {AtomValue("A"), AtomValue("B")} IN
    atoms \cup {TaggedValue("B", v) : v \in atoms} \cup {TupleValue(<<v>>) : v \in atoms}
          \cup {TupleValue(<<v, v>>) : v \in atoms} \cup {DictValue([x \in {"x"} |-> v]) : v \in atoms}

RECURSIVE AllOf(_)
AllOf(type) ==
    LET OfParts(parts) ==
            {s \in [DOMAIN parts -> UNION {AllOf(parts[x]) : x \in DOMAIN parts}] :
                \A x \in DOMAIN parts : s[x] \in AllOf(parts[x])}
    IN  CASE type.kind = "Int" -> {IntValue(n) : n \in Ints}
          [] type.kind = "String" -> {StringValue(s) : s \in Strings}
          [] type.kind = "Any" -> SomeOfAny
          [] type.kind = "Dict" -> {v \in SomeOfAny : v.k = "Dict"} \cup {[k |-> "Other"]}
          [] type.kind = "Other" -> {[k |-> "Other"]}
          [] type.kind = "Atom" -> {AtomValue(type.tag)}
          [] type.kind = "Tagged" -> {TaggedValue(type.tag, v) : v \in AllOf(type.payload)}
          [] type.kind = "Enum" ->
                UNION {IF type.variants[tag] = Bare THEN {AtomValue(tag)}
                       ELSE {TaggedValue(tag, v) : v \in AllOf(type.variants[tag])} :
                            tag \in DOMAIN type.variants}
          [] type.kind = "Tuple" -> {TupleValue(items) : items \in OfParts(type.items)}
          [] type.kind = "Struct" -> {DictValue(fields) : fields \in OfParts(type.fields)}

MCValuesOf == [type \in DOMAIN MCArmsFor |-> AllOf(type)]

----------------------------------------------------------------------------
MCLocated == "Int" :> [k |-> "Type", name |-> "Int"]
MCExternal == [x \in {} |-> 0]
=============================================================================
