----------------------------- MODULE MatchCheck -----------------------------
(***************************************************************************)
(* The checks of a match, of a let with a pattern, of if-let and of        *)
(* let-else (TypeInference::infer, types.rs): the arms are looked at in    *)
(* order, each against what the unguarded arms before it cover.            *)
(***************************************************************************)
EXTENDS Patterns

CONSTANTS
    ArmsFor,        \* type of the subject -> the arms to choose from
    MaxArms,        \* and how many arms
    ValuesOf        \* type -> its values

Inhabitants(type) == IF type \in DOMAIN ValuesOf THEN ValuesOf[type] ELSE {}

OneOfEach(parts) ==
    {s \in [DOMAIN parts -> UNION {Inhabitants(parts[x]) : x \in DOMAIN parts}] :
        \A x \in DOMAIN parts : s[x] \in Inhabitants(parts[x])}

\* The values of a type that is built of others.
Built(type) ==
    CASE type.kind = "Atom" -> {AtomValue(type.tag)}
      [] type.kind = "Tagged" -> {TaggedValue(type.tag, v) : v \in Inhabitants(type.payload)}
      [] type.kind = "Enum" ->
            UNION {IF type.variants[tag] = Bare THEN {AtomValue(tag)}
                   ELSE {TaggedValue(tag, v) : v \in Inhabitants(type.variants[tag])} :
                        tag \in DOMAIN type.variants}
      [] type.kind = "Tuple" -> {TupleValue(items) : items \in OneOfEach(type.items)}
      [] type.kind = "Struct" -> {DictValue(fields) : fields \in OneOfEach(type.fields)}

\* What a type that is not built of others is at run time. A type as a value is a
\* Dict or, when it is native, something else.
KindsOf(type) == IF type.kind = "Dict" THEN {"Dict", "Other"} ELSE {type.kind}

\* Nothing is known of the values of Any.
ASSUME ValuesAssumption ==
    /\ DOMAIN ArmsFor \subseteq DOMAIN ValuesOf
    /\ \A type \in DOMAIN ValuesOf :
          \/ type.kind = "Any"
          \/ type.kind \in {"Int", "String", "Dict", "Other"} /\ \A v \in ValuesOf[type] : v.k \in KindsOf(type)
          \/ type.kind \in {"Atom", "Tagged", "Enum", "Tuple", "Struct"} /\ ValuesOf[type] = Built(type)

\* No type is empty, nor is a variant of an enum; an Int or a String may be another
\* one, and what is of no known type is not all of one kind. This leaves out Never
\* and unions of one kind, and only ElseIsLive needs it.
ASSUME VarietyAssumption ==
    \A type \in DOMAIN ValuesOf :
        /\ ValuesOf[type] # {}
        /\ type.kind = "Int" => \E v, w \in ValuesOf[type] : v.n # w.n
        /\ type.kind = "String" => \E v, w \in ValuesOf[type] : v.s # w.s
        /\ type.kind = "Any" => \E v, w \in ValuesOf[type] : v.k # w.k
        /\ type.kind = "Enum" => \A tag \in DOMAIN type.variants :
              type.variants[tag] = Bare \/ type.variants[tag] \in DOMAIN ValuesOf

\* Patterns are trees that end within the bound.
ASSUME PatternsAssumption ==
    \A type \in DOMAIN ArmsFor : \A arm \in ArmsFor[type] :
        /\ Levels("type", arm.pattern, type)[MaxDepth + 1] = {}
        /\ \A v \in Visits("type", arm.pattern, type) :
              v.pattern.kind \in PatternKinds /\ DOMAIN PatternParts(v.pattern) \subseteq Nat

VARIABLES
    matched,            \* the type of the subject
    form,               \* "match", "let", "if let" or "let else"
    arms,               \* those looked at: [pattern, guarded]
    covered_variants,
    all_values_covered,
    diagnostics,        \* place -> what is reported there
    phase

\* A place is the arm, with the path into its pattern; the match is <<>>. What
\* patterns report of themselves has places of its own.
At(arm, path) == <<arm, path>>
Problem == <<-1>>
Duplicate == <<-2>>

\* The first report at a place stays (entry(..).or_insert).
Report(reports) ==
    LET Made(place) == {i \in DOMAIN reports : reports[i].when /\ reports[i].at = place}
        First(place) == CHOOSE i \in Made(place) : \A j \in Made(place) : i <= j
        known == DOMAIN diagnostics
        new == {reports[i].at : i \in {i \in DOMAIN reports : reports[i].when}} \ known
    IN  [place \in known \cup new |->
            IF place \in known THEN diagnostics[place] ELSE reports[First(place)].why]

When(condition, place, why) == [when |-> condition, at |-> place, why |-> why]

MatchInit ==
    /\ matched \in DOMAIN ArmsFor
    /\ form \in {"match", "let", "if let", "let else"}
    /\ arms = <<>> /\ covered_variants = {} /\ all_values_covered = FALSE
    /\ diagnostics = [x \in {} |-> ""]
    /\ phase = "arms"

\* Mutant: an arm is redundant as soon as one of its variants is covered.
RedundantInPart(analysis) == analysis.possible \cap covered_variants # {}

\* All the variants of an arm are covered already: nothing reaches it.
Redundant(analysis) ==
    analysis.possible # {} /\ analysis.possible \subseteq covered_variants

\* Mutant: a guard is taken to hold.
CoversThoughGuarded(arm) == TRUE

\* An arm with a guard may decline whatever it matches.
Covers(arm) == ~arm.guarded

ArmAnalyzed(arm, analysis) ==
    LET n == Len(arms) + 1
        required == form = "let"
        covered == IF Covers(arm) THEN covered_variants \cup analysis.covered ELSE covered_variants
    IN  /\ phase = "arms" /\ form \in {"match", "let"}
        /\ Len(arms) < (IF form = "let" THEN 1 ELSE MaxArms[matched])
        /\ form = "let" => ~arm.guarded
        /\ arms' = Append(arms, arm)
        /\ diagnostics' = Report(<<
              When(analysis.compatibility = "Incompatible" /\ ~required /\ ~analysis.problems,
                   At(n, FirstIncompatibleLocation(arm.pattern, matched)), "incompatible"),
              When(required /\ ~analysis.irrefutable,
                   At(n, FirstRefutableLocation(arm.pattern, matched)), "refutable"),
              When(all_values_covered \/ Redundant(analysis), At(n, <<>>), "unreachable"),
              When(analysis.problems, At(n, Problem), "problem"),
              When(analysis.duplicates # {}, At(n, Duplicate), "duplicate")>>)
        /\ covered_variants' = covered
        /\ all_values_covered' =
              \/ all_values_covered
              \/ /\ Covers(arm)
                 /\ \/ analysis.irrefutable
                    \/ matched.kind = "Enum" /\ DOMAIN matched.variants \subseteq covered
        /\ UNCHANGED <<matched, form, phase>>

CheckArm(arm) == ArmAnalyzed(arm, AnalyzePattern(arm.pattern, matched))

\* Every variant of an enum has to be covered; of other types nothing is asked.
CheckMissing ==
    /\ phase = "arms" /\ form \in {"match", "let"} /\ arms # <<>>
    /\ diagnostics' = Report(<<
          When(matched.kind = "Enum" /\ ~(DOMAIN matched.variants \subseteq covered_variants),
               <<>>, "missing")>>)
    /\ phase' = "done"
    /\ UNCHANGED <<matched, form, arms, covered_variants, all_values_covered>>

IfLetAnalyzed(arm, analysis) ==
    /\ phase = "arms" /\ form = "if let" /\ ~arm.guarded
    /\ arms' = <<arm>>
    /\ diagnostics' = Report(<<
          When(analysis.compatibility = "Incompatible" /\ ~analysis.problems,
               At(1, FirstIncompatibleLocation(arm.pattern, matched)), "incompatible"),
          When(analysis.problems, At(1, Problem), "problem")>>)
    /\ phase' = "done"
    /\ UNCHANGED <<matched, form, covered_variants, all_values_covered>>

CheckIfLet(arm) == IfLetAnalyzed(arm, AnalyzePattern(arm.pattern, matched))

LetElseAnalyzed(arm, analysis) ==
    /\ phase = "arms" /\ form = "let else" /\ ~arm.guarded
    /\ arms' = <<arm>>
    /\ diagnostics' = Report(<<
          When(analysis.irrefutable, At(1, <<>>), "irrefutable"),
          When(analysis.compatibility = "Incompatible" /\ ~analysis.problems, At(1, <<>>), "incompatible"),
          When(analysis.problems, At(1, Problem), "problem")>>)
    /\ phase' = "done"
    /\ UNCHANGED <<matched, form, covered_variants, all_values_covered>>

CheckLetElse(arm) == LetElseAnalyzed(arm, AnalyzePattern(arm.pattern, matched))

MatchNext ==
    \/ \E arm \in ArmsFor[matched] : CheckArm(arm) \/ CheckIfLet(arm) \/ CheckLetElse(arm)
    \/ CheckMissing

matchVars == <<matched, form, arms, covered_variants, all_values_covered, diagnostics, phase>>

MatchSpec == MatchInit /\ [][MatchNext]_matchVars

----------------------------------------------------------------------------
\* Whatever the guards say, value is taken by one of these arms.
Taken(value, n) == \E i \in 1..n : ~arms[i].guarded /\ Matches(arms[i].pattern, value)

Reported(i, why) == \E place \in DOMAIN diagnostics :
    place # <<>> /\ place[1] = i /\ diagnostics[place] = why

----------------------------------------------------------------------------
\* A match of an enum and a let with a pattern of which nothing is reported take
\* every value of the type, whatever the guards say: Fail is never run
\* (compile_match, types.rs:5989).
MatchNeverFails ==
    (/\ phase = "done" /\ form \in {"match", "let"} /\ DOMAIN diagnostics = {}
     /\ form = "let" \/ matched.kind = "Enum")
        => \A value \in ValuesOf[matched] : Taken(value, Len(arms))

\* What is reported is so: an arm that cannot match matches no value of the type,
\* what reaches an unreachable arm does not match it, the else of a let-else
\* whose pattern is irrefutable never runs; and a name is bound to a value of
\* the type it is given.
ReportsAreTrue ==
    arms # <<>> =>
        LET i == Len(arms)
            pattern == arms[i].pattern
            analysis == AnalyzePattern(pattern, matched)
        IN  \A value \in ValuesOf[matched] :
                /\ Matches(pattern, value) => ~Reported(i, "incompatible")
                /\ (Matches(pattern, value) /\ Reported(i, "unreachable")) => Taken(value, i - 1)
                /\ Reported(i, "irrefutable") => Matches(pattern, value)
                /\ (Matches(pattern, value) /\ analysis.duplicates = {})
                      => \A b \in analysis.bindings, x \in Bound(pattern, value) :
                            (x[1] = b.name /\ b.type # AnyType) => x[2] \in ValuesOf[b.type]

\* A let-else of which nothing is reported can take its else: some value of the
\* type does not match the pattern (types.rs:5932).
ElseIsLive ==
    (phase = "done" /\ form = "let else" /\ DOMAIN diagnostics = {})
        => \E value \in ValuesOf[matched] : ~Matches(arms[1].pattern, value)
=============================================================================
