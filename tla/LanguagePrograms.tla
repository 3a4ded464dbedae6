-------------------------- MODULE LanguagePrograms --------------------------
(***************************************************************************)
(* The programs that the compiler is tried on: every choice of a few       *)
(* bindings over a few names, every expression in a few places, and every  *)
(* choice of types and values that depend on each other.                   *)
(***************************************************************************)
EXTENDS Operations

N(n) == Constant(IntValue(n))
A(tag) == Constant(AtomValue(tag))
S(text) == Constant(StringValue(<<text>>))
X == Var("x")
Y == Var("y")
Fn(parameters, result) == Closure(parameters, Just(result))
Let(name, value) == Binding("Let", name, NoAnnotation, value)
Def(name, value) == Binding("Def", name, NoAnnotation, value)
Decl(name, arity) == Binding("Decl", name, arity, N(0))
Type(name, needs) == Binding("Type", name, NoAnnotation, needs)

\* All sequences of at most n members.
UpTo(n, set) == UNION {[1..k -> set] : k \in 0..n}

----------------------------------------------------------------------------
(* Scopes.                                                                  *)

\* Calls another on less, until nothing is left.
Down(name) ==
    Fn(<<"y">>, If(Binary("<", Y, N(1)), Just(X), Just(Call(Var(name), <<Binary("-", Y, N(1))>>))))

ScopeBindings == {
    Let("x", Binary("+", X, N(1))), Let("x", Call(Var("f"), <<N(1)>>)),
    Let("y", Fn(<<>>, X)), Let("y", Fn(<<>>, Fn(<<>>, Call(Var("f"), <<X>>)))),
    Decl("f", 1), Decl("g", NoContract),
    Def("f", Down("f")), Def("f", Down("g")), Def("g", Down("f")), Def("g", X),
    Binding("Def", "g", 0, Fn(<<"y">>, Y)) }

ScopeResults == { X, Call(Var("f"), <<N(1)>>), Call(Var("g"), <<N(2)>>), Call(Call(Y, <<>>), <<>>) }

\* The bindings of a function's own block: what they name may lie ahead.
InnerBindings == {
    Let("x", Call(Var("f"), <<N(1)>>)), Decl("f", 1), Def("f", Down("f")), Def("f", Down("g")),
    Def("g", Down("f")), Def("g", Fn(<<>>, X)) }

Scopes ==
    {BlockOf(<<Let("x", N(0))>> \o bindings, result) :
        bindings \in UpTo(3, ScopeBindings), result \in ScopeResults}
    \cup {BlockOf(<<Let("x", N(0)), Let("y", Closure(<<>>, BlockOf(bindings, result)))>>, Call(Y, <<>>)) :
        bindings \in UpTo(3, InnerBindings), result \in {X, Call(Var("f"), <<N(1)>>)}}

----------------------------------------------------------------------------
(* Expressions, over x and f.                                               *)

Some(e) == Call(A("Some"), <<e>>)
Spread(e) == Node("Spread", <<e>>)
Array(parts) == Node("Array", parts)
Tuple(parts) == Node("Tuple", parts)
TwoFields == <<FieldPattern("a", Bind("y")), FieldPattern("b", IntPattern(1))>>
Blame(message) == Fields(<<"rule", "message", "data">>, <<N(0), message, X>>)

Values == {
    N(3), A("True"), A("False"), A("None"), S("s"), X, Some(X), Call(A("Err"), <<S("e")>>),
    Call(A("Ok"), <<Some(N(1))>>), Tuple(<<X, N(1)>>), Array(<<X, Spread(Array(<<N(2), X>>))>>),
    Fields(<<"a", "b">>, <<X, N(1)>>), Fields(<<"a", "", "b">>, <<X, Fields(<<"a">>, <<N(2)>>), N(1)>>),
    Fn(<<"y">>, Y) }

Failing == {
    Binary("+", X, N(3)), Binary("/", N(1), N(0)), Binary("/", N(-3), N(2)), Binary("+", X, S("s")),
    Node("Negate", <<N(-4)>>), Node("Negate", <<S("s")>>), Binary("<", A("True"), N(1)),
    Array(<<Spread(X)>>), Fields(<<"">>, <<X>>), Fields(<<"a", "a">>, <<X, X>>),
    Field(Fields(<<"a">>, <<X>>), "b"), Field(X, "a"), Call(X, <<X>>), Call(A("Some"), <<>>),
    Call(Var("f"), <<X, X>>), Node("Panic", <<S("s")>>), Node("Panic", <<X>>),
    Node("Raise", <<Blame(S("m"))>>), Node("Raise", <<Blame(X)>>), Node("Raise", <<X>>),
    Node("Interpolate", <<S("s"), Tuple(<<>>)>>), Fn(<<"y", "y">>, Y),
    Match(X, <<Arm(TuplePattern(<<Bind("y"), Bind("y")>>), <<>>, Y)>>) }

\* Expressions around another.
Around(e) == {
    Binary("*", e, N(2)), Binary("==", e, X), Node("Interpolate", <<S("s"), e, X>>),
    Binary("and", e, Binary("==", X, N(1))), Binary("or", e, X),
    Propagate(e, "Option"), Tuple(<<N(1), Propagate(e, "Result")>>), Node("Return", <<e>>),
    Call(Var("f"), <<e>>), Call(e, <<N(1)>>), Node("TypeApply", <<e>>), Field(e, "a"),
    If(e, BlockOf(<<Let("x", N(2))>>, X), Just(Node("Return", <<X>>))),
    IfLet(TaggedPattern("Some", Bind("y")), e, Just(Fn(<<>>, Tuple(<<X, Y>>))), Just(X)),
    LetElse(StructPattern(TwoFields), e, Just(Node("Return", <<X>>)), Just(Y)),
    Match(e, <<Arm(TuplePattern(<<Wildcard, Bind("y")>>), <<Binary("<", Y, X)>>, Y),
               Arm(TuplePattern(<<Bind("y"), IntPattern(1)>>), <<>>, Call(Fn(<<>>, Y), <<>>)),
               Arm(StringPattern(<<"s">>), <<X>>, X), Arm(AtomPattern("None"), <<>>, N(2)),
               Arm(TaggedPattern("Ok", TaggedPattern("Some", Bind("y"))), <<>>, Y)>>) }

\* An expression in a function, in an argument, before what is in tail position.
Places(e) == {Call(Fn(<<>>, e), <<>>), Call(Fn(<<>>, Call(Var("f"), <<e>>)), <<>>),
              Call(Fn(<<>>, Binary("+", N(1), e)), <<>>)}

\* Functions alone return; a descriptor of the prelude is named in one and outside.
Expressions ==
    {BlockOf(<<Let("x", N(1)), Def("f", Fn(<<"y">>, Tuple(<<X, Y>>)))>>, place) :
        place \in UNION {Places(e) : e \in Failing \cup Values \cup UNION {Around(v) : v \in Values}}
                 \cup Failing \cup Values \cup {Propagate(v, family) : v \in Values, family \in {"Option", "Result"}}
                 \cup {Var("Int"), Tuple(<<Var("Int"), X>>), Call(Var("f"), <<Var("Int")>>),
                       Binary("==", Var("Int"), X), Call(Fn(<<>>, Var("Int")), <<>>),
                       Call(Fn(<<"y">>, Binary("==", Y, X)), <<Var("Int")>>)}}

----------------------------------------------------------------------------
(* Types, which may need values, and values which may need types.           *)

TypeBindings == {
    Let("x", N(1)), Let("y", X), Let("y", Tuple(<<Var("T")>>)), Binding("Def", "z", NoContract, X),
    Type("T", X), Type("U", Tuple(<<Y, Var("z")>>)), Type("U", Var("T")) }

\* One of each type and definition, in any order.
EachOnce(bindings) ==
    \A i, j \in DOMAIN bindings :
        bindings[i].kind # "Let" /\ bindings[i].name = bindings[j].name => i = j

Typed == {BlockOf(bindings, result) :
              bindings \in {b \in UpTo(4, TypeBindings) : EachOnce(b)},
              result \in {N(1), X, Y, Var("T"), Tuple(<<Var("U"), Y>>)}}

AllPrograms == Scopes \cup Expressions \cup Typed

----------------------------------------------------------------------------
(* Names of definitions that lets and patterns have too.                    *)

Identity == Def("f", Fn(<<"y">>, Y))

Shadowing == {
    BlockOf(<<Identity>>, Match(N(1), <<Arm(Bind("f"), <<>>, Var("f"))>>)),
    BlockOf(<<Identity>>, BlockExpr(BlockOf(<<Let("f", N(1))>>, Call(Fn(<<>>, Var("f")), <<>>)))) }
=============================================================================
