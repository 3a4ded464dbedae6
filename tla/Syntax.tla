------------------------------- MODULE Syntax -------------------------------
(***************************************************************************)
(* The core syntax of a program and what is done to it before compilation: *)
(* the resolution of names (hir.rs), the elaboration of short forms        *)
(* (elaboration.rs), and the names an expression needs (compiler.rs).      *)
(*                                                                         *)
(* An expression is a record with a kind k and its parts in order in of;   *)
(* a block is [bindings, result]; a binding is [kind, name, arity, value], *)
(* where arity is what its annotation says of it.                          *)
(***************************************************************************)
EXTENDS Patterns, SequencesExt, FiniteSetsExt

Constant(v) == [k |-> "Constant", value |-> v]
Var(name) == [k |-> "Variable", name |-> name]
Node(kind, parts) == [k |-> kind, of |-> parts]
Binary(op, left, right) == [k |-> "Binary", op |-> op, of |-> <<left, right>>]
Field(receiver, name) == [k |-> "Field", field |-> name, of |-> <<receiver>>]
\* The empty name is that of a spread.
Fields(names, parts) == [k |-> "Dict", names |-> names, of |-> parts]
Call(callee, arguments) == Node("Call", <<callee>> \o arguments)
Propagate(operand, family) == [k |-> "Propagate", family |-> family, of |-> <<operand>>]
BlockOf(bindings, result) == [bindings |-> bindings, result |-> result]
Just(result) == BlockOf(<<>>, result)
BlockExpr(block) == [k |-> "Block", block |-> block]
Closure(parameters, body) == [k |-> "Closure", parameters |-> parameters, body |-> body]
If(condition, then, else) == [k |-> "If", of |-> <<condition>>, then |-> then, else |-> else]
IfLet(pattern, value, then, else) ==
    [k |-> "IfLet", pattern |-> pattern, of |-> <<value>>, then |-> then, else |-> else]
LetElse(pattern, value, else, body) ==
    [k |-> "LetElse", pattern |-> pattern, of |-> <<value>>, else |-> else, body |-> body]
Match(value, arms) == [k |-> "Match", of |-> <<value>>, arms |-> arms]
\* A guard is the sequence of at most one expression.
Arm(pattern, guard, value) == [pattern |-> pattern, guard |-> guard, value |-> value]

\* What an annotation says: nothing, that it is no function, or its parameters.
NoAnnotation == -2
NoContract == -1
Binding(kind, name, arity, value) == [kind |-> kind, name |-> name, arity |-> arity, value |-> value]
Annotated(binding) == binding.arity # NoAnnotation
IsClosure(e) == e.k = "Closure"

\* The members of a set in an order of its own.
InOrder(set) == FoldSet(LAMBDA x, seen : Append(seen, x), <<>>, set)

RECURSIVE PatternNames(_)

\* The names a pattern binds, in order.
PatternNames(pattern) ==
    CASE pattern.kind = "Binding" -> <<pattern.name>>
      [] pattern.kind = "Tagged" -> PatternNames(pattern.payload)
      [] pattern.kind = "Tuple" ->
            FlattenSeq([i \in DOMAIN pattern.items |-> PatternNames(pattern.items[i])])
      [] pattern.kind = "Struct" ->
            FlattenSeq([i \in DOMAIN pattern.fields |-> PatternNames(pattern.fields[i].pattern)])
      [] OTHER -> <<>>

NamesOf(pattern) == ToSet(PatternNames(pattern))

----------------------------------------------------------------------------
(* Resolution: the references that no definition in scope answers.          *)

\* Known to the whole block: what is declared, types, annotated definitions and
\* closures whose name nothing visible has.
Predeclared(bindings, visible) ==
    FoldLeft(LAMBDA names, b :
                 IF \/ b.kind \in {"Decl", "Native", "Type"}
                    \/ b.kind = "Def" /\ Annotated(b)
                    \/ b.kind = "Def" /\ IsClosure(b.value) /\ b.name \notin visible \cup names
                 THEN names \cup {b.name} ELSE names,
             {}, bindings)

RECURSIVE Unresolved(_, _), UnresolvedIn(_, _)

UnresolvedInAll(parts, visible) == UNION {Unresolved(parts[i], visible) : i \in DOMAIN parts}

\* A let is known after its value, a definition in its value as well.
UnresolvedIn(block, visible) ==
    LET After(state, b) ==
            LET inside == IF b.kind = "Def" THEN state.visible \cup {b.name} ELSE state.visible
            IN  [visible |-> state.visible \cup {b.name},
                 missing |-> state.missing \cup Unresolved(b.value, inside)]
        end == FoldLeft(After, [visible |-> visible \cup Predeclared(block.bindings, visible),
                                missing |-> {}], block.bindings)
    IN  end.missing \cup Unresolved(block.result, end.visible)

Unresolved(e, visible) ==
    CASE e.k = "Constant" -> {}
      [] e.k = "Variable" -> {e.name} \ visible
      [] e.k = "Block" -> UnresolvedIn(e.block, visible)
      [] e.k = "Closure" -> UnresolvedIn(e.body, visible \cup ToSet(e.parameters))
      [] e.k = "If" ->
            Unresolved(e.of[1], visible)
            \cup UnresolvedIn(e.then, visible) \cup UnresolvedIn(e.else, visible)
      [] e.k = "IfLet" ->
            Unresolved(e.of[1], visible)
            \cup UnresolvedIn(e.then, visible \cup NamesOf(e.pattern)) \cup UnresolvedIn(e.else, visible)
      [] e.k = "LetElse" ->
            Unresolved(e.of[1], visible)
            \cup UnresolvedIn(e.else, visible) \cup UnresolvedIn(e.body, visible \cup NamesOf(e.pattern))
      [] e.k = "Match" ->
            Unresolved(e.of[1], visible)
            \cup UNION {LET inside == visible \cup NamesOf(e.arms[i].pattern) IN
                        UnresolvedInAll(e.arms[i].guard, inside) \cup Unresolved(e.arms[i].value, inside) :
                            i \in DOMAIN e.arms}
      [] OTHER -> UnresolvedInAll(e.of, visible)

----------------------------------------------------------------------------
(* Elaboration.  The names that propagation makes carry a number in the     *)
(* code; each is read in its own block alone.                               *)

True == Constant(AtomValue("True"))
False == Constant(AtomValue("False"))

Propagation(operand, family) ==
    LET subject == Var("$subject") IN
    BlockExpr(BlockOf(<<Binding("Let", "$subject", NoAnnotation, operand)>>,
        Match(subject, <<
            Arm(TaggedPattern(IF family = "Option" THEN "Some" ELSE "Ok", Bind("$payload")),
                <<>>, Var("$payload")),
            Arm(IF family = "Option" THEN AtomPattern("None") ELSE TaggedPattern("Err", Wildcard),
                <<>>, Node("Return", <<subject>>))>>)))

RECURSIVE Elaborate(_), ElaborateBlock(_)

ElaborateAll(parts) == [i \in DOMAIN parts |-> Elaborate(parts[i])]

\* if-let and let-else: the pattern's block, and the other for what is left.
TwoArms(pattern, value, matching, other) ==
    Match(Elaborate(value), <<Arm(pattern, <<>>, BlockExpr(ElaborateBlock(matching))),
                              Arm(Wildcard, <<>>, BlockExpr(ElaborateBlock(other)))>>)

Elaborate(e) ==
    CASE e.k \in {"Constant", "Variable"} -> e
      [] e.k = "Propagate" -> Propagation(Elaborate(e.of[1]), e.family)
      [] e.k = "Binary" /\ e.op = "and" ->
            If(Elaborate(e.of[1]), Just(Elaborate(e.of[2])), Just(False))
      [] e.k = "Binary" /\ e.op = "or" ->
            If(Elaborate(e.of[1]), Just(True), Just(Elaborate(e.of[2])))
      [] e.k = "Block" -> BlockExpr(ElaborateBlock(e.block))
      [] e.k = "Closure" -> Closure(e.parameters, ElaborateBlock(e.body))
      [] e.k = "If" -> If(Elaborate(e.of[1]), ElaborateBlock(e.then), ElaborateBlock(e.else))
      [] e.k = "IfLet" -> TwoArms(e.pattern, e.of[1], e.then, e.else)
      [] e.k = "LetElse" -> TwoArms(e.pattern, e.of[1], e.body, e.else)
      [] e.k = "Match" ->
            Match(Elaborate(e.of[1]),
                  [i \in DOMAIN e.arms |->
                      Arm(e.arms[i].pattern, ElaborateAll(e.arms[i].guard), Elaborate(e.arms[i].value))])
      [] e.k \notin {"Constant", "Variable", "Propagate", "Block", "Closure", "If", "IfLet",
                     "LetElse", "Match"}
         /\ ~(e.k = "Binary" /\ e.op \in {"and", "or"}) -> [e EXCEPT !.of = ElaborateAll(e.of)]

ElaborateBlock(block) ==
    BlockOf([i \in DOMAIN block.bindings |->
                [block.bindings[i] EXCEPT !.value = Elaborate(@)]],
            Elaborate(block.result))

----------------------------------------------------------------------------
(* Free names, which a closure captures.                                    *)

RECURSIVE Free(_, _), FreeIn(_, _)

FreeInAll(parts, bound) == UNION {Free(parts[i], bound) : i \in DOMAIN parts}

DeclaredIn(block) ==
    {block.bindings[i].name : i \in {i \in DOMAIN block.bindings :
                                        block.bindings[i].kind \in {"Decl", "Native"}}}

\* Only what is declared is bound before its value: the rest after it.
FreeIn(block, bound) ==
    LET After(state, b) ==
            [bound |-> state.bound \cup {b.name},
             free |-> IF b.kind \in {"Decl", "Native"} THEN state.free
                      ELSE state.free \cup Free(b.value, state.bound)]
        end == FoldLeft(After, [bound |-> bound \cup DeclaredIn(block), free |-> {}], block.bindings)
    IN  end.free \cup Free(block.result, end.bound)

Free(e, bound) ==
    CASE e.k = "Constant" -> {}
      [] e.k = "Variable" -> {e.name} \ bound
      [] e.k = "Block" -> FreeIn(e.block, bound)
      [] e.k = "Closure" -> FreeIn(e.body, ToSet(e.parameters)) \ bound
      [] e.k = "If" -> Free(e.of[1], bound) \cup FreeIn(e.then, bound) \cup FreeIn(e.else, bound)
      [] e.k = "Match" ->
            Free(e.of[1], bound)
            \cup UNION {LET inside == bound \cup NamesOf(e.arms[i].pattern) IN
                        FreeInAll(e.arms[i].guard, inside) \cup Free(e.arms[i].value, inside) :
                            i \in DOMAIN e.arms}
      [] OTHER -> FreeInAll(e.of, bound)

----------------------------------------------------------------------------
(* The names an expression may need at run time, whatever their scope.      *)

RECURSIVE RuntimeNames(_), RuntimeNamesIn(_)

RuntimeNamesInAll(parts) == UNION {RuntimeNames(parts[i]) : i \in DOMAIN parts}

RuntimeNamesIn(block) ==
    UNION {RuntimeNames(block.bindings[i].value) :
               i \in {i \in DOMAIN block.bindings : block.bindings[i].kind \in {"Let", "Def"}}}
    \cup RuntimeNames(block.result)

RuntimeNames(e) ==
    CASE e.k = "Constant" -> {}
      [] e.k = "Variable" -> {e.name}
      [] e.k = "Block" -> RuntimeNamesIn(e.block)
      [] e.k = "Closure" -> RuntimeNamesIn(e.body)
      [] e.k \in {"If", "IfLet"} ->
            RuntimeNames(e.of[1]) \cup RuntimeNamesIn(e.then) \cup RuntimeNamesIn(e.else)
      [] e.k = "LetElse" ->
            RuntimeNames(e.of[1]) \cup RuntimeNamesIn(e.else) \cup RuntimeNamesIn(e.body)
      [] e.k = "Match" ->
            RuntimeNames(e.of[1])
            \cup UNION {RuntimeNamesInAll(e.arms[i].guard) \cup RuntimeNames(e.arms[i].value) :
                            i \in DOMAIN e.arms}
      [] OTHER -> RuntimeNamesInAll(e.of)
=============================================================================
