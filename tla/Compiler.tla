------------------------------ MODULE Compiler ------------------------------
(***************************************************************************)
(* From an elaborated program to functions of instructions (compiler.rs,   *)
(* lir.rs).  A compiler state is a record c: the items emitted so far, the *)
(* next register and label, the register of each name, which names stand   *)
(* for up-links and which of those are ready, the types and descriptors    *)
(* the program retains, and the first error.                               *)
(*                                                                         *)
(* A constant is kept in its LoadConst.  definition_bindings is left out:  *)
(* nothing reads it.                                                       *)
(***************************************************************************)
EXTENDS Operations

CONSTANTS
    External,   \* name -> value: what the host, imports and native functions give
    Located     \* name -> value: descriptors of the prelude, loaded where named

Fail(c, why) == IF c.error = "" THEN [c EXCEPT !.error = why] ELSE c
Check(c, holds, why) == IF holds THEN c ELSE Fail(c, why)

Emit(c, op) == [c EXCEPT !.items = Append(@, op)]
Allocate(c) == [c EXCEPT !.next_register = @ + 1]
NewLabel(c) == [c EXCEPT !.next_label = @ + 1]
MarkLabel(c, label) == Emit(c, [op |-> "Label", label |-> label])
Define(c, name, r) == [c EXCEPT !.environment = (name :> r) @@ @]

\* A compiled expression is in register r.
Done(c, r) == [c |-> c, r |-> r]

\* An instruction that writes a new register.
Into(c, op) == Done(Emit(Allocate(c), [op EXCEPT !.dst = c.next_register]), c.next_register)
New == 0

LoadConstant(c, v) == Into(c, [op |-> "LoadConst", dst |-> New, value |-> v])

\* A jump over what follows unless the condition holds; label is c.next_label.
Unless(c, condition) ==
    NewLabel(Emit(c, [op |-> "JumpIfFalse", condition |-> condition, target |-> c.next_label]))

----------------------------------------------------------------------------
(* Patterns: a test falls through when it holds. The result also has the    *)
(* labels of the tests and the names bound.                                 *)

Testing(c) == [c |-> c, failures |-> <<>>, names |-> {}]
Advanced(p, c) == [p EXCEPT !.c = c]

\* A condition computed into a new register, and the jump for its failure.
Test(p, op) ==
    LET tested == Into(p.c, op)
        jumped == Unless(tested.c, tested.r)
    IN  [p EXCEPT !.c = jumped, !.failures = Append(@, tested.c.next_label)]

TestEqual(p, value, constant) ==
    LET expected == LoadConstant(p.c, constant) IN
    Test(Advanced(p, expected.c), [op |-> "==", dst |-> New, of |-> <<value, expected.r>>])

RECURSIVE CompilePattern(_, _, _)

\* A part of the value into a register, matched against its pattern.
MatchPart(p, pattern, op) ==
    LET part == Into(p.c, op) IN CompilePattern(Advanced(p, part.c), pattern, part.r)

CompileField(p, value, field, repeated) ==
    LET tested == Test(Advanced(p, Check(p.c, ~repeated, "duplicate field")),
                       [op |-> "FieldExists", dst |-> New, of |-> <<value>>, field |-> field.name])
    IN  MatchPart(tested, field.pattern,
                  [op |-> "GetField", dst |-> New, of |-> <<value>>, field |-> field.name])

CompilePattern(p, pattern, value) ==
    CASE pattern.kind = "Wildcard" -> p
      [] pattern.kind = "Binding" ->
            [Advanced(p, Define(Check(p.c, pattern.name \notin p.names, "duplicate binding"),
                                pattern.name, value))
                EXCEPT !.names = @ \cup {pattern.name}]
      [] pattern.kind = "Int" -> TestEqual(p, value, IntValue(pattern.value))
      [] pattern.kind = "String" -> TestEqual(p, value, StringValue(pattern.value))
      [] pattern.kind = "Atom" -> TestEqual(p, value, AtomValue(pattern.tag))
      [] pattern.kind = "Tagged" ->
            LET expected == LoadConstant(p.c, AtomValue(pattern.tag))
                tested == Test(Advanced(p, expected.c),
                    [op |-> "TaggedTagEquals", dst |-> New, of |-> <<value, expected.r>>])
            IN  MatchPart(tested, pattern.payload,
                          [op |-> "GetTaggedPayload", dst |-> New, of |-> <<value>>])
      [] pattern.kind = "Tuple" ->
            FoldLeft(LAMBDA q, i :
                         MatchPart(q, pattern.items[i],
                                   [op |-> "GetTuple", dst |-> New, of |-> <<value>>, index |-> i]),
                     Test(p, [op |-> "TupleLengthEquals", dst |-> New, of |-> <<value>>,
                              length |-> Len(pattern.items)]),
                     [i \in DOMAIN pattern.items |-> i])
      [] pattern.kind = "Struct" ->
            FoldLeft(LAMBDA q, i :
                         CompileField(q, value, pattern.fields[i],
                             \E j \in 1..i-1 : pattern.fields[j].name = pattern.fields[i].name),
                     Test(p, [op |-> "IsDict", dst |-> New, of |-> <<value>>]),
                     [i \in DOMAIN pattern.fields |-> i])

\* The code of an expression for its value, or in tail position.
RECURSIVE Compiled(_, _, _)

CompileExpr(c, e) == Compiled(c, e, FALSE)
CompileTail(c, e) == Compiled(c, e, TRUE).c
CompileBlock(c, block) == CompileExpr(c, BlockExpr(block))
CompileTailBlock(c, block) == CompileTail(c, BlockExpr(block))

----------------------------------------------------------------------------
(* Blocks.                                                                  *)



\* Natives may hide nothing, and nothing else in the block has their names.
CheckNatives(c, bindings) ==
    LET native == {i \in DOMAIN bindings : bindings[i].kind = "Native"} IN
    Check(c, \A i \in native :
                /\ bindings[i].name \notin DOMAIN c.environment
                /\ \A j \in DOMAIN bindings \ {i} : bindings[j].name # bindings[i].name,
          "native")

ContractArity(b) ==
    CASE b.arity >= 0 -> b.arity
      [] b.arity < 0 /\ IsClosure(b.value) -> Len(b.value.parameters)
      [] OTHER -> NoContract

\* Names with an up-link: those declared, annotated, or defined as a closure.
\* links maps them to [register, arity]; order is that of the bindings.
Predeclare(state, b) ==
    LET known == b.name \in DOMAIN state.links
        c == Check(Check(state.c, ~known, "duplicate declaration"),
                   b.name \notin state.outer, "shadows a definition")
    IN  IF \/ b.kind = "Decl"
           \/ b.kind = "Def" /\ Annotated(b)
           \/ b.kind = "Def" /\ IsClosure(b.value) /\ ~known
        THEN [state EXCEPT
                !.c = [Define(Emit(Allocate(c), [op |-> "MakeUpLink", dst |-> c.next_register]),
                              b.name, c.next_register)
                          EXCEPT !.links = @ \cup {b.name}],
                !.links = (b.name :> [register |-> c.next_register, arity |-> ContractArity(b)]) @@ @,
                !.order = Append(@, b.name)]
        ELSE state

\* One definition of a name, and only declarations and definitions of a declared one.
CheckDefinitions(c, bindings, links) ==
    LET defs == {i \in DOMAIN bindings : bindings[i].kind = "Def"} IN
    Check(Check(c, \A i, j \in defs : bindings[i].name = bindings[j].name => i = j, "defined twice"),
          \A i \in DOMAIN bindings :
             bindings[i].name \in DOMAIN links => bindings[i].kind \in {"Decl", "Def"},
          "conflicts with a declaration")

\* A let, or a definition without an up-link, names its value from here on.
NameValue(value, b) ==
    [Define(value.c, b.name, value.r) EXCEPT !.links = @ \ {b.name}]

\* A definition fills its up-link, after its arity has been looked at.
FillLink(value, b, link) ==
    LET asserted == IF link.arity = NoContract THEN value.c
                    ELSE Emit(value.c, [op |-> "AssertFunctionArity", of |-> <<value.r>>, arity |-> link.arity])
    IN  [Emit(asserted, [op |-> "InitializeUpLink", link |-> link.register, of |-> <<value.r>>])
            EXCEPT !.ready = @ \cup {b.name}]

CompileBinding(c, b, links) ==
    LET declared == b.name \in DOMAIN links
        visible == Check(c, b.kind = "Def" /\ ~declared => b.name \notin DOMAIN c.environment,
                         "shadows a visible binding")
        value == CompileExpr(visible, b.value)
    IN  CASE b.kind = "Decl" -> c
          [] b.kind = "Type" ->
                IF b.name \notin c.retained THEN c
                ELSE LET type == LoadConstant(c, [k |-> "Type", name |-> b.name])
                     IN  Define(type.c, b.name, type.r)
          [] b.kind \in {"Import", "Native"} ->
                LET given == LoadConstant(Check(c, b.name \in DOMAIN External, "unresolved"),
                                          External[b.name])
                IN  Define(given.c, b.name, given.r)
          [] b.kind \in {"Let", "Def"} ->
                IF b.kind = "Def" /\ declared
                THEN FillLink(value, b, links[b.name])
                ELSE NameValue(value, b)

\* All but the result: every up-link is filled by then.
CompileBindings(c, bindings) ==
    LET start == [c |-> CheckNatives(c, bindings), outer |-> DOMAIN c.environment,
                  links |-> [x \in {} |-> 0], order |-> <<>>]
        declared == FoldLeft(Predeclare, start, bindings)
        checked == CheckDefinitions(declared.c, bindings, declared.links)
        bound == FoldLeft(LAMBDA d, b : CompileBinding(d, b, declared.links), checked, bindings)
    IN  FoldLeft(LAMBDA d, x : Emit(d, [op |-> "AssertUpLinkReady", link |-> declared.links[x].register]),
                 bound, declared.order)

\* The scope of c again.
Leave(inner, c) ==
    [inner EXCEPT !.environment = c.environment, !.links = c.links, !.ready = c.ready]

BlockValue(c, block) ==
    [CompileExpr(CompileBindings(c, block.bindings), block.result) EXCEPT !.c = Leave(@, c)]

BlockLeave(c, block) ==
    Leave(CompileTail(CompileBindings(c, block.bindings), block.result), c)

----------------------------------------------------------------------------
(* Expressions.                                                             *)

\* In order; the registers of the results in r.
CompileMany(c, parts) ==
    FoldLeft(LAMBDA done, e :
                 LET one == CompileExpr(done.c, e) IN Done(one.c, Append(done.r, one.r)),
             Done(c, <<>>), parts)

\* A name in scope; one that stands for an up-link is read.
CompileVariable(c, name) ==
    CASE name \in DOMAIN c.located -> LoadConstant(c, c.located[name])
      [] name \notin DOMAIN c.located \cup DOMAIN c.environment -> Done(Fail(c, "unknown binding"), 0)
      [] OTHER ->
            IF name \in c.links
            THEN Into(c, [op |-> "ReadUpLink", dst |-> New, link |-> c.environment[name]])
            ELSE Done(c, c.environment[name])

\* The callee and its arguments side by side in new registers.
CompileCallWindow(c, e) ==
    LET parts == CompileMany(c, e.of)
    IN  Done(FoldLeft(LAMBDA d, r : Into(d, [op |-> "Move", dst |-> New, of |-> <<r>>]).c,
                      parts.c, parts.r),
             parts.c.next_register)

CallOf(op, base, e) == [op |-> op, base |-> base, arguments |-> Len(e.of) - 1]

\* Arrays and dicts with spreads: the parts one by one, then all of them merged.
IsSpread(e) == e.k = "Spread"

CompileSpreadPart(c, e, wrapped) ==
    IF IsSpread(e) THEN CompileExpr(c, e.of[1])
    ELSE LET one == CompileExpr(c, e)
         IN  Into(one.c, [wrapped EXCEPT !.of = <<one.r>>])

CompileSpread(c, e, merge, wrapped) ==
    LET parts == FoldLeft(LAMBDA done, i :
                     LET one == CompileSpreadPart(done.c, e.of[i], wrapped[i])
                     IN  Done(one.c, Append(done.r, one.r)),
                 Done(c, <<>>), [i \in DOMAIN e.of |-> i])
    IN  Into(parts.c, [op |-> merge, dst |-> New, of |-> parts.r])

CompileArray(c, e) ==
    IF \E i \in DOMAIN e.of : IsSpread(e.of[i])
    THEN CompileSpread(c, e, "ConcatArrays", [i \in DOMAIN e.of |-> [op |-> "MakeArray", dst |-> New, of |-> <<>>]])
    ELSE LET parts == CompileMany(c, e.of) IN Into(parts.c, [op |-> "MakeArray", dst |-> New, of |-> parts.r])

RepeatedName(names) ==
    \E i, j \in DOMAIN names : i < j /\ names[i] = names[j] /\ names[i] # ""

CompileDict(c, e) ==
    LET unique == Check(c, ~RepeatedName(e.names), "duplicate field")
        parts == CompileMany(unique, e.of)
    IN  IF \E i \in DOMAIN e.names : e.names[i] = ""
        THEN CompileSpread(unique, e, "MergeDicts",
                 [i \in DOMAIN e.of |-> [op |-> "MakeDict", dst |-> New, of |-> <<>>, names |-> <<e.names[i]>>]])
        ELSE Into(parts.c, [op |-> "MakeDict", dst |-> New, of |-> parts.r, names |-> e.names])

\* Operations on the registers of the parts.
CompileOperation(c, e) ==
    LET parts == CompileMany(c, e.of)
        op == [op |-> IF e.k = "Binary" THEN e.op ELSE e.k, dst |-> New, of |-> parts.r]
    IN  Into(parts.c, IF e.k = "Field" THEN [op |-> "GetField", dst |-> New, of |-> parts.r, field |-> e.field]
                      ELSE op)

\* Return, panic and raise leave; what follows takes the register of the operand.
CompileLeaving(c, e) ==
    LET operand == CompileExpr(c, e.of[1])
    IN  Done(Emit(operand.c, [op |-> e.k, of |-> <<operand.r>>]), operand.r)

\* The value of a branch goes to the register of the result.
MoveTo(result, branch) == Emit(branch.c, [op |-> "Move", dst |-> result, of |-> <<branch.r>>])

\* After the branch that is taken comes the other, at its label.
CompileElse(then, else, e) ==
    LET result == then.c.next_register
        end == then.c.next_label
        left == Emit(MoveTo(result, [then EXCEPT !.c = NewLabel(Allocate(@))]), [op |-> "Jump", target |-> end])
    IN  Done(MarkLabel(MoveTo(result, CompileBlock(MarkLabel(left, else), e.else)), end), result)

CompileIf(c, e) ==
    LET condition == CompileExpr(c, e.of[1])
    IN  CompileElse(CompileBlock(Unless(condition.c, condition.r), e.then), condition.c.next_label, e)

CompileTailIf(c, e) ==
    LET condition == CompileExpr(c, e.of[1])
        then == CompileTailBlock(Unless(condition.c, condition.r), e.then)
    IN  CompileTailBlock(MarkLabel(then, condition.c.next_label), e.else)

\* Arms one after another. Only the environment is given back after an arm.
CompileArms(value, e, tail) ==
    LET result == value.c.next_register
        start == IF tail THEN value.c ELSE Allocate(value.c)
        Guarded(p, guard) ==
            IF guard = <<>> THEN p
            ELSE LET condition == CompileExpr(p.c, guard[1])
                 IN  [p EXCEPT !.c = Unless(condition.c, condition.r),
                               !.failures = Append(@, condition.c.next_label)]
        \* the state after the arm's value, and the label that ends the match
        Valued(d, arm) ==
            IF tail THEN [c |-> CompileTail(d, arm.value), ends |-> <<>>]
            ELSE LET v == CompileExpr(d, arm.value)
                     moved == Emit(v.c, [op |-> "Move", dst |-> result, of |-> <<v.r>>])
                 IN  [c |-> Emit(NewLabel(moved), [op |-> "Jump", target |-> moved.next_label]),
                      ends |-> <<moved.next_label>>]
        Failed(done, valued, failures) ==
            [c |-> [FoldLeft(MarkLabel, valued.c, failures) EXCEPT !.environment = done.c.environment],
             ends |-> done.ends \o valued.ends]
        Ended(done, matched, arm) == Failed(done, Valued(matched.c, arm), matched.failures)
        OneArm(done, arm) ==
            Ended(done, Guarded(CompilePattern(Testing(done.c), arm.pattern, value.r), arm.guard), arm)
        arms == FoldLeft(OneArm, [c |-> start, ends |-> <<>>], e.arms)
    IN  Done(FoldLeft(MarkLabel, Emit(arms.c, [op |-> "Fail"]), arms.ends), result)

CompileMatch(c, e, tail) == CompileArms(CompileExpr(c, e.of[1]), e, tail)

----------------------------------------------------------------------------
(* Closures: the free names of the body follow the parameters. A ready      *)
(* up-link is read where the closure is made; another is captured itself.   *)

\* Mutant: every up-link is read where the closure is made.
EveryLinkReady(c, name) == name \in c.links

Ready(c, name) == name \in c.ready

\* What is captured under a name: the register of its value or of its link.
Captured(done, name) ==
    CASE name \notin DOMAIN done.c.environment -> Done(Fail(done.c, "unknown binding"), Append(done.r, 0))
      [] name \in DOMAIN done.c.environment /\ Ready(done.c, name) ->
            LET value == Into(done.c, [op |-> "ReadUpLink", dst |-> New,
                                       link |-> done.c.environment[name]])
            IN  Done(value.c, Append(done.r, value.r))
      [] OTHER -> Done(done.c, Append(done.r, done.c.environment[name]))

Fresh(names, links, error) ==
    [items |-> <<>>, next_register |-> Len(names), next_label |-> 0,
     environment |-> [x \in ToSet(names) |-> (CHOOSE i \in DOMAIN names : names[i] = x) - 1],
     links |-> links, ready |-> {}, located |-> [x \in {} |-> 0], retained |-> {}, error |-> error]

Function(c, parameters, captures) ==
    [parameters |-> parameters, captures |-> captures, registers |-> c.next_register, items |-> c.items]

CompileClosure(c, e) ==
    LET captures == InOrder(FreeIn(e.body, ToSet(e.parameters)))
        unique == Check(c, IsInjective(e.parameters), "duplicate parameter")
        taken == FoldLeft(Captured, Done(unique, <<>>), captures)
        links == {x \in ToSet(captures) : x \in c.links /\ ~Ready(c, x)}
        Made(t, body) ==
            Into([t.c EXCEPT !.error = body.error],
                 [op |-> "MakeClosure", dst |-> New, of |-> t.r,
                  function |-> Function(body, Len(e.parameters), Len(captures))])
        Inside(t) == Made(t, CompileTailBlock(Fresh(e.parameters \o captures, links, t.c.error), e.body))
    IN  Inside(taken)

CompileValue(c, e) ==
    CASE e.k = "Constant" -> LoadConstant(c, e.value)
      [] e.k = "Variable" -> CompileVariable(c, e.name)
      [] e.k = "Array" -> CompileArray(c, e)
      [] e.k = "Dict" -> CompileDict(c, e)
      [] e.k = "Spread" -> Done(Fail(c, "spread outside a collection"), 0)
      [] e.k \in {"Tuple", "Interpolate", "Negate", "Binary", "Field"} -> CompileOperation(c, e)
      [] e.k \in {"Return", "Panic", "Raise"} -> CompileLeaving(c, e)
      [] e.k = "TypeApply" -> CompileExpr(c, e.of[1])
      [] e.k = "Block" -> BlockValue(c, e.block)
      [] e.k = "Call" ->
            LET window == CompileCallWindow(c, e)
            IN  Done(Emit(window.c, CallOf("Call", window.r, e)), window.r)
      [] e.k = "Closure" -> CompileClosure(c, e)
      [] e.k = "If" -> CompileIf(c, e)
      [] e.k = "Match" -> CompileMatch(c, e, FALSE)

\* An expression in tail position leaves the function; the state alone.
CompileLeave(c, e) ==
    CASE e.k = "Call" ->
            LET window == CompileCallWindow(c, e) IN Emit(window.c, CallOf("TailCall", window.r, e))
      [] e.k = "Block" -> BlockLeave(c, e.block)
      [] e.k = "If" -> CompileTailIf(c, e)
      [] e.k = "Match" -> CompileMatch(c, e, TRUE).c
      [] e.k = "Return" -> CompileExpr(c, e).c
      [] e.k \notin {"Call", "Block", "If", "Match", "Return"} ->
            LET result == CompileExpr(c, e) IN Emit(result.c, [op |-> "Return", of |-> <<result.r>>])

Compiled(c, e, tail) == IF tail THEN Done(CompileLeave(c, e), 0) ELSE CompileValue(c, e)

----------------------------------------------------------------------------
(* A program.                                                               *)

Authored(body) == {body.bindings[i].name : i \in DOMAIN body.bindings}

\* A set of names grown until it is closed, types of a body being expanded.
RECURSIVE CloseOver(_, _, _)
CloseOver(names, body, kinds) ==
    LET more == names \cup UNION {RuntimeNames(body.bindings[i].value) :
                    i \in {i \in DOMAIN body.bindings :
                              body.bindings[i].kind \in kinds /\ body.bindings[i].name \in names}}
    IN  IF more = names THEN names ELSE CloseOver(more, body, kinds)

Kinds == {"Let", "Def", "Decl", "Type", "Import", "Native"}

\* Mutant: a name is erased although what is kept reaches it through another.
ErasedAtOnce(body) ==
    LET types == {body.bindings[i].name : i \in {i \in DOMAIN body.bindings : body.bindings[i].kind = "Type"}}
    IN  IF types = {} THEN {} ELSE CloseOver(types, body, Kinds) \ (types \cup RuntimeNames(body.result))

\* What only the types of a program need is not compiled with it.
ErasedBindings(body) ==
    LET types == {body.bindings[i].name : i \in {i \in DOMAIN body.bindings : body.bindings[i].kind = "Type"}}
        needed == CloseOver(types, body, Kinds)
        atRuntime == RuntimeNames(body.result) \cup UNION
            {RuntimeNames(body.bindings[i].value) :
                i \in {i \in DOMAIN body.bindings :
                          /\ body.bindings[i].name \notin needed
                          /\ body.bindings[i].kind \notin {"Type", "Decl"}}}
        kept == LET relevant == BlockOf(SelectSeq(body.bindings, LAMBDA b : b.name \in needed), body.result)
                IN  CloseOver(atRuntime, relevant, Kinds)
    IN  IF types = {} THEN {} ELSE needed \ (types \cup kept)

Erase(body) ==
    BlockOf(SelectSeq(body.bindings, LAMBDA b : b.kind = "Type" \/ b.name \notin ErasedBindings(body)),
            body.result)

\* The program's constants come first: what nothing in the program defines.
ProgramStart(body) ==
    LET retained == CloseOver(RuntimeNamesIn(body), body, {"Type"})
        given == InOrder((DOMAIN External \cap retained) \ Authored(body))
        start == [Fresh(<<>>, {}, "") EXCEPT
                    !.located = [x \in DOMAIN Located \cap retained |-> Located[x]], !.retained = retained]
    IN  FoldLeft(LAMBDA c, x : LET v == LoadConstant(c, External[x]) IN Define(v.c, x, v.r), start, given)

----------------------------------------------------------------------------
(* Assembly: labels become positions.                                       *)

RECURSIVE WellFormed(_), Assemble(_)

\* Whether the labels of a function are marked once and its calls fit.
WellFormed(function) ==
    LET items == function.items
        Marks(l) == {i \in DOMAIN items : items[i].op = "Label" /\ items[i].label = l}
    IN  /\ \A i \in DOMAIN items :
              /\ items[i].op = "Label" => Cardinality(Marks(items[i].label)) = 1
              /\ items[i].op \in {"Jump", "JumpIfFalse"} => Marks(items[i].target) # {}
              /\ items[i].op \in {"Call", "TailCall"} =>
                    items[i].base + items[i].arguments < function.registers
              /\ items[i].op = "MakeClosure" => WellFormed(items[i].function)
        /\ \E i \in DOMAIN items : items[i].op # "Label"
        /\ function.parameters + function.captures <= function.registers

Assemble(function) ==
    LET items == function.items
        pcs == FoldLeft(LAMBDA seen, item : Append(seen, IF item.op = "Label" THEN Last(seen) ELSE Last(seen) + 1),
                        <<1>>, items)
        labels == {i \in DOMAIN items : items[i].op = "Label"}
        Position(l) == pcs[CHOOSE i \in labels : items[i].label = l]
        Lower(item) ==
            CASE item.op \in {"Jump", "JumpIfFalse"} -> [item EXCEPT !.target = Position(@)]
              [] item.op = "MakeClosure" -> [item EXCEPT !.function = Assemble(@)]
              [] OTHER -> item
        operations == SelectSeq(items, LAMBDA item : item.op # "Label")
    IN  [parameters |-> function.parameters, captures |-> function.captures,
         registers |-> function.registers, code |-> [pc \in DOMAIN operations |-> Lower(operations[pc])]]

Rejected(why) == [error |-> why, function |-> <<>>]

Assembled(c) ==
    LET function == Function(c, 0, 0)
    IN  CASE c.error # "" -> Rejected(c.error)
          [] c.error = "" /\ WellFormed(function) -> [error |-> "", function |-> Assemble(function)]
          [] OTHER -> Rejected("assembly")

\* The front end: unknown names stop it, then the first error of the compiler.
Compile(body) ==
    LET visible == DOMAIN External \cup DOMAIN Located
        elaborated == ElaborateBlock(Erase(body))
        compiled == CompileTailBlock(ProgramStart(elaborated), elaborated)
    IN  IF UnresolvedIn(body, visible) # {} THEN Rejected("unresolved name") ELSE Assembled(compiled)
=============================================================================
