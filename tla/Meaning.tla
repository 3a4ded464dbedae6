------------------------------ MODULE Meaning ------------------------------
(***************************************************************************)
(* What a program means, read off its source with no registers, up-links   *)
(* or captures: an environment gives each name a value or a cell, and a    *)
(* definition fills its cell.  The compiled program has to end the same    *)
(* way.  The short forms (?, and, or, if let, let else) have meanings of   *)
(* their own here.                                                         *)
(***************************************************************************)
EXTENDS Machine

\* How an expression ends: with a value, by leaving its function, or in error.
Gives(value, store) == [kind |-> "value", value |-> value, store |-> store]
Leaves(value, store) == [kind |-> "return", value |-> value, store |-> store]
Errs(kind, store) == [kind |-> "error", value |-> kind, store |-> store]

\* What comes after, once there is a value.
Then(end, Next(_, _)) == IF end.kind = "value" THEN Next(end.value, end.store) ELSE end

Yields(result, store) ==
    IF result.error = "" THEN Gives(result.value, store) ELSE Errs(result.error, store)

Plainly(value) == [cell |-> 0, value |-> value]
InCell(n) == [cell |-> n, value |-> Unset]
With(env, pairs) == [x \in {p[1] : p \in pairs} |-> Plainly((CHOOSE p \in pairs : p[1] = x)[2])] @@ env

IsTrue(value) == value = AtomValue("True")
IsFalse(value) == value = AtomValue("False")

RECURSIVE Means(_, _, _), MeansArms(_, _, _, _, _)

MeansBlock(block, env, store) == Means(BlockExpr(block), env, store)

\* The values of parts, in order.
MeansAll(parts, env, store) ==
    FoldLeft(LAMBDA end, e :
                 Then(end, LAMBDA values, s :
                     Then(Means(e, env, s), LAMBDA v, t : Gives(Append(values, v), t))),
             Gives(<<>>, store), parts)

Apply(callee, arguments, store) ==
    CASE callee.k = "Atom" ->
            IF Len(arguments) = 1 THEN Gives(TaggedValue(callee.tag, arguments[1]), store)
            ELSE Errs("TypeMismatch", store)
      [] callee.k = "Func" ->
            IF Len(arguments) # Len(callee.parameters) THEN Errs("TypeMismatch", store)
            ELSE LET given == {<<callee.parameters[i], arguments[i]>> : i \in DOMAIN arguments}
                     end == MeansBlock(callee.body, With(callee.env, given), store)
                 IN  IF end.kind = "return" THEN Gives(end.value, end.store) ELSE end
      [] callee.k \notin {"Atom", "Func"} -> Errs("TypeMismatch", store)

\* One of two on a condition.
Choose(condition, store, IfSo(_), IfNot(_)) ==
    CASE IsTrue(condition) -> IfSo(store)
      [] IsFalse(condition) -> IfNot(store)
      [] OTHER -> Errs("TypeMismatch", store)

\* The first of the arms from n on that matches, its guard holding.
MeansArms(arms, n, value, env, store) ==
    IF n > Len(arms) THEN Errs("NoPatternMatched", store)
    ELSE LET arm == arms[n]
             inside == With(env, Bound(arm.pattern, value))
             Taken(s) == Means(arm.value, inside, s)
             Later(s) == MeansArms(arms, n + 1, value, env, s)
         IN  CASE ~Matches(arm.pattern, value) -> Later(store)
               [] Matches(arm.pattern, value) /\ arm.guard = <<>> -> Taken(store)
               [] OTHER -> Then(Means(arm.guard[1], inside, store),
                                LAMBDA holds, s : Choose(holds, s, Taken, Later))

\* Arrays and dicts are the concatenation of their parts.
Parts(e, values, Wrap(_, _)) ==
    [i \in DOMAIN values |-> IF e.of[i].k = "Spread" THEN values[i] ELSE Wrap(i, values[i])]

Unspread(parts) == [i \in DOMAIN parts |-> IF parts[i].k = "Spread" THEN parts[i].of[1] ELSE parts[i]]

Collected(e, values) ==
    IF e.k = "Array"
    THEN Operate([op |-> "ConcatArrays"], Parts(e, values, LAMBDA i, v : ArrayValue(<<v>>)))
    ELSE Operate([op |-> "MergeDicts"], Parts(e, values, LAMBDA i, v : DictValue(e.names[i] :> v)))

\* The payload of success goes on, a failure leaves the function.
Propagates(value, family, store) ==
    LET success == IF family = "Option" THEN "Some" ELSE "Ok"
        failure == IF family = "Option" THEN AtomPattern("None") ELSE TaggedPattern("Err", Wildcard)
    IN  CASE value.k = "Tagged" /\ value.tag = success -> Gives(value.payload, store)
          [] Matches(failure, value) -> Leaves(value, store)
          [] OTHER -> Errs("NoPatternMatched", store)

\* What is filled in a cell agrees with what is said of it.
AgreesWith(b, value) ==
    LET arity == ContractArity(b)
    IN  arity # NoContract => value.k = "Func" /\ Len(value.parameters) = arity

\* The contract of a cell is that of the declaration, if there is one.
Contract(bindings, name) ==
    LET about == SelectSeq(bindings, LAMBDA b : b.name = name)
    IN  about[CHOOSE i \in DOMAIN about : about[i].kind = "Decl" \/ \A j \in DOMAIN about : about[j].kind # "Decl"]

MeansBinding(state, b, bindings) ==
    LET env == state.env
        \* the environment goes on with the value, or the end stays
        Named(end) == [state EXCEPT !.end = end,
                           !.env = IF end.kind = "value" THEN With(@, {<<b.name, end.value>>}) ELSE @]
    IN  IF state.end.kind # "value" THEN state
        ELSE CASE b.kind = "Decl" -> state
               [] b.kind = "Type" -> Named(Gives([k |-> "Type", name |-> b.name], state.end.store))
               [] b.kind \in {"Import", "Native"} -> Named(Gives(External[b.name], state.end.store))
               [] b.kind = "Let" \/ (b.kind = "Def" /\ b.name \notin state.cells) ->
                    Named(Means(b.value, env, state.end.store))
               [] b.kind = "Def" /\ b.name \in state.cells ->
                    [state EXCEPT !.end =
                        Then(Means(b.value, env, state.end.store), LAMBDA v, s :
                            IF AgreesWith(Contract(bindings, b.name), v)
                            THEN Gives(v, [s EXCEPT ![env[b.name].cell] = v])
                            ELSE Errs("TypeMismatch", s))]

\* The names known to the whole block have cells, all filled by its result.
MeansBindings(block, env, store) ==
    LET bindings == block.bindings
        cells == {x \in Predeclared(bindings, DOMAIN env) :
                    \E i \in DOMAIN bindings : bindings[i].name = x /\ bindings[i].kind \in {"Decl", "Def"}}
        order == InOrder(cells)
        known == [x \in cells |-> InCell(Len(store) + CHOOSE i \in DOMAIN order : order[i] = x)] @@ env
        end == FoldLeft(LAMBDA state, b : MeansBinding(state, b, bindings),
                        [env |-> known, cells |-> cells, end |-> Gives(Unset, store \o [i \in DOMAIN order |-> Unset])],
                        bindings)
        Filled(s) == \A x \in cells : s[known[x].cell] # Unset
    IN  Then(end.end, LAMBDA v, s : IF Filled(s) THEN Means(block.result, end.env, s)
                                    ELSE Errs("UninitializedDefinition", s))

Means(e, env, store) ==
    CASE e.k = "Constant" -> Gives(e.value, store)
      [] e.k = "Variable" ->
            LET entry == env[e.name] IN
            CASE entry.cell = 0 -> Gives(entry.value, store)
              [] entry.cell # 0 /\ store[entry.cell] # Unset -> Gives(store[entry.cell], store)
              [] OTHER -> Errs("UninitializedDefinition", store)
      [] e.k \in {"Array", "Dict"} ->
            Then(MeansAll(Unspread(e.of), env, store), LAMBDA values, s : Yields(Collected(e, values), s))
      [] e.k \in {"Tuple", "Interpolate", "Negate"} ->
            Then(MeansAll(e.of, env, store), LAMBDA values, s : Yields(Operate([op |-> e.k], values), s))
      [] e.k = "Field" ->
            Then(MeansAll(e.of, env, store),
                 LAMBDA values, s : Yields(Operate([op |-> "GetField", field |-> e.field], values), s))
      [] e.k = "Binary" /\ e.op \in {"and", "or"} ->
            Then(Means(e.of[1], env, store), LAMBDA left, s :
                Choose(left, s,
                       LAMBDA t : IF e.op = "and" THEN Means(e.of[2], env, t) ELSE Gives(left, t),
                       LAMBDA t : IF e.op = "or" THEN Means(e.of[2], env, t) ELSE Gives(left, t)))
      [] e.k = "Binary" /\ e.op \notin {"and", "or"} ->
            Then(MeansAll(e.of, env, store), LAMBDA values, s : Yields(Operate([op |-> e.op], values), s))
      [] e.k = "Return" -> Then(Means(e.of[1], env, store), Leaves)
      [] e.k \in {"Panic", "Raise"} ->
            Then(Means(e.of[1], env, store), LAMBDA v, s : Errs(Leaving(e.k, v), s))
      [] e.k = "Propagate" ->
            Then(Means(e.of[1], env, store), LAMBDA v, s : Propagates(v, e.family, s))
      [] e.k = "TypeApply" -> Means(e.of[1], env, store)
      [] e.k = "Block" -> MeansBindings(e.block, env, store)
      [] e.k = "Closure" ->
            Gives([k |-> "Func", parameters |-> e.parameters, body |-> e.body, env |-> env], store)
      [] e.k = "Call" ->
            Then(MeansAll(e.of, env, store), LAMBDA values, s : Apply(Head(values), Tail(values), s))
      [] e.k = "If" ->
            Then(Means(e.of[1], env, store), LAMBDA condition, s :
                Choose(condition, s, LAMBDA t : MeansBlock(e.then, env, t),
                                     LAMBDA t : MeansBlock(e.else, env, t)))
      [] e.k = "Match" ->
            Then(Means(e.of[1], env, store), LAMBDA v, s : MeansArms(e.arms, 1, v, env, s))
      [] e.k \in {"IfLet", "LetElse"} ->
            Then(Means(e.of[1], env, store), LAMBDA v, s :
                IF Matches(e.pattern, v)
                THEN MeansBlock(IF e.k = "IfLet" THEN e.then ELSE e.body,
                                With(env, Bound(e.pattern, v)), s)
                ELSE MeansBlock(e.else, env, s))

----------------------------------------------------------------------------

RECURSIVE Seen(_)

\* What can be seen of a value: a function is opaque.
Seen(value) ==
    CASE value.k = "Func" -> [k |-> "Func"]
      [] value.k \in {"Array", "Tuple"} -> [value EXCEPT !.items = [i \in DOMAIN @ |-> Seen(@[i])]]
      [] value.k = "Dict" -> [value EXCEPT !.fields = [x \in DOMAIN @ |-> Seen(@[x])]]
      [] value.k = "Tagged" -> [value EXCEPT !.payload = Seen(@)]
      [] OTHER -> value

Meant ==
    LET given == {<<x, External[x]>> : x \in DOMAIN External} \cup {<<x, Located[x]>> : x \in DOMAIN Located}
        end == MeansBlock(program, With([x \in {} |-> 0], given), <<>>)
    IN  IF end.kind = "error" THEN Failed(end.value) ELSE Finished(Seen(end.value))

\* A compiled program ends as its source says, with the value or the error it
\* names: no register, capture or up-link of compile_block, compile_closure and
\* compile_match gets in the way of what a name stands for.
CompiledMeansSource ==
    outcome.kind \in {"value", "error"} =>
        LET meant == Meant IN
        /\ outcome.kind = meant.kind
        /\ IF outcome.kind = "value" THEN Seen(outcome.value) = meant.value ELSE outcome.value = meant.value

----------------------------------------------------------------------------
(* Names that resolve_names answers and the code generator may not know.    *)

\* The blocks of an expression, and the expressions directly in it.
BlocksOf(e) ==
    CASE e.k = "Block" -> {e.block}
      [] e.k = "Closure" -> {e.body}
      [] e.k \in {"If", "IfLet"} -> {e.then, e.else}
      [] e.k = "LetElse" -> {e.else, e.body}
      [] OTHER -> {}

ExpressionsOf(block) ==
    {block.bindings[i].value : i \in DOMAIN block.bindings} \cup {block.result}

PartsOf(e) ==
    UNION {ExpressionsOf(b) : b \in BlocksOf(e)}
    \cup (IF "of" \in DOMAIN e THEN ToSet(e.of) ELSE {})
    \cup (IF e.k = "Match"
          THEN UNION {ToSet(e.arms[i].guard) \cup {e.arms[i].value} : i \in DOMAIN e.arms} ELSE {})

RECURSIVE Within(_)

\* An expression and all in it.
Within(e) == {e} \cup UNION {Within(part) : part \in PartsOf(e)}

Functions == {e \in UNION {Within(e) : e \in ExpressionsOf(program)} : IsClosure(e)}

\* A value names what the same block has later, or is defining, undeclared.
NamesAhead(block, kind) ==
    \E i, j \in DOMAIN block.bindings :
        LET ahead == block.bindings[j] IN
        /\ i <= j /\ block.bindings[i].kind \in {"Let", "Def"}
        /\ ahead.kind = kind /\ ahead.name \notin DeclaredIn(block)
        /\ ahead.name \in RuntimeNames(block.bindings[i].value)

\* A function in which a block defines a function that is recursive or is named
\* before it, without a decl: free_block takes the name for one of outside.
InnerFunctionAhead ==
    \E f \in Functions : \E e \in Within(f) : \E block \in BlocksOf(e) : NamesAhead(block, "Def")

\* A function that names a descriptor of the prelude, which has no register.
DescriptorInFunction == \E f \in Functions : RuntimeNamesIn(f.body) \cap DOMAIN Located # {}

\* A value that names a type before it: a promoted type is loaded at its place.
TypeAhead == NamesAhead(program, "Type")

\* What resolve_names lets through, the code generator knows: the erasure of
\* what only types need, the captures and the up-links leave no label or call
\* window outside its function, and no name unknown but in programs of three
\* forms, of which compile_closure and compile_expr may refuse the name: an
\* inner function named ahead of its definition, though RFC 0013:236 has
\* recursion everywhere, a descriptor in a function, a type used before it.
ResolvedCompiles ==
    outcome.kind = "rejected" =>
        /\ outcome.value # "assembly"
        /\ outcome.value = "unknown binding" =>
              InnerFunctionAhead \/ DescriptorInFunction \/ TypeAhead
=============================================================================
