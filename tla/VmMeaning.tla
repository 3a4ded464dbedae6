----------------------------- MODULE VmMeaning ------------------------------
(***************************************************************************)
(* What a program of Vm means: a definitional evaluation by recursion,     *)
(* where a call is a recursive evaluation, a tail call is a call whose     *)
(* value is the caller's, and a native with a callback asks it about its   *)
(* items one after the other.  It knows no frames, no return targets, no   *)
(* depth and no quota.  Vm must compute the same values and fail on the    *)
(* same programs.                                                          *)
(*                                                                         *)
(* The recursion is bounded by Budget, counted down by every evaluation    *)
(* step; a program whose evaluation Vm finishes never exhausts it.         *)
(***************************************************************************)
EXTENDS Vm

CONSTANT Budget

\* What is left of the budget, and whether an Error was reported.
Start == [left |-> Budget, reported |-> FALSE]
Spent(s) == [s EXCEPT !.left = @ - 1]

\* A result: a value or an error, and what is left after it.
Value(v, s) == [error |-> "none", value |-> v, then |-> s]
Error(e, s) == [error |-> e, value |-> Unset, then |-> s]

Booleans == {True, False}

RECURSIVE Apply(_, _, _)
RECURSIVE Evaluate(_, _, _, _)
RECURSIVE Answers(_, _, _, _, _)
RECURSIVE Folded(_, _, _, _, _)

\* The callback's answers about the items, up to the first one that stops.
Answers(callback, items, stops, expected, s) ==
    IF items = <<>> THEN [Value(<<>>, s) EXCEPT !.value = <<>>]
    ELSE LET first == Apply(callback, <<Head(items)>>, s)
         IN  IF first.error # "none" THEN first
             ELSE IF \/ expected = "boolean" /\ first.value \notin Booleans
                     \/ expected = "array" /\ first.value.kind # "array"
             THEN Error("TypeMismatch", first.then)
             ELSE IF first.value \in stops THEN Value(<<first.value>>, first.then)
             ELSE LET rest == Answers(callback, Tail(items), stops, expected,
                                      first.then)
                  IN  IF rest.error # "none" THEN rest
                      ELSE Value(<<first.value>> \o rest.value, rest.then)

\* A fold; a controlled one is told by the callback to go on or to stop.
Folded(native, callback, accumulator, items, s) ==
    IF items = <<>>
    THEN Value(IF native = "array.fold_control"
               THEN Tagged(Atom("Continue"), accumulator) ELSE accumulator, s)
    ELSE LET item == Head(items)
             step == Apply(callback,
                           IF native = "dict.fold"
                           THEN <<accumulator, item.key, item.value>>
                           ELSE <<accumulator, item>>, s)
             tag == IF step.error = "none" /\ step.value.kind = "tagged"
                    THEN step.value.tag ELSE Atom("None")
             on(v) == Folded(native, callback, v, Tail(items), step.then)
         IN  CASE step.error # "none" -> step
               [] native # "array.fold_control" -> on(step.value)
               [] tag = Atom("Continue") -> on(step.value.payload)
               [] tag = Atom("Break") -> step
               [] OTHER -> Error("TypeMismatch", step.then)

\* The items whose answer was 'True.
Chosen(items, answers) ==
    LET asked == SelectSeq([i \in 1..Len(answers) |-> i],
                           LAMBDA i : answers[i] = True)
    IN  [k \in 1..Len(asked) |-> items[asked[k]]]

\* A native that asks its callback about the items of its first argument.
AskAll(native, arguments, s) ==
    LET inDict == native \in DictNatives
        items == IF inDict THEN arguments[1].entries ELSE arguments[1].items
        values == IF inDict THEN [i \in 1..Len(items) |-> items[i].value] ELSE items
        callback == arguments[Len(arguments)]
        stops == CASE native \in {"array.any", "array.find"} -> {True}
                   [] native = "array.all" -> {False}
                   [] OTHER -> {}
        expected == CASE native = "array.flat_map" -> "array"
                      [] native \in {"array.map", "dict.map_values"} -> "any"
                      [] OTHER -> "boolean"
        asked == Answers(callback, values, stops, expected, s)
        answers == asked.value
        chosen == Chosen(items, answers)
    IN  IF native \in Folding
        THEN Folded(native, callback, arguments[2], items, s)
        ELSE IF asked.error # "none" THEN asked
        ELSE Value(
          CASE native = "array.map" -> Array(answers)
            [] native = "dict.map_values" ->
                 Dict([i \in 1..Len(items) |->
                         [key |-> items[i].key, value |-> answers[i]]])
            [] native = "array.filter" -> Array(chosen)
            [] native = "dict.filter" -> Dict(chosen)
            [] native = "array.flat_map" ->
                 Array(FlattenSeq([i \in 1..Len(answers) |-> answers[i].items]))
            [] native = "array.any" ->
                 IF \E i \in 1..Len(answers) : answers[i] = True THEN True ELSE False
            [] native = "array.all" ->
                 IF \A i \in 1..Len(answers) : answers[i] = True THEN True ELSE False
            [] native = "array.find" ->
                 IF chosen = <<>> THEN Atom("None")
                                  ELSE Tagged(Atom("Some"), chosen[1]),
          asked.then)

\* A call of any value with arguments.
Apply(callee, arguments, s) ==
    LET known == callee.kind = "func"
        f == IF known THEN callee.function ELSE "none"
        argument(i) == arguments[i]
        callback == arguments[Len(arguments)]
        given == arguments \o callee.upvalues
    IN  CASE s.left = 0 -> Error("OutOfBudget", s)
          [] callee.kind = "atom" /\ Len(arguments) = 1 ->
                Value(Tagged(callee, argument(1)), s)
          [] ~known -> Error("TypeMismatch", s)
          [] known /\ Len(arguments) # Arity(f) -> Error("TypeMismatch", s)
          [] known /\ f \in Functions ->
                IF \/ Len(callee.upvalues) # code[f].captures
                   \/ Len(given) > code[f].registers
                THEN Error("InvalidBytecode", s)
                ELSE Evaluate(f, [r \in 0..(code[f].registers - 1) |->
                                    IF r < Len(given) THEN given[r + 1] ELSE Unset],
                              0, Spent(s))
          [] f = "host.identity" -> Value(argument(1), s)
          [] f = "host.silent" -> Error("InvalidBytecode", s)
          [] f = "host.raise" -> Error("TypeMismatch", s)
          [] f = "diagnostic.report" ->
                IF \/ argument(1) \notin {Atom("Info"), Atom("Warn"), Atom("Error")}
                   \/ argument(2).kind # "dict"
                THEN Error("TypeMismatch", s)
                ELSE Value(argument(2),
                       [s EXCEPT !.reported = @ \/ argument(1) = Atom("Error")])
          [] f \in Suspending ->
                IF \/ argument(1).kind # (IF f \in DictNatives THEN "dict" ELSE "array")
                   \/ callback.kind # "func"
                THEN Error("TypeMismatch", s)
                ELSE IF Arity(callback.function) # CallbackArity(f)
                THEN Error("TypeMismatch", s)
                ELSE AskAll(f, arguments, Spent(s))
          [] OTHER ->
                LET answer == Compute(f, arguments, ReturnTo(Root)).next
                IN  IF answer.kind = "error" THEN Error(answer.error, s)
                    ELSE Value(answer.value, s)

\* The body of f from instruction pc, with its registers.
Evaluate(f, registers, pc, s) ==
    LET body == code[f].instructions
        i == body[pc + 1]
        has(r) == r \in DOMAIN registers /\ registers[r] # Unset
        window == [k \in 1..i.count |-> registers[i.base + k]]
        next(r, v, after) == Evaluate(f, [registers EXCEPT ![r] = v], pc + 1, after)
        bad == Error("InvalidBytecode", s)
        jump == IF i.target < Len(body) THEN Evaluate(f, registers, i.target, Spent(s))
                                        ELSE bad
        result == Apply(registers[i.base], window, s)
    IN  IF s.left = 0 THEN Error("OutOfBudget", s)
        ELSE IF pc >= Len(body) THEN bad
        ELSE CASE i.op = "LoadConst" ->
                    IF i.dst \in DOMAIN registers THEN next(i.dst, i.value, s) ELSE bad
               [] i.op = "Move" ->
                    IF has(i.src) /\ i.dst \in DOMAIN registers
                    THEN next(i.dst, registers[i.src], s) ELSE bad
               [] i.op = "MakeClosure" ->
                    IF /\ i.dst \in DOMAIN registers
                       /\ \A k \in DOMAIN i.captures : has(i.captures[k])
                    THEN next(i.dst,
                           Func(i.prototype, [k \in DOMAIN i.captures |->
                                                registers[i.captures[k]]]), s)
                    ELSE bad
               [] i.op \in {"Call", "TailCall"} ->
                    IF \E k \in 0..i.count : ~has(i.base + k) THEN bad
                    ELSE IF i.op = "TailCall" \/ result.error # "none" THEN result
                    ELSE next(i.base, result.value, result.then)
               [] i.op = "Jump" -> jump
               [] i.op = "JumpIfFalse" ->
                    IF ~has(i.condition) THEN bad
                    ELSE IF registers[i.condition] = False THEN jump
                    ELSE IF registers[i.condition] = True
                    THEN Evaluate(f, registers, pc + 1, s)
                    ELSE Error("TypeMismatch", s)
               [] i.op = "Return" ->
                    IF has(i.src) THEN Value(registers[i.src], s) ELSE bad

Meaning == Evaluate(Main, [r \in 0..(code[Main].registers - 1) |-> Unset], 0, Start)

----------------------------------------------------------------------------
\* The errors that are the program's; the others are the limits'.
Limits == {"Cancelled", "FuelExhausted", "AllocationQuotaExceeded",
           "CallDepthExceeded", "StackLimitExceeded"}

\* An evaluation that ends within its limits gives the program's meaning: its
\* value (if no Error was reported), or its error.  Results cross frames,
\* tail calls and suspended natives without being lost, doubled or
\* delivered to another (drive_vm_action, resume_array_continuation).
ResultIsMeaning ==
    /\ outcome.kind = "done" =>
         /\ Meaning.error = "none"
         /\ Meaning.value = outcome.value
         /\ ~Meaning.then.reported
    /\ outcome.kind = "error" /\ outcome.error \notin Limits =>
         IF outcome.error = "ReportedDiagnostic"
         THEN Meaning.error = "none" /\ Meaning.then.reported
         ELSE Meaning.error = outcome.error
=============================================================================
