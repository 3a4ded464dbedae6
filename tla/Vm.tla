--------------------------------- MODULE Vm ---------------------------------
(***************************************************************************)
(* telora-core: the virtual machine's calls (vm.rs).                       *)
(*                                                                         *)
(* Functions call each other on an explicit stack of frames, whose         *)
(* registers are windows of one shared stack.  The natives that take a     *)
(* callback (std/array, std/dict) do not call it: they leave a             *)
(* continuation in the return target of the callback's call and are        *)
(* resumed with its value.  A tail call hands its own return target to     *)
(* the callee.  Calls and backward jumps burn fuel; frames and             *)
(* continuations together are the call depth; allocations are charged      *)
(* before they are made.                                                   *)
(*                                                                         *)
(* Values are trees here, not handles into the heaps (Heap models those);  *)
(* a charge counts value slots and the length of a dict's key is one.  Of  *)
(* the opcodes, those that move control and data between calls; the other  *)
(* sixty compute a value of their registers, as LoadConst does.            *)
(***************************************************************************)
EXTENDS Integers, SequencesExt

CONSTANTS
    Functions,      \* the bytecode functions of a program
    Main,           \* the one execute_frame is called with
    Programs,       \* the codes: from Functions to what a function is
    Quotas,         \* the quotas an embedder may give
    MaxStackSlots,  \* MAX_STACK_SLOTS
    MaxCallDepth,   \* MAX_CALL_DEPTH
    Root,           \* ReturnTarget::Root
    Unset           \* a register not written yet

IsSeq(s) == s \in Seq({s[i] : i \in DOMAIN s})

\* The sum of a sequence of numbers.
SumOf(w) ==
    LET sum[n \in 0..Len(w)] == IF n = 0 THEN 0 ELSE sum[n - 1] + w[n]
    IN  sum[Len(w)]

\* What bytecode is by its types alone; nothing says it is sound.
FunctionShape(f) ==
    /\ {f.parameters, f.captures, f.registers} \subseteq Nat
    /\ IsSeq(f.instructions)
    /\ \A k \in 1..Len(f.instructions) :
         LET i == f.instructions[k]
         IN  /\ i.op \in {"Call", "TailCall"} => {i.base, i.count} \subseteq Nat
             /\ i.op \in {"Jump", "JumpIfFalse"} => i.target \in Nat
             /\ i.op = "MakeClosure" => IsSeq(i.captures)

ASSUME VmAssumption ==
    /\ Main \in Functions
    /\ MaxStackSlots \in Nat /\ MaxCallDepth \in Nat \ {0}
    /\ Quotas \subseteq [fuel : Nat, stack_slots : Nat, allocation : Nat]
    /\ Root \notin Nat
    /\ \A program \in Programs :
         /\ DOMAIN program = Functions
         /\ \A f \in Functions : FunctionShape(program[f])

VARIABLES
    code,       \* the program
    quota,      \* QuotaAccount: quota
    fuel,       \* QuotaAccount: remaining_fuel
    requested,  \* QuotaAccount: requested_allocation_bytes, in value slots
    reported,   \* QuotaAccount: an Error is among the diagnostics
    cancelled,  \* the query context of the account is no longer good
    frames,     \* the frames of execute_frame
    stack,      \* the registers of all frames
    action,     \* the VmAction drive_vm_action is at, or Idle
    outcome     \* what execute_frame returned, or Running

account == <<quota, fuel, requested, reported, cancelled>>
vars == <<code, account, frames, stack, action, outcome>>

----------------------------------------------------------------------------
(* Values, actions, return targets.                                        *)

Atom(name) == [kind |-> "atom", name |-> name]
Integer(n) == [kind |-> "int", value |-> n]
Array(items) == [kind |-> "array", items |-> items]
Tuple(items) == [kind |-> "tuple", items |-> items]
Dict(entries) == [kind |-> "dict", entries |-> entries]
Tagged(tag, payload) == [kind |-> "tagged", tag |-> tag, payload |-> payload]
Func(f, upvalues) == [kind |-> "func", function |-> f, upvalues |-> upvalues]

True == Atom("True")
False == Atom("False")

\* A match on Value::Array, which binds its items.
IsArray(value) == value.kind = "array" /\ IsSeq(value.items)

Idle == [kind |-> "idle"]
Call(callee, arguments, target) ==
    [kind |-> "call", callee |-> callee, arguments |-> arguments,
     target |-> target]
Return(value, target) ==
    [kind |-> "return", value |-> value, target |-> target]
Raise(error) == [kind |-> "error", error |-> error]

\* Native continuations, innermost first, around Root or a register of the
\* frame below.
ReturnTo(to) == [natives |-> <<>>, to |-> to]
Within(continuation, target) ==
    [natives |-> <<continuation>> \o target.natives, to |-> target.to]
Beyond(target) == [natives |-> Tail(target.natives), to |-> target.to]

Running == [kind |-> "running"]
Done(value) == [kind |-> "done", value |-> value]

\* What a native does next, and what it charges before.
Pay(cost, next) == [cost |-> cost, next |-> next]
Free(next) == Pay(0, next)
TypeMismatch == Free(Raise("TypeMismatch"))

----------------------------------------------------------------------------
(* The natives.                                                            *)

Predicates == {"array.any", "array.all", "array.find"}
Suspending == Predicates \cup
    {"array.map", "array.filter", "array.flat_map", "array.fold",
     "array.fold_control", "dict.map_values", "dict.filter", "dict.fold"}
DictNatives == {"dict.map_values", "dict.filter", "dict.fold"}
Folding == {"array.fold", "array.fold_control", "dict.fold"}

\* What an embedder's function does with its window: writes its argument to
\* the result register, writes nothing, or fails.
HostNatives == {"host.identity", "host.silent", "host.raise"}

Natives == Suspending \cup HostNatives \cup
    {"array.length", "array.push", "array.concat", "array.zip",
     "diagnostic.report"}

\* No bytecode function is a native.
ASSUME NativesAssumption == Functions \cap Natives = {}

Arity(f) ==
    CASE f \in Functions -> code[f].parameters
      [] f \in Folding -> 3
      [] f \in {"array.length", "array.concat"} \cup HostNatives -> 1
      [] OTHER -> 2

CallbackArity(native) ==
    CASE native = "dict.fold" -> 3
      [] native \in Folding -> 2
      [] OTHER -> 1

\* The arguments of the callback for the item a continuation is at.
CallbackArguments(c) ==
    LET item == c.source[c.next + 1]
    IN  CASE c.native = "dict.fold" -> <<c.accumulator, item.key, item.value>>
          [] c.native \in DictNatives -> <<item.value>>
          [] c.native \in Folding -> <<c.accumulator, item>>
          [] OTHER -> <<item>>

\* What a continuation returns when no item is left.
Finished(c) ==
    CASE c.native \in {"array.fold", "dict.fold"} -> c.accumulator
      [] c.native = "array.fold_control" ->
            Tagged(Atom("Continue"), c.accumulator)
      [] c.native = "array.any" -> False
      [] c.native = "array.all" -> True
      [] c.native = "array.find" -> Atom("None")
      [] c.native \in DictNatives -> Dict(c.output)
      [] OTHER -> Array(c.output)

\* next_array_action, next_dict_action, after a charge of cost.
NextItem(c, target, cost) ==
    IF c.next < Len(c.source)
    THEN Pay(cost + IF c.native = "dict.fold" THEN 1 ELSE 0,
             Call(c.callback, CallbackArguments(c),
                  Within([c EXCEPT !.next = @ + 1], target)))
    ELSE Pay(cost + IF c.native = "array.fold_control" THEN 2 ELSE 0,
             Return(Finished(c), target))

\* An entry of the output: a slot, and the key of a dict's entry.
Keep(c, item, target) ==
    NextItem([c EXCEPT !.output = Append(@, item)], target,
             IF c.native \in DictNatives THEN 2 ELSE 1)

\* Mutant: filter keeps the item after the one it asked about.
ItemAfter(c) == c.source[IF c.next < Len(c.source) THEN c.next + 1 ELSE c.next]

\* The item the callback was called with: next_index has moved on.
ItemOf(c) == c.source[c.next]

\* resume_array_continuation, resume_dict_continuation: the value of the
\* callback arrives.
Resume(c, value, target) ==
    LET boolean == value \in {True, False}
        control == IF value.kind = "tagged" THEN value.tag ELSE Atom("None")
    IN  CASE c.native = "array.map" -> Keep(c, value, target)
          [] c.native = "dict.map_values" ->
                Keep(c, [key |-> ItemOf(c).key, value |-> value], target)
          [] c.native \in {"array.filter", "dict.filter"} ->
                IF ~boolean THEN TypeMismatch
                ELSE IF value = True THEN Keep(c, ItemOf(c), target)
                ELSE NextItem(c, target, 0)
          [] c.native = "array.flat_map" ->
                IF ~IsArray(value) THEN TypeMismatch
                ELSE NextItem([c EXCEPT !.output = @ \o value.items], target,
                              Len(value.items))
          [] c.native \in {"array.fold", "dict.fold"} ->
                NextItem([c EXCEPT !.accumulator = value], target, 0)
          [] c.native = "array.fold_control" ->
                IF control = Atom("Continue")
                THEN NextItem([c EXCEPT !.accumulator = value.payload], target, 0)
                ELSE IF control = Atom("Break") THEN Free(Return(value, target))
                ELSE TypeMismatch
          [] OTHER ->   \* Predicates
                IF ~boolean THEN TypeMismatch
                ELSE IF c.native = "array.any" /\ value = True
                     THEN Free(Return(True, target))
                ELSE IF c.native = "array.all" /\ value = False
                     THEN Free(Return(False, target))
                ELSE IF c.native = "array.find" /\ value = True
                     THEN Pay(2, Return(Tagged(Atom("Some"), ItemOf(c)), target))
                ELSE NextItem(c, target, 0)

\* start_array_continuation, start_dict_continuation: natives with a callback.
Suspend(native, arguments, target) ==
    LET callback == arguments[Len(arguments)]
    IN  IF \/ arguments[1].kind # (IF native \in DictNatives THEN "dict" ELSE "array")
           \/ callback.kind # "func"
        THEN TypeMismatch
        ELSE IF Arity(callback.function) # CallbackArity(native)
        THEN TypeMismatch
        ELSE NextItem(
               [native |-> native,
                source |-> IF native \in DictNatives THEN arguments[1].entries
                                                     ELSE arguments[1].items,
                callback |-> callback,
                next |-> 0,
                accumulator |-> IF native \in Folding THEN arguments[2] ELSE Unset,
                output |-> <<>>],
               target, 0)

\* start_array_continuation: the natives that answer at once.
Compute(native, arguments, target) ==
    LET items == arguments[1].items
        right == arguments[2].items
        pairs == [i \in 1..Len(items) |-> Tuple(<<items[i], right[i]>>)]
        joined == FlattenSeq([i \in 1..Len(items) |-> items[i].items])
    IN  IF ~IsArray(arguments[1]) THEN TypeMismatch
        ELSE CASE native = "array.length" ->
                    Free(Return(Integer(Len(items)), target))
               [] native = "array.push" ->
                    Pay(Len(items) + 1,
                        Return(Array(Append(items, arguments[2])), target))
               [] native = "array.concat" ->
                    IF \E i \in 1..Len(items) : ~IsArray(items[i])
                    THEN TypeMismatch
                    ELSE Pay(Len(joined), Return(Array(joined), target))
               [] OTHER ->   \* array.zip
                    IF ~IsArray(arguments[2]) THEN TypeMismatch
                    ELSE IF Len(items) # Len(right)
                    THEN Free(Return(Atom("None"), target))
                    ELSE Pay(2 + 3 * Len(items),
                             Return(Tagged(Atom("Some"), Array(pairs)), target))

----------------------------------------------------------------------------
(* The account and the end of an evaluation.                               *)

\* consume_fuel refuses.
Starved == cancelled \/ fuel = 0

\* The error ends execute_frame, which drops its frames and its stack.  Burnt
\* is the fuel the step has used already.
FailAfter(error, burnt) ==
    /\ outcome' = Raise(error)
    /\ frames' = <<>>
    /\ stack' = <<>>
    /\ action' = Idle
    /\ fuel' = fuel - burnt
    /\ UNCHANGED <<code, quota, requested, reported, cancelled>>

Fail(error) == FailAfter(error, 0)

Starve == Fail(IF cancelled THEN "Cancelled" ELSE "FuelExhausted")

\* QuotaAccount::charge_allocation, then the rest of a native.
React(answer, burnt) ==
    IF requested + answer.cost > quota.allocation
    THEN FailAfter("AllocationQuotaExceeded", burnt)
    ELSE IF answer.next.kind = "error" THEN FailAfter(answer.next.error, burnt)
    ELSE /\ requested' = requested + answer.cost
         /\ fuel' = fuel - burnt
         /\ action' = answer.next
         /\ UNCHANGED <<code, quota, reported, cancelled, frames, stack, outcome>>

StackLimit ==
    IF quota.stack_slots < MaxStackSlots THEN quota.stack_slots ELSE MaxStackSlots

----------------------------------------------------------------------------
(* Instructions, by the frame at the top.                                  *)

Top == frames[Len(frames)]
Shape == code[Top.function]
Instruction == Shape.instructions[Top.pc + 1]
Slot(register) == Top.base + register + 1

Executing == outcome = Running /\ action = Idle
Fetched(op) ==
    /\ Executing
    /\ Top.pc < Len(Shape.instructions)
    /\ Instruction.op = op

Readable(register) ==
    register < Shape.registers /\ stack[Slot(register)] # Unset
Register(register) == stack[Slot(register)]
Window(base, count) == [i \in 1..count |-> Register(base + i)]
WindowReadable(base, count) == \A i \in 0..count : Readable(base + i)

\* The frames with the top one at another instruction.
At(pc) ==
    Append(SubSeq(frames, 1, Len(frames) - 1),
           [function |-> Top.function, base |-> Top.base, pc |-> pc,
            target |-> Top.target])

\* write_register and the step to the next instruction.
Write(register, value) ==
    IF register < Shape.registers
    THEN /\ stack' = [stack EXCEPT ![Slot(register)] = value]
         /\ frames' = At(Top.pc + 1)
         /\ UNCHANGED <<code, account, action, outcome>>
    ELSE Fail("InvalidBytecode")

LoadConst ==
    /\ Fetched("LoadConst")
    /\ Write(Instruction.dst, Instruction.value)

Move ==
    /\ Fetched("Move")
    /\ Readable(Instruction.src)
    /\ Write(Instruction.dst, Register(Instruction.src))

\* A closure captures the values of registers.
MakeClosure ==
    /\ Fetched("MakeClosure")
    /\ LET captures == Instruction.captures
           values == [i \in 1..Len(captures) |-> Register(captures[i])]
           closure == Func(Instruction.prototype, values)
       IN  /\ \A i \in 1..Len(captures) : Readable(captures[i])
           /\ IF requested + Len(captures) > quota.allocation
              THEN Fail("AllocationQuotaExceeded")
              ELSE IF Instruction.dst >= Shape.registers THEN Fail("InvalidBytecode")
              ELSE /\ requested' = requested + Len(captures)
                   /\ stack' = [stack EXCEPT ![Slot(Instruction.dst)] = closure]
                   /\ frames' = At(Top.pc + 1)
                   /\ UNCHANGED <<code, quota, fuel, reported, cancelled, action,
                                  outcome>>

\* The target of the jump the instruction takes, if it takes one.
Taken ==
    \/ Instruction.op = "Jump"
    \/ /\ Instruction.op = "JumpIfFalse"
       /\ Readable(Instruction.condition)
       /\ Register(Instruction.condition) = False

\* Mutant: loops are free.
FreeJump ==
    /\ Executing
    /\ Top.pc < Len(Shape.instructions)
    /\ Taken
    /\ Instruction.target < Len(Shape.instructions)
    /\ frames' = At(Instruction.target)
    /\ UNCHANGED <<code, account, stack, action, outcome>>

\* Only a backward jump burns fuel.
Jump ==
    /\ Executing
    /\ Top.pc < Len(Shape.instructions)
    /\ Taken
    /\ Instruction.target < Len(Shape.instructions)
    /\ LET burnt == IF Instruction.target <= Top.pc THEN 1 ELSE 0
       IN  IF burnt = 1 /\ Starved THEN Starve
           ELSE /\ fuel' = fuel - burnt
                /\ frames' = At(Instruction.target)
                /\ UNCHANGED <<code, quota, requested, reported, cancelled, stack,
                               action, outcome>>

\* JumpIfFalse over 'True goes on; over anything but a boolean it fails.
NoJump ==
    /\ Fetched("JumpIfFalse")
    /\ Readable(Instruction.condition)
    /\ Register(Instruction.condition) # False
    /\ IF Register(Instruction.condition) = True
       THEN /\ frames' = At(Top.pc + 1)
            /\ UNCHANGED <<code, account, stack, action, outcome>>
       ELSE Fail("TypeMismatch")

\* The callee and its arguments lie in a window of registers; its result will
\* take the callee's place.
MakeCall ==
    /\ Fetched("Call")
    /\ WindowReadable(Instruction.base, Instruction.count)
    /\ action' = Call(Register(Instruction.base),
                      Window(Instruction.base, Instruction.count),
                      ReturnTo(Instruction.base))
    /\ frames' = At(Top.pc + 1)
    /\ UNCHANGED <<code, account, stack, outcome>>

\* Mutant: the tail call keeps its caller's window on the stack.
TailCallKeepsWindow ==
    /\ Fetched("TailCall")
    /\ WindowReadable(Instruction.base, Instruction.count)
    /\ action' = Call(Register(Instruction.base),
                      Window(Instruction.base, Instruction.count),
                      Top.target)
    /\ frames' = SubSeq(frames, 1, Len(frames) - 1)
    /\ UNCHANGED <<code, account, stack, outcome>>

\* Mutant: the callee of a tail call returns like that of a call.
TailCallReturnsHere ==
    /\ Fetched("TailCall")
    /\ WindowReadable(Instruction.base, Instruction.count)
    /\ action' = Call(Register(Instruction.base),
                      Window(Instruction.base, Instruction.count),
                      ReturnTo(Instruction.base))
    /\ frames' = SubSeq(frames, 1, Len(frames) - 1)
    /\ stack' = SubSeq(stack, 1, Top.base)
    /\ UNCHANGED <<code, account, outcome>>

\* The frame is gone before the callee's begins.
TailCall ==
    /\ Fetched("TailCall")
    /\ WindowReadable(Instruction.base, Instruction.count)
    /\ action' = Call(Register(Instruction.base),
                      Window(Instruction.base, Instruction.count),
                      Top.target)
    /\ frames' = SubSeq(frames, 1, Len(frames) - 1)
    /\ stack' = SubSeq(stack, 1, Top.base)
    /\ UNCHANGED <<code, account, outcome>>

LeaveFunction ==
    /\ Fetched("Return")
    /\ Readable(Instruction.src)
    /\ action' = Return(Register(Instruction.src), Top.target)
    /\ frames' = SubSeq(frames, 1, Len(frames) - 1)
    /\ stack' = SubSeq(stack, 1, Top.base)
    /\ UNCHANGED <<code, account, outcome>>

\* read_register, read_call_arguments, read_many, validate_jump and the fetch
\* itself refuse what a sound compiler never emits.
Unsound ==
    \/ Top.pc >= Len(Shape.instructions)
    \/ /\ Top.pc < Len(Shape.instructions)
       /\ LET i == Instruction
          IN  \/ i.op = "Move" /\ ~Readable(i.src)
              \/ i.op = "Return" /\ ~Readable(i.src)
              \/ /\ i.op = "MakeClosure"
                 /\ \E k \in 1..Len(i.captures) : ~Readable(i.captures[k])
              \/ i.op \in {"Call", "TailCall"} /\ ~WindowReadable(i.base, i.count)
              \/ i.op = "JumpIfFalse" /\ ~Readable(i.condition)
              \/ Taken /\ i.target >= Len(Shape.instructions)

RefuseInstruction == Executing /\ Unsound /\ Fail("InvalidBytecode")

----------------------------------------------------------------------------
(* drive_vm_action.                                                        *)

Returning == outcome = Running /\ action.kind = "return"
Calling == outcome = Running /\ action.kind = "call"

\* The root value; execute_in_work then fails if an Error was reported.
ReturnToRoot ==
    /\ Returning
    /\ action.target = ReturnTo(Root)
    /\ outcome' = IF reported THEN Raise("ReportedDiagnostic")
                              ELSE Done(action.value)
    /\ action' = Idle
    /\ UNCHANGED <<code, account, frames, stack>>

ReturnToRegister ==
    /\ Returning
    /\ action.target.natives = <<>>
    /\ action.target.to # Root
    /\ IF frames = <<>> \/ action.target.to >= Shape.registers
       THEN Fail("InvalidBytecode")
       ELSE /\ stack' = [stack EXCEPT ![Slot(action.target.to)] = action.value]
            /\ action' = Idle
            /\ UNCHANGED <<code, account, frames, outcome>>

ResumeNative ==
    /\ Returning
    /\ action.target.natives # <<>>
    /\ React(Resume(Head(action.target.natives), action.value,
                    Beyond(action.target)), 0)

\* Mutant: the natives that frames return to are not counted.
NativesForFree == 0

\* ReturnTarget::native_depth, over the frames.
NativeDepths == SumOf([i \in DOMAIN frames |-> Len(frames[i].target.natives)])

\* logical_depth: the frames, and the natives that wait for their callbacks.
LogicalDepth ==
    Len(frames) + NativeDepths
        + IF action.kind = "idle" THEN 0 ELSE Len(action.target.natives)

RefuseCall ==
    /\ Calling
    /\ \/ Starved /\ Starve
       \/ /\ ~Starved
          /\ LogicalDepth >= MaxCallDepth
          /\ FailAfter("CallDepthExceeded", 1)

Admitted == Calling /\ ~Starved /\ LogicalDepth < MaxCallDepth
Calls(natives) ==
    /\ Admitted
    /\ action.callee.kind = "func"
    /\ action.callee.function \in natives
    /\ Len(action.arguments) = Arity(action.callee.function)

\* An atom called with one argument tags it.
CallTag ==
    /\ Admitted
    /\ action.callee.kind = "atom"
    /\ Len(action.arguments) = 1
    /\ React(Pay(2, Return(Tagged(action.callee, action.arguments[1]),
                           action.target)), 1)

CallMisfit ==
    /\ Admitted
    /\ \/ action.callee.kind \notin {"atom", "func"}
       \/ action.callee.kind = "atom" /\ Len(action.arguments) # 1
       \/ /\ action.callee.kind = "func"
          /\ Len(action.arguments) # Arity(action.callee.function)
    /\ FailAfter("TypeMismatch", 1)

\* What make_execution_frame refuses, in its order.
EntryError(f, arguments, captures, base) ==
    IF Len(arguments) # code[f].parameters THEN "TypeMismatch"
    ELSE IF Len(captures) # code[f].captures THEN "InvalidBytecode"
    ELSE IF base + code[f].registers > StackLimit THEN "StackLimitExceeded"
    ELSE IF Len(arguments \o captures) > code[f].registers THEN "InvalidBytecode"
    ELSE "none"

Frame(f, base, target) ==
    [function |-> f, base |-> base, pc |-> 0, target |-> target]

\* The window of a new frame: arguments, captures, the rest unset.
NewWindow(f, arguments, captures) ==
    LET given == arguments \o captures
    IN  [i \in 1..code[f].registers |->
            IF i <= Len(given) THEN given[i] ELSE Unset]

EnterFunction ==
    /\ Calls(Functions)
    /\ LET f == action.callee.function
           upvalues == action.callee.upvalues
           error == EntryError(f, action.arguments, upvalues, Len(stack))
       IN  IF error # "none" THEN FailAfter(error, 1)
           ELSE /\ frames' = Append(frames, Frame(f, Len(stack), action.target))
                /\ stack' = stack \o NewWindow(f, action.arguments, upvalues)
                /\ action' = Idle
                /\ fuel' = fuel - 1
                /\ UNCHANGED <<code, quota, requested, reported, cancelled, outcome>>

CallNative ==
    \/ /\ Calls(Suspending)
       /\ React(Suspend(action.callee.function, action.arguments,
                        action.target), 1)
    \/ /\ Calls({"array.length", "array.push", "array.concat", "array.zip"})
       /\ React(Compute(action.callee.function, action.arguments,
                        action.target), 1)

\* CallContext: the native's window of arguments, upvalues and result lies on
\* the stack while it runs, and is gone when it returns.
CallHost ==
    /\ Calls(HostNatives)
    /\ LET f == action.callee.function
           window == Len(action.arguments) + Len(action.callee.upvalues) + 1
       IN  IF Len(stack) + window > StackLimit
           THEN FailAfter("StackLimitExceeded", 1)
           ELSE IF f = "host.silent" THEN FailAfter("InvalidBytecode", 1)
           ELSE IF f = "host.raise" THEN FailAfter("TypeMismatch", 1)
           ELSE React(Free(Return(action.arguments[1], action.target)), 1)

\* Diagnostics are collected, and judged when the evaluation has ended.  Any
\* dict is taken for a BlameError.
Report ==
    /\ Calls({"diagnostic.report"})
    /\ IF \/ action.arguments[1] \notin {Atom("Info"), Atom("Warn"), Atom("Error")}
          \/ action.arguments[2].kind # "dict"
       THEN FailAfter("TypeMismatch", 1)
       ELSE /\ reported' = (reported \/ action.arguments[1] = Atom("Error"))
            /\ action' = Return(action.arguments[2], action.target)
            /\ fuel' = fuel - 1
            /\ UNCHANGED <<code, quota, requested, cancelled, frames, stack, outcome>>

----------------------------------------------------------------------------
\* execute_frame with no arguments and no captures.
Init ==
    /\ code \in Programs
    /\ quota \in Quotas
    /\ fuel = quota.fuel
    /\ requested = 0
    /\ reported = FALSE
    /\ cancelled = FALSE
    /\ action = Idle
    /\ LET error == EntryError(Main, <<>>, <<>>, 0)
       IN  IF error = "none"
           THEN /\ frames = <<Frame(Main, 0, ReturnTo(Root))>>
                /\ stack = NewWindow(Main, <<>>, <<>>)
                /\ outcome = Running
           ELSE frames = <<>> /\ stack = <<>> /\ outcome = Raise(error)

\* The query the evaluation serves is cancelled or overtaken by an edit.
Cancel ==
    /\ outcome = Running
    /\ cancelled = FALSE
    /\ cancelled' = TRUE
    /\ UNCHANGED <<code, quota, fuel, requested, reported, frames, stack, action,
                   outcome>>

ExecuteInstruction ==
    \/ LoadConst \/ Move \/ MakeClosure \/ Jump \/ NoJump
    \/ MakeCall \/ TailCall \/ LeaveFunction \/ RefuseInstruction

DriveAction ==
    \/ ReturnToRoot \/ ReturnToRegister \/ ResumeNative
    \/ RefuseCall \/ CallTag \/ CallMisfit \/ EnterFunction \/ CallNative
    \/ CallHost \/ Report

\* An evaluation that has ended stays ended.
Ended == outcome # Running /\ UNCHANGED vars

Next == ExecuteInstruction \/ DriveAction \/ Cancel \/ Ended

Spec == Init /\ [][Next]_vars

\* execute_frame is one synchronous loop: nothing stops it but its end.
FairSpec == Spec /\ WF_vars(ExecuteInstruction \/ DriveAction)

----------------------------------------------------------------------------
(* Properties.                                                             *)

IsContinuation(c) ==
    /\ c = [native |-> c.native, source |-> c.source, callback |-> c.callback,
            next |-> c.next, accumulator |-> c.accumulator, output |-> c.output]
    /\ c.native \in Suspending
    /\ IsSeq(c.output)

IsTarget(target) ==
    /\ target = [natives |-> target.natives, to |-> target.to]
    /\ IsSeq(target.natives)
    /\ \A i \in 1..Len(target.natives) : IsContinuation(target.natives[i])
    /\ target.to \in Nat \cup {Root}

IsFrame(frame) ==
    /\ frame = [function |-> frame.function, base |-> frame.base,
                pc |-> frame.pc, target |-> frame.target]
    /\ frame.function \in Functions
    /\ {frame.base, frame.pc} \subseteq Nat
    /\ IsTarget(frame.target)

\* Programs, fuel, frames and actions are well formed; fuel never wraps.
TypeOK ==
    /\ DOMAIN code = Functions /\ \A f \in Functions : FunctionShape(code[f])
    /\ quota \in Quotas
    /\ fuel \in 0..quota.fuel
    /\ {reported, cancelled} \subseteq BOOLEAN
    /\ IsSeq(stack)
    /\ IsSeq(frames) /\ \A i \in 1..Len(frames) : IsFrame(frames[i])
    /\ action.kind \in {"idle", "call", "return"}
    /\ action.kind # "idle" => IsTarget(action.target)

RegistersOf(i) == code[frames[i].function].registers

\* The windows of the frames partition the stack, so no call reads or writes
\* the registers of another (make_execution_frame, and the truncation at
\* every return and tail call).
FramesPartitionStack ==
    /\ frames = <<>> => stack = <<>>
    /\ frames # <<>> => frames[1].base = 0
    /\ \A i \in 1..Len(frames) :
         frames[i].base + RegistersOf(i) =
             IF i = Len(frames) THEN Len(stack) ELSE frames[i + 1].base
    /\ Len(stack) <= StackLimit

\* A target above depth frames is a register of the highest, or Root.
Lands(target, depth) ==
    IF depth = 0 THEN target.to = Root
    ELSE target.to # Root /\ target.to < RegistersOf(depth)

\* Every return target that is not Root names a register of the frame below,
\* and only the bottom returns to Root: "return register has no caller" in
\* drive_vm_action cannot happen.
ReturnsFindTheirCaller ==
    /\ \A i \in 1..Len(frames) : Lands(frames[i].target, i - 1)
    /\ action.kind # "idle" => Lands(action.target, Len(frames))
    /\ Executing => frames # <<>>

\* Frames and waiting natives together never exceed MAX_CALL_DEPTH: a tail
\* call inside a callback, which keeps no frame, still pays for the natives
\* it leaves waiting.
DepthBounded ==
    LET waiting == SumOf([i \in DOMAIN frames |-> Len(frames[i].target.natives)])
        pending == IF action.kind = "idle" THEN 0 ELSE Len(action.target.natives)
    IN  Len(frames) + waiting + pending <= MaxCallDepth

Outputs(natives) == SumOf([i \in DOMAIN natives |-> Len(natives[i].output)])

\* What the waiting natives have collected was charged before it was kept,
\* and the charges stay within the quota.
OutputsArePaid ==
    LET waiting == SumOf([i \in DOMAIN frames |-> Outputs(frames[i].target.natives)])
        pending == IF action.kind = "idle" THEN 0 ELSE Outputs(action.target.natives)
    IN  waiting + pending <= requested /\ requested <= quota.allocation

\* No limit is passed, however natives, callbacks and tail calls are nested.
WithinLimits == DepthBounded /\ OutputsArePaid

\* Whatever the program, an evaluation ends: what repeats burns fuel.
Terminates == <>(outcome # Running)
=============================================================================
