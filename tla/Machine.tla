------------------------------ MODULE Machine ------------------------------
(***************************************************************************)
(* The virtual machine on what the compiler makes (vm.rs): each            *)
(* instruction, the cells of up-links, the frames.  Vm has what is left    *)
(* out here: natives, fuel, the stack and call limits.                     *)
(*                                                                         *)
(* A function is named by the position of each MakeClosure that leads to   *)
(* it from the program's own.                                              *)
(***************************************************************************)
EXTENDS Compiler

CONSTANT Programs   \* the programs, as parsed

\* A register or cell not written yet.
Unset == [k |-> "Unset"]

VARIABLES
    program,    \* the one that runs
    code,       \* what the compiler makes of it
    frames,     \* of each active function: path, pc, registers, target
    links,      \* the cells of the up-links made so far
    outcome     \* how the program ended

machineVars == <<program, code, frames, links, outcome>>

Running == [kind |-> "running", value |-> Unset]
Finished(value) == [kind |-> "value", value |-> value]
Failed(kind) == [kind |-> "error", value |-> kind]

\* The caller's register that takes the result, Root for none.
Root == -1

FunctionAt(path) ==
    FoldLeft(LAMBDA f, pc : f.code[pc].function, code, path)

Top == Last(frames)
Instruction == FunctionAt(Top.path).code[Top.pc]
Fetched(ops) == outcome.kind = "running" /\ Instruction.op \in ops
Register(r) == Top.registers[r]
Operands == [p \in DOMAIN Instruction.of |-> Register(Instruction.of[p])]

Stop(kind) == outcome' = Failed(kind) /\ UNCHANGED <<program, code, frames, links>>

Goto(pc) == frames' = [frames EXCEPT ![Len(frames)].pc = pc]
Advance == Goto(Top.pc + 1)
Write(r, value) ==
    frames' = [frames EXCEPT ![Len(frames)].pc = @ + 1, ![Len(frames)].registers[r] = value]

FuncValue(path, upvalues) == [k |-> "Func", path |-> path, upvalues |-> upvalues]
LinkValue(n) == [k |-> "Link", n |-> n]

RECURSIVE Exports(_, _)

\* A value leaves the heap unless it is part of itself or not yet there.
Exports(value, entered) ==
    CASE value.k = "Link" ->
            /\ value.n \notin entered
            /\ links[value.n] # Unset
            /\ Exports(links[value.n], entered \cup {value.n})
      [] value.k = "Func" -> \A i \in DOMAIN value.upvalues : Exports(value.upvalues[i], entered)
      [] value.k \in {"Array", "Tuple"} -> \A i \in DOMAIN value.items : Exports(value.items[i], entered)
      [] value.k = "Dict" -> \A x \in DOMAIN value.fields : Exports(value.fields[x], entered)
      [] value.k = "Tagged" -> Exports(value.payload, entered)
      [] OTHER -> TRUE

\* Some type errors describe the operands, which have to be exported.
Describing == {"+", "-", "*", "/", "Negate", "<", "GetField", "GetTuple", "GetTaggedPayload",
               "JumpIfFalse", "Panic", "Raise", "Call", "TailCall"}

Mismatch(values) ==
    Stop(IF Instruction.op \notin Describing \/ \A p \in DOMAIN values : Exports(values[p], {})
         THEN "TypeMismatch" ELSE "InvalidBytecode")

----------------------------------------------------------------------------

LoadConst ==
    /\ Fetched({"LoadConst"})
    /\ Write(Instruction.dst, Instruction.value)
    /\ UNCHANGED <<program, code, links, outcome>>

\* Every instruction that computes a value of its operands.
Computes == {"Move", "+", "-", "*", "/", "Negate", "==", "<", "MakeArray", "ConcatArrays", "Tuple",
             "Interpolate", "MakeDict", "MergeDicts", "GetField", "FieldExists", "IsDict",
             "TupleLengthEquals", "GetTuple", "TaggedTagEquals", "GetTaggedPayload"}

Unsound(values) ==
    \/ \E p \in DOMAIN values : values[p] = Unset
    \/ Instruction.op = "==" /\ \E p \in DOMAIN values : values[p].k = "Link"

Compute ==
    /\ Fetched(Computes)
    /\ LET values == Operands IN
       IF Unsound(values) THEN Stop("InvalidBytecode")
       ELSE LET result == Operate(Instruction, values) IN
            CASE result.error = "" ->
                    Write(Instruction.dst, result.value) /\ UNCHANGED <<program, code, links, outcome>>
              [] result.error = "TypeMismatch" -> Mismatch(values)
              [] OTHER -> Stop(result.error)

MakeUpLink ==
    /\ Fetched({"MakeUpLink"})
    /\ links' = Append(links, Unset)
    /\ Write(Instruction.dst, LinkValue(Len(links) + 1))
    /\ UNCHANGED <<program, code, outcome>>

\* The cell an instruction is about, if its operand is an up-link.
OnLink == Register(Instruction.link) # Unset /\ Register(Instruction.link).k = "Link"
Cell == Register(Instruction.link).n

ReadUpLink ==
    /\ Fetched({"ReadUpLink"})
    /\ CASE ~OnLink -> Stop("InvalidBytecode")
         [] OnLink /\ links[Cell] = Unset -> Stop("UninitializedDefinition")
         [] OnLink /\ links[Cell] # Unset ->
              Write(Instruction.dst, links[Cell]) /\ UNCHANGED <<program, code, links, outcome>>

InitializeUpLink ==
    /\ Fetched({"InitializeUpLink"})
    /\ CASE ~OnLink \/ Operands[1] = Unset -> Stop("InvalidBytecode")
         [] OnLink /\ links[Cell] # Unset -> Stop("DuplicateDefinition")
         [] OTHER -> links' = [links EXCEPT ![Cell] = Operands[1]] /\ Advance /\ UNCHANGED <<program, code, outcome>>

AssertUpLinkReady ==
    /\ Fetched({"AssertUpLinkReady"})
    /\ CASE ~OnLink -> Stop("InvalidBytecode")
         [] OnLink /\ links[Cell] = Unset -> Stop("UninitializedDefinition")
         [] OnLink /\ links[Cell] # Unset -> Advance /\ UNCHANGED <<program, code, links, outcome>>

AssertFunctionArity ==
    /\ Fetched({"AssertFunctionArity"})
    /\ LET value == Operands[1] IN
       CASE value = Unset -> Stop("InvalidBytecode")
         [] value # Unset /\ value.k = "Func" /\ FunctionAt(value.path).parameters = Instruction.arity ->
              Advance /\ UNCHANGED <<program, code, links, outcome>>
         [] OTHER -> Stop("TypeMismatch")

MakeClosure ==
    /\ Fetched({"MakeClosure"})
    /\ IF \E p \in DOMAIN Operands : Operands[p] = Unset THEN Stop("InvalidBytecode")
       ELSE /\ Write(Instruction.dst, FuncValue(Append(Top.path, Top.pc), Operands))
            /\ UNCHANGED <<program, code, links, outcome>>

Jump ==
    /\ Fetched({"Jump"})
    /\ Goto(Instruction.target)
    /\ UNCHANGED <<program, code, links, outcome>>

JumpIfFalse ==
    /\ Fetched({"JumpIfFalse"})
    /\ LET condition == Register(Instruction.condition) IN
       CASE condition = Unset -> Stop("InvalidBytecode")
         [] condition = AtomValue("True") -> Advance /\ UNCHANGED <<program, code, links, outcome>>
         [] condition = AtomValue("False") -> Goto(Instruction.target) /\ UNCHANGED <<program, code, links, outcome>>
         [] OTHER -> Mismatch(<<condition>>)

\* A value goes to a register of the frame below, which has moved on.
ReturnTo(below, target, value) ==
    IF target = Root
    THEN outcome' = Finished(value) /\ frames' = below
    ELSE frames' = [below EXCEPT ![Len(below)].registers[target] = value] /\ UNCHANGED outcome

\* An atom makes a tagged value of its argument; a function gets a frame.
Enter(below, callee, arguments, target) ==
    CASE callee.k = "Atom" ->
            IF Len(arguments) = 1
            THEN ReturnTo(below, target, TaggedValue(callee.tag, arguments[1])) /\ UNCHANGED <<program, code, links>>
            ELSE Stop("TypeMismatch")
      [] callee.k = "Func" ->
            LET function == FunctionAt(callee.path)
                given == arguments \o callee.upvalues
            IN  IF Len(arguments) # function.parameters THEN Stop("TypeMismatch")
                ELSE /\ frames' = Append(below,
                            [path |-> callee.path, pc |-> 1, target |-> target,
                             registers |-> [r \in 0..function.registers-1 |->
                                               IF r < Len(given) THEN given[r + 1] ELSE Unset]])
                     /\ UNCHANGED <<program, code, links, outcome>>
      [] callee.k \notin {"Atom", "Func"} -> Mismatch(<<callee>>)

Window == [p \in 1..Instruction.arguments |-> Register(Instruction.base + p)]
WindowSet == \A p \in 0..Instruction.arguments : Register(Instruction.base + p) # Unset

CallFunction ==
    /\ Fetched({"Call"})
    /\ IF WindowSet
       THEN Enter([frames EXCEPT ![Len(frames)].pc = @ + 1], Register(Instruction.base), Window, Instruction.base)
       ELSE Stop("InvalidBytecode")

\* The callee takes the caller's place and target.
TailCall ==
    /\ Fetched({"TailCall"})
    /\ IF WindowSet THEN Enter(Front(frames), Register(Instruction.base), Window, Top.target)
       ELSE Stop("InvalidBytecode")

Return ==
    /\ Fetched({"Return"})
    /\ IF Operands[1] = Unset THEN Stop("InvalidBytecode")
       ELSE ReturnTo(Front(frames), Top.target, Operands[1]) /\ UNCHANGED <<program, code, links>>

NoArm == Fetched({"Fail"}) /\ Stop("NoPatternMatched")

LeaveProgram ==
    /\ Fetched({"Panic", "Raise"})
    /\ CASE Operands[1] = Unset -> Stop("InvalidBytecode")
         [] Operands[1] # Unset /\ Leaving(Instruction.op, Operands[1]) # "TypeMismatch" ->
              Stop(Leaving(Instruction.op, Operands[1]))
         [] OTHER -> Mismatch(Operands)

\* A program that does not compile does not run.
Loaded(compiled) ==
    /\ code = compiled.function
    /\ IF compiled.error # ""
       THEN frames = <<>> /\ outcome = [kind |-> "rejected", value |-> compiled.error]
       ELSE /\ frames = <<[path |-> <<>>, pc |-> 1, target |-> Root,
                           registers |-> [r \in 0..compiled.function.registers-1 |-> Unset]]>>
            /\ outcome = Running

MachineInit ==
    /\ program \in Programs
    /\ links = <<>>
    /\ Loaded(Compile(program))

MachineNext ==
    \/ LoadConst \/ Compute
    \/ MakeUpLink \/ ReadUpLink \/ InitializeUpLink \/ AssertUpLinkReady \/ AssertFunctionArity
    \/ MakeClosure \/ Jump \/ JumpIfFalse
    \/ CallFunction \/ TailCall \/ Return
    \/ NoArm \/ LeaveProgram
=============================================================================
