----------------------------- MODULE Operations -----------------------------
(***************************************************************************)
(* What the instructions of the virtual machine compute of their operands  *)
(* (vm.rs): a value, or the kind of an error.  Floats are left out, and a  *)
(* text is a sequence of pieces.                                           *)
(***************************************************************************)
EXTENDS Syntax, TLC

CONSTANT MaxInt     \* i64::MAX; integers wrap nowhere, they overflow

ArrayValue(items) == [k |-> "Array", items |-> items]

Computed(value) == [error |-> "", value |-> value]
Refused(kind) == [error |-> kind, value |-> 0]
Truth(holds) == Computed(AtomValue(IF holds THEN "True" ELSE "False"))

\* Division rounds toward zero.
Quotient(n, m) ==
    LET Abs(i) == IF i < 0 THEN -i ELSE i
    IN  IF (n < 0) = (m < 0) THEN Abs(n) \div Abs(m) ELSE -(Abs(n) \div Abs(m))

Checked(n) == IF n \in (-MaxInt - 1)..MaxInt THEN Computed(IntValue(n)) ELSE Refused("IntegerOverflow")

NumericBinary(op, left, right) ==
    CASE {left.k, right.k} # {"Int"} -> Refused("TypeMismatch")
      [] {left.k, right.k} = {"Int"} /\ op = "/" /\ right.n = 0 -> Refused("DivisionByZero")
      [] OTHER -> Checked(CASE op = "+" -> left.n + right.n
                            [] op = "-" -> left.n - right.n
                            [] op = "*" -> left.n * right.n
                            [] op = "/" -> Quotient(left.n, right.n))

Text(value) ==
    CASE value.k = "Int" -> <<ToString(value.n)>>
      [] value.k = "String" -> value.s
      [] value.k = "Atom" -> <<value.tag>>

\* The entries of dicts one after another: of equal names the last stays.
Merged(dicts) ==
    FoldLeft(LAMBDA fields, dict : dict.fields @@ fields, [x \in {} |-> 0], dicts)

AllAre(values, kinds) == \A i \in DOMAIN values : values[i].k \in kinds

RECURSIVE ValuesEqual(_, _)

\* A function equals itself alone; those compared here never are.
ValuesEqual(left, right) ==
    /\ left.k = right.k
    /\ CASE left.k \in {"Array", "Tuple"} ->
               /\ Len(left.items) = Len(right.items)
               /\ \A i \in DOMAIN left.items : ValuesEqual(left.items[i], right.items[i])
         [] left.k = "Dict" ->
               /\ DOMAIN left.fields = DOMAIN right.fields
               /\ \A x \in DOMAIN left.fields : ValuesEqual(left.fields[x], right.fields[x])
         [] left.k = "Tagged" -> left.tag = right.tag /\ ValuesEqual(left.payload, right.payload)
         [] OTHER -> left = right

BlameFields == {"data", "message", "rule"}

\* The operation of an instruction on the values of its operands.
Operate(i, values) ==
    CASE i.op = "Move" -> Computed(values[1])
      [] i.op \in {"+", "-", "*", "/"} -> NumericBinary(i.op, values[1], values[2])
      [] i.op = "Negate" ->
            IF values[1].k = "Int" THEN Checked(-values[1].n) ELSE Refused("TypeMismatch")
      [] i.op = "==" -> Truth(ValuesEqual(values[1], values[2]))
      [] i.op = "<" ->
            IF AllAre(values, {"Int"}) THEN Truth(values[1].n < values[2].n) ELSE Refused("TypeMismatch")
      [] i.op = "MakeArray" -> Computed(ArrayValue(values))
      [] i.op = "ConcatArrays" ->
            IF AllAre(values, {"Array"})
            THEN Computed(ArrayValue(FlattenSeq([p \in DOMAIN values |-> values[p].items])))
            ELSE Refused("TypeMismatch")
      [] i.op = "Tuple" -> Computed(TupleValue(values))
      [] i.op = "Interpolate" ->
            IF AllAre(values, {"Int", "String", "Atom"})
            THEN Computed(StringValue(FlattenSeq([p \in DOMAIN values |-> Text(values[p])])))
            ELSE Refused("TypeMismatch")
      [] i.op = "MakeDict" ->
            IF IsInjective(i.names)
            THEN Computed(DictValue([x \in ToSet(i.names) |->
                              values[CHOOSE p \in DOMAIN i.names : i.names[p] = x]]))
            ELSE Refused("InvalidBytecode")
      [] i.op = "MergeDicts" ->
            IF AllAre(values, {"Dict"}) THEN Computed(DictValue(Merged(values))) ELSE Refused("TypeMismatch")
      [] i.op = "GetField" ->
            IF values[1].k # "Dict" THEN Refused("TypeMismatch")
            ELSE IF i.field \in DOMAIN values[1].fields THEN Computed(values[1].fields[i.field])
            ELSE Refused("MissingField")
      [] i.op = "FieldExists" -> Truth(values[1].k = "Dict" /\ i.field \in DOMAIN values[1].fields)
      [] i.op = "IsDict" -> Truth(values[1].k = "Dict")
      [] i.op = "TupleLengthEquals" -> Truth(values[1].k = "Tuple" /\ Len(values[1].items) = i.length)
      [] i.op = "GetTuple" ->
            IF values[1].k = "Tuple" THEN Computed(values[1].items[i.index]) ELSE Refused("TypeMismatch")
      [] i.op = "TaggedTagEquals" -> Truth(values[1].k = "Tagged" /\ values[1].tag = values[2].tag)
      [] i.op = "GetTaggedPayload" ->
            IF values[1].k = "Tagged" THEN Computed(values[1].payload) ELSE Refused("TypeMismatch")

\* The error that panic and raise end the program with.
Leaving(op, value) ==
    CASE op = "Panic" -> IF value.k = "String" THEN "Panic" ELSE "TypeMismatch"
      [] op = "Raise" ->
            IF value.k = "Dict" /\ DOMAIN value.fields = BlameFields /\ value.fields["message"].k = "String"
            THEN "RaisedBlame" ELSE "TypeMismatch"
=============================================================================
