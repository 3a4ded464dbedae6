------------------------------- MODULE MCVm --------------------------------
(***************************************************************************)
(* Programs of three functions for TLC.  The main function calls a native  *)
(* with a callback, or the callback itself; the callback answers at once,  *)
(* loops, calls itself, or calls, plainly or in tail position, a native    *)
(* that asks the helper; the helper answers, fails, or goes on likewise.   *)
(***************************************************************************)
EXTENDS VmMeaning

MCFunctions == {"main", "callback", "helper"}

F(f) == Func(f, <<>>)
Load(dst, value) == [op |-> "LoadConst", dst |-> dst, value |-> value]
Copy(dst, src) == [op |-> "Move", dst |-> dst, src |-> src]
Calling1(tail, base, count) ==
    [op |-> IF tail THEN "TailCall" ELSE "Call", base |-> base, count |-> count]
Give(src) == [op |-> "Return", src |-> src]
Goto(target) == [op |-> "Jump", target |-> target]
Unless(condition, target) ==
    [op |-> "JumpIfFalse", condition |-> condition, target |-> target]
Close(dst, prototype, captures) ==
    [op |-> "MakeClosure", dst |-> dst, prototype |-> prototype,
     captures |-> captures]

\* Load a callee and its arguments from register base on, call, return.
CallAndReturn(tail, base, callee, arguments) ==
    <<Load(base, callee)>>
    \o [i \in 1..Len(arguments) |-> Load(base + i, arguments[i])]
    \o <<Calling1(tail, base, Len(arguments)), Give(base)>>

Function(parameters, captures, registers, instructions) ==
    [parameters |-> parameters, captures |-> captures,
     registers |-> registers, instructions |-> instructions]

Entry(key, value) == [key |-> Atom(key), value |-> value]
Arrays == {Array(<<>>), Array(<<True, False>>), Array(<<Array(<<True>>)>>)}
Dicts == {Dict(<<Entry("k", True), Entry("l", False)>>)}
Collections(native) == IF native \in DictNatives THEN Dicts ELSE Arrays

Blame == Dict(<<>>)

MainArguments(native) ==
    CASE native \in Folding ->
            {<<c, True, F("callback")>> : c \in Collections(native)}
      [] native \in Suspending ->
            {<<c, F("callback")>> : c \in Collections(native)}
      [] native = "array.zip" ->
            {<<Array(<<True>>), c>> : c \in Arrays \cup {Array(<<False>>), True}}
      [] native = "array.push" -> {<<Array(<<True>>), False>>}
      [] native \in {"array.length", "array.concat"} ->
            {<<c>> : c \in Arrays \cup Dicts}
      [] native = "diagnostic.report" ->
            {<<Atom(severity), blame>> :
               severity \in {"Warn", "Error", "Oops"}, blame \in {Blame, True}}
      [] native \in {"callback"} \cup HostNatives -> {<<True>>}
      [] OTHER -> {<<True, False>>}

Callees == Natives \cup {"callback", "True"}

CallingMain(native, arguments, tail) ==
    CallAndReturn(tail, 0, IF native = "True" THEN True ELSE F(native), arguments)

\* Bodies of the callback, which has p parameters and registers p to p + 2.
CallbackBody(body, p) ==
    CASE body = "first" -> <<Give(0)>>
      [] body = "last" -> <<Give(p - 1)>>
      [] body = "not" ->
            <<Unless(0, 3), Load(p, False), Give(p), Load(p, True), Give(p)>>
      [] body = "continue" ->
            <<Load(p, Atom("Continue")), Copy(p + 1, 0), Calling1(FALSE, p, 1), Give(p)>>
      [] body = "break" ->
            <<Load(p, Atom("Break")), Copy(p + 1, 0), Calling1(TRUE, p, 1)>>
      [] body = "loop" -> <<Load(p, False), Goto(0)>>
      [] body = "again" ->
            <<Load(p, F("callback")), Copy(p + 1, 0), Calling1(TRUE, p, 1)>>
      [] body = "ask" ->
            CallAndReturn(FALSE, p, F("array.map"), <<Array(<<True>>), F("helper")>>)
      [] body = "tailask" ->
            CallAndReturn(TRUE, p, F("array.filter"), <<Array(<<True>>), F("helper")>>)
      [] body = "closure" ->
            <<Close(p, "helper", <<0>>), Copy(p + 1, 0), Calling1(FALSE, p, 1), Give(p)>>
      [] body = "forward" -> <<Goto(2), Load(p, True), Give(0)>>
      [] body = "report" ->
            CallAndReturn(FALSE, p, F("diagnostic.report"), <<Atom("Error"), Blame>>)
      [] body = "host" -> CallAndReturn(FALSE, p, F("host.identity"), <<True>>)
      [] body = "silent" -> CallAndReturn(TRUE, p, F("host.silent"), <<True>>)
      [] body = "raise" -> CallAndReturn(FALSE, p, F("host.raise"), <<True>>)
      [] body = "notfunc" -> CallAndReturn(FALSE, p, Array(<<>>), <<True>>)
      [] body = "unset" -> <<Give(p)>>
      [] body = "nodst" -> <<Load(p + 3, True), Give(0)>>
      [] body = "nojump" -> <<Goto(7)>>
      [] body = "nothing" -> <<>>

\* Bodies of the helper, which has one parameter and three more registers.
HelperBodies ==
    {<<Give(0)>>,
     CallAndReturn(TRUE, 1, F("array.map"), <<Array(<<True>>), F("helper")>>),
     CallAndReturn(FALSE, 1, F("array.any"), <<Array(<<False>>), F("helper")>>)}

Bodies == {"first", "last", "not", "continue", "break", "loop", "again", "ask",
           "tailask", "closure", "forward", "report", "host", "silent", "raise",
           "notfunc", "unset", "nodst", "nojump", "nothing"}

Program(main, p, body, helper) ==
    [f \in MCFunctions |->
        CASE f = "main" -> Function(0, 0, 4, main)
          [] f = "callback" -> Function(p, 0, p + 3, CallbackBody(body, p))
          [] f = "helper" -> Function(1, IF body = "closure" THEN 1 ELSE 0, 4, helper)]

\* Every native and collection with every callback, and a few natives with
\* every helper and with callbacks of the wrong arity.
MCPrograms ==
    UNION {{Program(CallingMain(native, arguments, tail), CallbackArity(native), body,
                    <<Give(0)>>) :
              arguments \in MainArguments(native), tail \in BOOLEAN,
              body \in Bodies} :
           native \in Callees}
    \cup {Program(CallingMain("array.map", <<Array(<<True, False>>), F("callback")>>,
                              tail), p, body, helper) :
           tail \in BOOLEAN, p \in {1, 2}, body \in Bodies, helper \in HelperBodies}
    \cup {Program(CallingMain("array.fold_control",
                              <<Array(<<True, False>>), True, F("callback")>>, FALSE),
                  2, body, <<Give(0)>>) : body \in Bodies}

\* Enough of all, and too little of each.
MCQuotas ==
    {[fuel |-> 10, stack_slots |-> 30, allocation |-> 12],
     [fuel |-> 3, stack_slots |-> 30, allocation |-> 12],
     [fuel |-> 10, stack_slots |-> 9, allocation |-> 12],
     [fuel |-> 10, stack_slots |-> 30, allocation |-> 1]}
=============================================================================
