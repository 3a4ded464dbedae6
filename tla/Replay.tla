-------------------------------- MODULE Replay --------------------------------
(***************************************************************************)
(* telora-core: evaluate_independent_bindings of module.rs.  When a module *)
(* under recovery fails at run time, its top-level bindings are run again  *)
(* one by one, in the order of the source, so that failures that do not    *)
(* depend on each other are all reported.                                  *)
(***************************************************************************)
EXTENDS EvaluationPlans

VARIABLES
    program,
    next,           \* the binding the loop is at
    values,         \* names with a value
    failed,         \* names without one
    diagnostics,    \* in order
    ran,            \* bindings that were run (history)
    status          \* running, done, full or stopped

vars == <<program, next, values, failed, diagnostics, ran, status>>

\* What the strict run of the module reported: all up to the first failure.
Emitted(p) ==
    LET reported[n \in 0..Len(p)] ==
            IF n = 0 THEN <<>>
            ELSE IF \E j \in 1..n-1 : p[j].ends # "value" THEN reported[n - 1]
            ELSE reported[n - 1] \o p[n].reports
    IN  reported[Len(p)]

Init ==
    /\ program \in Programs
    /\ next = 1
    /\ values = {} /\ failed = {}
    /\ diagnostics = Emitted(program)
    /\ ran = {}
    /\ status = "running"

binding == program[next]

TypeOK ==
    /\ next \in 1..Len(program) + 1
    /\ values \cap failed = {}
    /\ ran \subseteq 1..next - 1
    /\ status \in {"running", "done", "full", "stopped"}

AtBinding == status = "running" /\ next <= Len(program)

\* same_runtime_diagnostic: what is known already is not added again.
Merged(known, new) ==
    LET merged[n \in 0..Len(new)] ==
            IF n = 0 THEN known
            ELSE IF new[n] \in Elements(merged[n - 1]) THEN merged[n - 1]
            ELSE Append(merged[n - 1], new[n])
    IN  merged[Len(new)]

\* The budget is looked at before a binding.
Full ==
    /\ AtBinding
    /\ Len(diagnostics) >= MaxRuntimeDiagnostics
    /\ status' = "full"
    /\ UNCHANGED <<program, next, values, failed, diagnostics, ran>>

HasRoom == AtBinding /\ Len(diagnostics) < MaxRuntimeDiagnostics

\* collect_runtime_names: all names that occur, those bound inside included.
RuntimeNames(b) == b.refs \cup b.bound

Blocked == RuntimeNames(binding) \cap failed # {}

\* The expression compiles over the values so far.
Compiles == binding.refs \subseteq values

Skip ==
    /\ HasRoom
    /\ Blocked \/ ~Compiles
    /\ failed' = failed \cup {binding.name}
    /\ next' = next + 1
    /\ UNCHANGED <<program, values, diagnostics, ran, status>>

Run ==
    /\ HasRoom
    /\ ~Blocked /\ Compiles
    /\ binding.ends # "terminal"
    /\ ran' = ran \cup {next}
    /\ diagnostics' = Merged(diagnostics, binding.reports)
    /\ IF binding.ends = "value"
       THEN values' = values \cup {binding.name} /\ UNCHANGED failed
       ELSE failed' = failed \cup {binding.name} /\ UNCHANGED values
    /\ next' = next + 1
    /\ UNCHANGED <<program, status>>

\* A quota or a cancellation ends the replay; the account is one for all.
Terminate ==
    /\ HasRoom
    /\ ~Blocked /\ Compiles
    /\ binding.ends = "terminal"
    /\ ran' = ran \cup {next}
    /\ diagnostics' = Merged(diagnostics, binding.reports)
    /\ status' = "stopped"
    /\ next' = next + 1
    /\ UNCHANGED <<program, values, failed>>

Finish ==
    /\ status = "running" /\ next > Len(program)
    /\ status' = "done"
    /\ UNCHANGED <<program, next, values, failed, diagnostics, ran>>

Next == Full \/ Skip \/ Run \/ Terminate \/ Finish

Spec == Init /\ [][Next]_vars

----------------------------------------------------------------------------
\* The binding of a name that an expression refers to.
Refers(i, j) == program[j].name \in program[i].refs /\ j < i

\* What binding i needs, directly or not.
Needs(i) ==
    Reached([x \in DOMAIN program |-> {j \in DOMAIN program : Refers(x, j)}], i) \ {i}

\* No cascades: what is run needs nothing that failed, and what the strict run
\* or the replay reported is not added again.
NoCascades ==
    /\ \A i \in ran : \A j \in Needs(i) : j \in ran /\ program[j].ends = "value"
    /\ \A i, j \in DOMAIN diagnostics :
          diagnostics[i] = diagnostics[j] /\ i < j => j <= Len(Emitted(program))

\* The replay goes on past failures: when it was not cut short, everything that
\* needs only values, names nothing that failed and has no forward reference ran.
IndependentRun ==
    status = "done" =>
        \A i \in DOMAIN program :
            (/\ \A n \in program[i].refs : \E j \in 1..i-1 : program[j].name = n
             /\ \A j \in Needs(i) : j \in ran /\ program[j].ends = "value"
             /\ program[i].bound \cap failed = {}) => i \in ran
=============================================================================
