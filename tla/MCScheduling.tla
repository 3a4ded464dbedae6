---------------------------- MODULE MCScheduling ----------------------------
(***************************************************************************)
(* What a host drives of one program: the handle of a prepared module      *)
(* (PendingModule), a best-effort session over a plan of units             *)
(* (Evaluation), and the replay of top-level bindings that workspace       *)
(* recovery falls back on (Replay).  They share no state, so interleaving  *)
(* them would only multiply it: one of them runs, the others stand still.  *)
(***************************************************************************)
EXTENDS PendingModule, EvaluationPlans

VARIABLES part,
    plan, limits, states, root_failures, nodes, truncated, eStatus,
    program, next, values, failed, diagnostics, ran, rStatus

session == <<plan, limits, states, root_failures, nodes, truncated, eStatus>>
replay == <<program, next, values, failed, diagnostics, ran, rStatus>>

E == INSTANCE Evaluation WITH status <- eStatus
R == INSTANCE Replay WITH status <- rStatus

NoSession ==
    /\ plan = <<>> /\ limits = <<>> /\ states = <<>> /\ root_failures = <<>>
    /\ nodes = <<>> /\ truncated = 0 /\ eStatus = "none"

NoReplay ==
    /\ program = <<>> /\ next = 1 /\ values = {} /\ failed = {}
    /\ diagnostics = <<>> /\ ran = {} /\ rStatus = "none"

NoHandle ==
    /\ disk = "good" /\ edits = 0 /\ state = Pending({})
    /\ doing = [t \in Threads |-> Outside]
    /\ answers = [t \in Threads |-> {}] /\ accepted = {} /\ loads = 0

HostInit ==
    \/ part = "handle" /\ Init /\ NoSession /\ NoReplay
    \/ part = "session" /\ E!Init /\ NoHandle /\ NoReplay
    \/ part = "replay" /\ R!Init /\ NoHandle /\ NoSession

HostNext ==
    /\ UNCHANGED part
    /\ \/ part = "handle" /\ Next /\ UNCHANGED <<session, replay>>
       \/ part = "session" /\ E!Next /\ UNCHANGED <<vars, replay>>
       \/ part = "replay" /\ R!Next /\ UNCHANGED <<vars, session>>

HostVars == <<part, vars, session, replay>>

HostSpec ==
    /\ HostInit /\ [][HostNext]_HostVars
    /\ \A t \in Threads : WF_vars(Load(t) \/ Store(t))

----------------------------------------------------------------------------
\* What is blamed for a failure: values rest on values, causes are older than
\* what they cause, a failure comes from units it needs, and the arena shares
\* equal nodes within its limits (FailureArena).
FailuresAreOwn ==
    part = "session" =>
        /\ E!TypeOK /\ E!ValuesRestOnValues /\ E!CausesArePrior
        /\ E!FailuresAreOwn /\ E!ArenaBounded

\* Failures do not stop what is independent of them, and a session has an
\* output only if every unit has a value (BestEffortSession::run, output); the
\* replay of a module's bindings runs what needs nothing that failed, nothing
\* else, and repeats no diagnostic (evaluate_independent_bindings).
IndependentUnitsRun ==
    /\ part = "session" => E!IndependentUnitsRun /\ E!OutputIsClean
    /\ part = "replay" => R!TypeOK /\ R!NoCascades /\ R!IndependentRun

\* However many threads inject into @main and initialize it, it is loaded once,
\* with all that was accepted and nothing else (PendingModule).
MadeOnce == part = "handle" => InitializedOnce /\ AllInjected

----------------------------------------------------------------------------
MCThreads == {"t1", "t2", "t3"}
MCInvalid == {"@main"}
MCBuiltins == {"core/array"}
MCIds == {"x", "y"} \cup MCInvalid \cup MCBuiltins

\* All ascending sequences of numbers below n.
Ascending(n) ==
    {[k \in 1..Cardinality(S) |->
         CHOOSE x \in S : Cardinality({y \in S : y < x}) = k - 1] : S \in SUBSET (1..n-1)}

\* Four units; the second and the third are at one place.
MCPlans ==
    {[i \in 1..4 |-> [location |-> IF i = 3 THEN 2 ELSE i, dependencies |-> d[i], outcome |-> o[i]]] :
        d \in {<<d1, d2, d3, d4>> : d1 \in Ascending(1), d2 \in Ascending(2),
                                    d3 \in Ascending(3), d4 \in Ascending(4)},
        o \in [1..4 -> {"value", "recoverable"}] \cup [1..4 -> {"value", "terminal"}]}

MCLimits == {[nodes |-> n, causes |-> c, roots |-> r] : n \in {0, 1, 3}, c \in {1, 2}, r \in {1, 4}}

ReplayNames == {"x", "y", "z"}
Binding(i) == <<"x", "y", "z">>[i]

\* Three bindings; each may refer to the others, hide one, and report diagnostics
\* of its own. A failure always reports one.
Bindings(i, hidden) ==
    {[name |-> Binding(i), refs |-> r, bound |-> b, reports |-> d, ends |-> e] :
        r \in SUBSET (ReplayNames \ {Binding(i)}), b \in hidden,
        d \in {<<>>, <<Binding(i)>>, <<Binding(i), "again">>}, e \in {"value", "fails", "terminal"}}

Sound(p) ==
    /\ \A i \in DOMAIN p : p[i].ends = "fails" => p[i].reports # <<>>
    /\ \E i \in DOMAIN p : p[i].ends = "fails" /\ \A j \in 1..i-1 : p[j].ends = "value"

MCPrograms ==
    {p \in {<<a, b, c>> : a \in Bindings(1, {{}}), b \in Bindings(2, {{}}),
                          c \in Bindings(3, {{}, {"x"}})} : Sound(p)}
=============================================================================
