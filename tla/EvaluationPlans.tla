--------------------------- MODULE EvaluationPlans ---------------------------
(* What is evaluated with failures kept apart: the plan of units of a        *)
(* best-effort session (evaluation.rs), and the top-level bindings that      *)
(* workspace recovery replays (module.rs).                                   *)
EXTENDS Integers, Sequences, FiniteSets

CONSTANTS
    Plans,      \* validated plans: a unit has a location, dependencies, outcome
    Limits,     \* FailureLimits and the budget of roots
    Locations,
    Programs,   \* sequences of bindings
    MaxRuntimeDiagnostics

Outcomes == {"value", "recoverable", "terminal"}

Unit == [location : Locations, dependencies : Seq(Nat), outcome : Outcomes]

\* EvaluationPlan::new: dependencies are prior and strictly ascending.
ValidPlan(p) ==
    \A i \in DOMAIN p :
        LET ds == p[i].dependencies IN
        /\ \A k \in DOMAIN ds : ds[k] \in 1..i-1
        /\ \A k \in DOMAIN ds : \A l \in DOMAIN ds : k < l => ds[k] < ds[l]

\* A binding: its name, the names its expression refers to, those that the
\* expression binds itself, the diagnostics it reports while it runs, and how
\* it ends.  A binding that reports an error fails in the end with the same
\* diagnostic.  Names are those of one module, and differ.
ValidProgram(p) ==
    /\ \A i \in DOMAIN p : p[i].ends \in {"value", "fails", "terminal"}
    /\ \A i, j \in DOMAIN p : p[i].name = p[j].name => i = j

ASSUME EvaluationAssumption ==
    /\ \A p \in Plans : p \in Seq(Unit) /\ p # <<>> /\ ValidPlan(p)
    /\ \A l \in Limits : /\ l.nodes \in Nat /\ l.roots \in Nat
                         /\ l.causes \in Nat \ {0}

ASSUME ReplayAssumption ==
    /\ \A p \in Programs :
        /\ p \in Seq({p[i] : i \in DOMAIN p}) /\ ValidProgram(p)
        /\ \A i \in DOMAIN p :
            p[i].reports \in Seq({p[i].reports[k] : k \in DOMAIN p[i].reports})
    /\ MaxRuntimeDiagnostics \in Nat

Elements(s) == {s[k] : k \in DOMAIN s}

\* Where leads leads from start: the smallest set that has start and, with x,
\* all of leads[x].
Reached(leads, start) ==
    {x \in DOMAIN leads :
        \A S \in SUBSET DOMAIN leads :
            start \in S /\ (\A y \in S : leads[y] \subseteq S) => x \in S}
=============================================================================
