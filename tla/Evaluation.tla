------------------------------ MODULE Evaluation ------------------------------
(***************************************************************************)
(* telora-core: best-effort evaluation of a plan of units (evaluation.rs). *)
(* Units run in order; a unit with a failed dependency is not run and gets *)
(* a node of the failure arena whose causes are the failures of its        *)
(* dependencies; a unit that fails becomes a root.  The arena shares equal *)
(* nodes, and is bounded: past max_propagated_nodes every propagation ends *)
(* in one Truncated node.                                                  *)
(***************************************************************************)
EXTENDS EvaluationPlans

VARIABLES
    plan, limits,
    states,         \* of the units so far: their value or failure
    root_failures,  \* failures of units that ran, in order
    nodes,          \* FailureArena.nodes; ids are indices
    truncated,      \* the Truncated node, or 0
    status          \* running, done, exhausted (root budget) or aborted

vars == <<plan, limits, states, root_failures, nodes, truncated, status>>

\* A unit's state: 0 is a value, a positive number is its failure's id.
Value == 0

Node == [kind : {"Root", "Propagated", "Truncated"}, unit : Nat, location : Locations,
         causes : Seq(Nat)]

TypeOK ==
    /\ states \in Seq(0..Len(nodes)) /\ Len(states) <= Len(plan)
    /\ root_failures \in Seq(1..Len(nodes))
    /\ nodes \in Seq(Node)
    /\ truncated \in 0..Len(nodes)
    /\ status \in {"running", "done", "exhausted", "aborted"}

Init ==
    /\ plan \in Plans /\ limits \in Limits
    /\ states = <<>>
    /\ root_failures = <<>>
    /\ nodes = <<>>
    /\ truncated = 0
    /\ status = "running"

\* The unit the loop is at.
Current == Len(states) + 1
unit == plan[Current]

Running == status = "running" /\ Len(states) < Len(plan)

\* Mutant: any failure so far counts as one of a dependency.
FailedBefore == SelectSeq(states, LAMBDA s : s # Value)

FailedDependencies ==
    LET ds == unit.dependencies
        failed[k \in 0..Len(ds)] ==
            IF k = 0 THEN <<>>
            ELSE IF states[ds[k]] = Value THEN failed[k - 1]
            ELSE Append(failed[k - 1], states[ds[k]])
    IN  failed[Len(ds)]

----------------------------------------------------------------------------
(* FailureArena *)

\* Mutant: the failed states are taken as they are listed, values included.
NormalizedUnits(causes, limit) == unit.dependencies

\* normalize_causes: the first limit different causes, in order.
Normalized(causes, limit) ==
    LET kept[k \in 0..Len(causes)] ==
            IF k = 0 THEN <<>>
            ELSE IF causes[k] \in Elements(kept[k - 1]) \/ Len(kept[k - 1]) = limit
            THEN kept[k - 1]
            ELSE Append(kept[k - 1], causes[k])
    IN  kept[Len(causes)]

Propagated(location, causes) ==
    [kind |-> "Propagated", unit |-> 0, location |-> location, causes |-> causes]

\* The node that an equal propagation made before.
Interned(node) == {i \in DOMAIN nodes : nodes[i] = node}

PropagatedCount == Cardinality({i \in DOMAIN nodes : nodes[i].kind = "Propagated"})

\* propagate_causes
PropagateCauses(node) ==
    IF Interned(node) # {}
    THEN states' = Append(states, CHOOSE i \in Interned(node) : TRUE)
         /\ UNCHANGED <<nodes, truncated>>
    ELSE IF PropagatedCount >= limits.nodes
    THEN IF truncated # 0
         THEN states' = Append(states, truncated) /\ UNCHANGED <<nodes, truncated>>
         ELSE /\ nodes' = Append(nodes, [node EXCEPT !.kind = "Truncated"])
              /\ truncated' = Len(nodes')
              /\ states' = Append(states, truncated')
    ELSE /\ nodes' = Append(nodes, node)
         /\ states' = Append(states, Len(nodes'))
         /\ UNCHANGED truncated

----------------------------------------------------------------------------
(* BestEffortSession::run *)

Propagate ==
    /\ Running
    /\ FailedDependencies # <<>>
    /\ PropagateCauses(
          Propagated(unit.location, Normalized(FailedDependencies, limits.causes)))
    /\ UNCHANGED <<plan, limits, root_failures, status>>

\* A unit that may run, as far as its dependencies go.
Ready == Running /\ FailedDependencies = <<>>

\* No further unit is started; the units left stay pending.
Exhaust ==
    /\ Ready
    /\ Len(root_failures) >= limits.roots
    /\ status' = "exhausted"
    /\ UNCHANGED <<plan, limits, states, root_failures, nodes, truncated>>

Succeed ==
    /\ Ready
    /\ Len(root_failures) < limits.roots
    /\ unit.outcome = "value"
    /\ states' = Append(states, Value)
    /\ UNCHANGED <<plan, limits, root_failures, nodes, truncated, status>>

Fail ==
    /\ Ready
    /\ Len(root_failures) < limits.roots
    /\ unit.outcome = "recoverable"
    /\ nodes' = Append(nodes, [kind |-> "Root", unit |-> Current,
                               location |-> unit.location, causes |-> <<>>])
    /\ root_failures' = Append(root_failures, Len(nodes'))
    /\ states' = Append(states, Len(nodes'))
    /\ UNCHANGED <<plan, limits, truncated, status>>

\* A terminal failure of a unit, or a checkpoint that fails: the session is
\* dropped.
Abort ==
    /\ status = "running"
    /\ status' = "aborted"
    /\ UNCHANGED <<plan, limits, states, root_failures, nodes, truncated>>

Finish ==
    /\ status = "running" /\ Len(states) = Len(plan)
    /\ status' = "done"
    /\ UNCHANGED <<plan, limits, states, root_failures, nodes, truncated>>

Next == Propagate \/ Exhaust \/ Succeed \/ Fail \/ Abort \/ Finish

Spec == Init /\ [][Next]_vars

----------------------------------------------------------------------------
\* output(): only of a session in which nothing failed or was left out.
Output == root_failures = <<>> /\ status # "exhausted" /\ states # <<>>
             /\ states[Len(states)] = Value

\* What a unit needs, directly or not, itself included.
Needs(i) == Reached([j \in DOMAIN plan |-> Elements(plan[j].dependencies)], i)

\* The roots a failure comes from.
Roots(failure) ==
    {n \in Reached([m \in DOMAIN nodes |-> Elements(nodes[m].causes)], failure) :
        nodes[n].kind = "Root"}

\* A unit has a value only if all that it needs has one.
ValuesRestOnValues ==
    \A i \in DOMAIN states : states[i] = Value =>
        \A d \in DOMAIN plan[i].dependencies : states[plan[i].dependencies[d]] = Value

\* Causes are older than the node that they cause: the arena has no cycles, so
\* following causes ends at a root.
CausesArePrior ==
    \A n \in DOMAIN nodes :
        /\ \A c \in DOMAIN nodes[n].causes : nodes[n].causes[c] \in 1..n-1
        /\ nodes[n].kind = "Root" <=> nodes[n].causes = <<>>

\* Every failure of a unit comes from units that it needs and that were run and
\* failed, as long as nothing was truncated.
FailuresAreOwn ==
    \A i \in DOMAIN states : states[i] # Value =>
        /\ Roots(states[i]) # {}
        /\ truncated = 0 => \A r \in Roots(states[i]) : nodes[r].unit \in Needs(i)

\* Every unit that failed is a root, in order; the arena stays within its limits
\* and never holds the same propagation twice.
ArenaBounded ==
    /\ PropagatedCount <= limits.nodes
    /\ Cardinality({n \in DOMAIN nodes : nodes[n].kind = "Truncated"}) <= 1
    /\ \A i, j \in DOMAIN nodes :
          nodes[i].kind = "Propagated" /\ nodes[i] = nodes[j] => i = j

\* The session has an output only if every unit of the plan has a value.
OutputIsClean ==
    status \in {"done", "exhausted"} /\ Output =>
        Len(states) = Len(plan) /\ \A i \in DOMAIN states : states[i] = Value

\* Failures do not stop what is independent: with roots to spare, a unit whose
\* needs all have values has one or is a root itself.
IndependentUnitsRun ==
    status = "done" =>
        /\ Len(states) = Len(plan)
        /\ \A i \in DOMAIN plan :
              (\A j \in Needs(i) \ {i} : plan[j].outcome = "value") =>
                  (states[i] = Value <=> plan[i].outcome = "value")
=============================================================================
