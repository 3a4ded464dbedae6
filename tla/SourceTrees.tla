----------------------------- MODULE SourceTrees -----------------------------
(***************************************************************************)
(* The source trees the loaders are checked on.  Sources are "a", "b", "c" *)
(* (and "d"); root imports some of them, and they each other.              *)
(***************************************************************************)
EXTENDS ModuleGraph

Plain(m) == [target |-> m, open |-> FALSE, select |-> Whole]
Open(m)  == [target |-> m, open |-> TRUE, select |-> Whole]
Item(m)  == [target |-> m, open |-> FALSE, select |-> "n"]

\* Imports that bind different names, and two that bind the same.
As(import, name) == [target |-> import.target, open |-> import.open,
                     select |-> import.select, as |-> name]
Apart(imports) == [i \in DOMAIN imports |-> As(imports[i], i)]
Alike(imports) == [i \in DOMAIN imports |-> As(imports[i], 1)]

Telora(fault, exports, uses, imports) ==
    [kind |-> "telora", fault |-> fault, exports |-> exports, own |-> {},
     uses |-> uses, imports |-> imports]

Data(kind, fault) ==
    [kind |-> kind, fault |-> fault, exports |-> {}, own |-> {}, uses |-> {},
     imports |-> <<>>]

UpTo2(S) == {<<>>} \cup {<<x>> : x \in S} \cup {<<x, y>> : x, y \in S}
UpTo1(S) == {<<>>} \cup {<<x>> : x \in S}

\* Every shape of graph: each source imports up to two sources.
Shapes(roots) ==
    {[m \in Modules |-> Telora("none", {"n"}, {},
        CASE m = "a" -> Apart([i \in DOMAIN a |-> Plain(a[i])])
          [] m = "b" -> Apart([i \in DOMAIN b |-> Plain(b[i])])
          [] m = "c" -> Apart([i \in DOMAIN c |-> Plain(c[i])])
          [] OTHER -> Apart([i \in DOMAIN r |-> Plain(r[i])]))] :
        a, b \in UpTo2({"a", "b", "c"}), c \in UpTo1({"a", "b", "c"}), r \in roots}

\* The faults that either loader finds in a source besides the root.
LoadersFaults == Faults \ {"misset", "nested", "skipped"}

\* Every kind of import of every kind of module; b is data or imports a.
Faulty(faults, datas, rootFaults) ==
    {[m \in Modules |->
        CASE m = "a" -> Telora(fa, {"n"}, {}, Apart(ia))
          [] m = "b" -> b
          [] m = "c" -> Telora("none", {"n", "p"}, {}, <<>>)
          [] OTHER -> Telora(fr, {"n"}, ur, Apart(ir))] :
        fa \in faults, fr \in rootFaults,
        b \in datas \cup {Telora("none", {"n"}, {}, Apart(<<Plain("a")>>))},
        ia \in {<<>>, <<Plain("a")>>},
        ur \in {{}, {"n"}, {"n", "p"}},
        ir \in {<<i, j>> :
            i \in {Plain("a"), Open("a"), Item("a"), Plain(Unresolved)},
            j \in {Plain("b"), Open("b"), Item("b"), Open("c"), Open(Builtin),
                   Item(Builtin)}}}

\* The errors that only one of the loaders looks for: in the root, which has
\* what it may not have or gives one name to two imports, and in a.
StrictlyFaulty ==
    {[m \in Modules |->
        CASE m = "a" -> Telora(fa, {"n"}, {}, ia)
          [] m = "b" -> b
          [] m = "c" -> Telora("none", {"n", "p"}, {}, <<>>)
          [] OTHER -> Telora(fr, {"n"}, {}, ir)] :
        fa \in {"none", "nested", "skipped"},
        fr \in {"none", "misset", "nested", "skipped", "raises"},
        b \in {Data("dict", "none"), Data("scalar", "unreadable"),
               Telora("none", {"n"}, {}, Apart(<<Plain("a")>>))},
        ia \in {<<>>, Alike(<<Plain("c"), Item("c")>>)},
        ir \in UNION {{Apart(<<i, j>>), Alike(<<i, j>>)} :
            i \in {Plain("a"), Open("a"), Plain(Unresolved)},
            j \in {Plain("b"), Item("b"), Item(Builtin)}}}

AllData == {Data(k, f) : k \in {"dict", "scalar"}, f \in {"none", "unparsed", "unreadable"}}
=============================================================================
