------------------------------ MODULE MCLoading ------------------------------
EXTENDS Loading, SourceTrees

MCGraphs ==
    Shapes({<<"a", "b">>})
        \cup Faulty({"none", "unreadable", "ill"}, AllData, {"none"})
        \cup Faulty(LoadersFaults, {Data("dict", "none")}, {"none"})
        \cup Faulty(LoadersFaults, {}, {"raises"})
        \cup Faulty({"none"}, {Data("dict", "none")}, {"halts"})
        \cup StrictlyFaulty

\* A root that imports a data file that cannot be read.
Unreadable ==
    {[m \in Modules |->
        IF m = Root THEN Telora("none", {"n"}, {}, Apart(<<Plain("a")>>))
        ELSE Data("dict", "unreadable")]}
=============================================================================
