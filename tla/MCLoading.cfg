SPECIFICATION FairSpec
CONSTANTS
    Sources = {"a", "b", "c"}
    Root = "main"
    Builtin = "builtin"
    Prelude = "prelude"
    Unresolved = "unresolved"
    Names = {"n", "p"}
    Locals = {1, 2}
    Whole = "whole"
    BuiltinNames = {"n"}
    PreludeNames = {"p"}
    Graphs <- MCGraphs
INVARIANTS
    StrictIsRight
    SnapshotIsWhole
    KnownIsRight
    LoadersAgree
PROPERTY LoadingEnds
CHECK_DEADLOCK FALSE
