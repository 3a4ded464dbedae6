SPECIFICATION Spec
CONSTANTS
    Sources = {"a", "b", "c"}
    Root = "main"
    Builtin = "builtin"
    Prelude = "prelude"
    Unresolved = "unresolved"
    Names = {"n", "p"}
    Locals = {1, 2}
    Whole = "whole"
    BuiltinNames = {"n"}
    PreludeNames = {"p"}
    Graphs <- Unreadable
PROPERTY LeavePopsOwn
CHECK_DEADLOCK FALSE
