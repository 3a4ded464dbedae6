SPECIFICATION HostSpec
CONSTANTS
    Threads <- MCThreads
    Ids <- MCIds
    Invalid <- MCInvalid
    Builtins <- MCBuiltins
    MaxEdits = 2
    Plans <- MCPlans
    Limits <- MCLimits
    Locations = {1, 2, 4}
    Programs <- MCPrograms
    MaxRuntimeDiagnostics = 3
INVARIANTS
    FailuresAreOwn
    IndependentUnitsRun
    MadeOnce
PROPERTIES
    Settles
CHECK_DEADLOCK FALSE
