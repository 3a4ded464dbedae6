SPECIFICATION LanguageSpec
CONSTANTS
    Subjects = {"match", "program"}
    ArmsFor <- MCArmsFor
    MaxArms <- MCMaxArms
    ValuesOf <- MCValuesOf
    MaxDepth = 3
    Ints = {0, 1, 2}
    Strings = {"a"}
    Programs <- AllPrograms
    External <- MCExternal
    Located <- MCLocated
    MaxInt = 3
INVARIANTS
    MatchNeverFails
    ReportsAreTrue
    ElseIsLive
    CompiledMeansSource
    ResolvedCompiles
CHECK_DEADLOCK FALSE
