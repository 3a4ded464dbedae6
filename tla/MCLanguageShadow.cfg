SPECIFICATION LanguageSpec
CONSTANTS
    Subjects = {"program"}
    ArmsFor <- MCArmsFor
    MaxArms <- MCMaxArms
    ValuesOf <- MCValuesOf
    MaxDepth = 3
    Ints = {0, 1, 2}
    Strings = {"a"}
    Programs <- Shadowing
    External <- MCExternal
    Located <- MCLocated
    MaxInt = 3
INVARIANTS
    CompiledMeansSource
CHECK_DEADLOCK FALSE
