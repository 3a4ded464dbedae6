SPECIFICATION FairSpec
CONSTANTS
    Functions <- MCFunctions
    Main = "main"
    Programs <- MCPrograms
    Quotas <- MCQuotas
    MaxStackSlots = 24
    MaxCallDepth = 5
    Root = Root
    Unset = Unset
    Budget = 60
INVARIANTS
    FramesPartitionStack
    ReturnsFindTheirCaller
    WithinLimits
    ResultIsMeaning
PROPERTIES
    Terminates
