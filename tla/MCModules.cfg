SPECIFICATION Spec
CONSTANTS
    Name <- MCName
    Layouts <- MCLayouts
    Extension <- MCExtension
    Mark <- MCMark
INVARIANTS
    CratesAreClosed
    OneIdentity
CHECK_DEADLOCK FALSE
