SPECIFICATION MCSpec
CONSTANTS
    main = main
    lib = lib
    link = link
    plain = plain
    importing = importing
    Docs <- MCDocs
    Aliases = {}
    Canon <- MCNoLinks
    Unreadable = {}
    Texts <- MCTexts
    Imports <- MCImports
    OnDisk <- MCOnDisk
    Closed = Closed
    Missing = Missing
    Versions = {1, 2}
    FileRoots = {main}
    MayNameDirectory = TRUE
    NoRoot = NoRoot
    NotOpen = NotOpen
    NoSnapshot = NoSnapshot
    NothingShown = NothingShown
    Requests = {r1, r2}
    Ids = {i1, i2}
    UniqueIds = TRUE
    NoRequest = NoRequest
    MaxRevision = 2
    Second = {r2, i2}
CHECK_DEADLOCK FALSE
INVARIANTS
    RegistryOwnsActive
    DiagnosticsCaughtUp
PROPERTIES
    RequestsAnswered
    DiagnosticsAreCurrent
    AnswersAreCurrent
    RebuildsEnd
