SPECIFICATION Spec
CONSTANTS
    main = main
    lib = lib
    link = link
    plain = plain
    importing = importing
    Docs <- MCDocs
    Aliases = {link}
    Canon <- MCLinks
    Unreadable = {link}
    Texts <- MCTexts
    Imports <- MCImports
    OnDisk <- MCOnDisk
    Closed = Closed
    Missing = Missing
    Versions = {1, 2}
    FileRoots = {main}
    MayNameDirectory = TRUE
    NoRoot = NoRoot
    NotOpen = NotOpen
    NoSnapshot = NoSnapshot
    NothingShown = NothingShown
    Requests = {}
    Ids = {}
    UniqueIds = TRUE
    NoRequest = NoRequest
    MaxRevision = 3
    Second = {}
CHECK_DEADLOCK FALSE
INVARIANTS
    RunningHasWorkspace
