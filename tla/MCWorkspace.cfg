SPECIFICATION MCSpec
CONSTANTS
    main = main
    lib = lib
    importing = importing
    Docs <- MCDocs
    Root = main
    Texts <- MCTexts
    Imports <- MCImports
    Closed = Closed
    Missing = Missing
    NoSnapshot = NoSnapshot
    Versions = {1, 2}
    DiskTexts = {importing, Missing}
    Editors = {e1}
    Tasks = {t1, t2}
    Free = Free
    Late = t2
    MaxRevision = 2
CHECK_DEADLOCK FALSE
INVARIANTS
    PublishedCoherent
PROPERTIES
    PublishedNeverOlder
    ImplementsService
    RebuildReaches
