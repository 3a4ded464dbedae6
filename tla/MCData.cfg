SPECIFICATION JsonSpec
CONSTANTS
    Requests <- MCRequests
    Links <- MCLinks
    Names <- MCNames
    Camel <- MCCamel
    Pieces <- MCPieces
    Display <- MCDisplay
    Answer <- MCAnswer
INVARIANTS
    EncodesInPlace
    RoundTrips
    SchemaDescribesDecode
CHECK_DEADLOCK FALSE
