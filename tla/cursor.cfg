SPECIFICATION CursorSpec
CONSTANTS
    Contents <- MCContents
    Styles <- MCStyles
INVARIANTS
    CursorTypeOK
    PositionsExact
    OrderPreserved
    WordUnderCursor
    NearestWord
    AskedCallsAreIndexed
