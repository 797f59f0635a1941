SPECIFICATION Spec
CONSTANTS
    a = a
    b = b
    t1 = t1
    t2 = t2
    NoText = NoText
    Torn = Torn
    Uris <- MCUris
    Texts <- MCTexts
    MaxVersion = 2
    MaxMessages = 5
    MaxChanges = 2
    Methods <- AllMethods
    PipeStalls = TRUE
    WriterPriority = TRUE
SYMMETRY Symmetry
INVARIANTS
    TypeOK
    NoLostUpdate
    LockExclusion
    NoTornCursor
    IndexMatchesDocument
    InterpreterOutlivesParses
    ShutdownAnswered
\* didClose can wait for ever for its own thread: see the run close_blocks.
CHECK_DEADLOCK FALSE
