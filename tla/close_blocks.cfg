SPECIFICATION FairSpec
CONSTANTS
    a = a
    b = b
    t1 = t1
    t2 = t2
    NoText = NoText
    Torn = Torn
    Uris <- OneUri
    Texts <- OneText
    MaxVersion = 1
    MaxMessages = 3
    MaxChanges = 1
    Methods <- AllMethods
    PipeStalls = TRUE
    WriterPriority = FALSE
PROPERTY CloseTakesEffect
\* The thread that waits in didClose is the one that would run the completions.
CHECK_DEADLOCK FALSE
