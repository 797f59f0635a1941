SPECIFICATION FairSpec
CONSTANTS
    a = a
    b = b
    t1 = t1
    t2 = t2
    NoText = NoText
    Torn = Torn
    Uris <- MCUris
    Texts <- OneText
    MaxVersion = 2
    MaxMessages = 4
    MaxChanges = 1
    Methods <- WithoutClose
    PipeStalls = TRUE
    WriterPriority = FALSE
PROPERTIES
    TextsGetParsed
    RequestsAnswered
    ExitStops
    SyncSpec
