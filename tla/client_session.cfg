SPECIFICATION FairSessionSpec
CONSTANTS
    a = a
    b = b
    t1 = t1
    t2 = t2
    NoText = NoText
    Torn = Torn
    Uris <- TwoUris
    Texts <- TwoTexts
    MaxVersion = 2
    MaxMessages = 4
    MaxChanges = 1
    Methods <- AllMethods
    PipeStalls = FALSE
    WriterPriority = TRUE
    Reopens = FALSE
INVARIANTS
    TextIsTheClients
    StateIsTheClients
    OnlyKnownDocuments
PROPERTY
    ParseIsTheClients
    CloseTakesEffect
    RequestsAnswered
