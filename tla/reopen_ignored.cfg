SPECIFICATION SessionSpec
CONSTANTS
    a = a
    b = b
    t1 = t1
    t2 = t2
    NoText = NoText
    Torn = Torn
    Uris <- OneUri
    Texts <- TwoTexts
    MaxVersion = 2
    MaxMessages = 4
    MaxChanges = 1
    Methods <- Synchronization
    PipeStalls = FALSE
    WriterPriority = TRUE
    Reopens = TRUE
INVARIANT TextIsTheClients
